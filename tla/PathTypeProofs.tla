--------------------------- MODULE PathTypeProofs ---------------------------
(***************************************************************************)
(* Paths stay paths: what filepath.Join computes, that it agrees with the  *)
(* kernel's walk, and the types of PathTrace, for paths of any length and  *)
(* any set of names.                                                       *)
(*                                                                         *)
(* Facts about the recursive Walk are proved by the least counterexample:  *)
(* a set of natural numbers that is not empty has a least element.         *)
(***************************************************************************)
EXTENDS PathProofs, WellFoundedInduction, FiniteSetTheorems

LEMMA LeastNat ==
    ASSUME NEW T, T \subseteq Nat, T # {}
    PROVE  \E m \in T : \A k \in T : m <= k
<1> DEFINE R == OpToRel(<, Nat)
<1>1. PICK m \in T : \A k \in T : ~(<<k, m>> \in R)
  <2>1. IsWellFoundedOn(R, Nat)
    BY NatLessThanWellFounded
  <2> HIDE DEF R
  <2> QED BY <2>1, WFMin
<1>2. R = {ss \in Nat \X Nat : ss[1] < ss[2]}
  BY DEF OpToRel
<1> HIDE DEF R
<1>3. \A k \in T : ~(k < m)
  BY <1>1, <1>2
<1> QED BY <1>3

-----------------------------------------------------------------------------
(***************************************************************************)
(* Walking a path.                                                         *)
(***************************************************************************)
\* Where one component leads, and where the first n lead from base.
Enter(path, c) == IF c = ".." THEN Parent(path) ELSE Append(path, c)

Walks(at, base, comps, n) ==
    /\ DOMAIN at = 0..n
    /\ at[0] = base
    /\ \A i \in 1..n : at[i] = Enter(at[i - 1], comps[i])

IsWalk(at, base, comps, n) ==
    at = [i \in 0..n |-> IF i = 0 THEN base
                         ELSE IF comps[i] = ".." THEN Parent(at[i - 1])
                         ELSE Append(at[i - 1], comps[i])]

LEMMA WalkStepwise ==
    ASSUME NEW at, NEW base, NEW comps, NEW n \in Nat
    PROVE  IsWalk(at, base, comps, n) <=> at = [i \in 0..n |-> at[i]] /\ Walks(at, base, comps, n)
<1>1. ASSUME IsWalk(at, base, comps, n)
      PROVE  at = [i \in 0..n |-> at[i]] /\ Walks(at, base, comps, n)
  <2>1. at = [i \in 0..n |-> IF i = 0 THEN base ELSE Enter(at[i - 1], comps[i])]
    BY <1>1, Zenon DEF IsWalk, Enter
  <2>2. DOMAIN at = 0..n /\ at = [i \in 0..n |-> at[i]]
    BY <2>1
  <2>3. ASSUME NEW i \in 1..n PROVE at[i] = Enter(at[i - 1], comps[i])
    <3>1. i \in 0..n /\ i # 0
      OBVIOUS
    <3> QED BY <2>1, <3>1
  <2>4. at[0] = base
    <3>1. 0 \in 0..n
      OBVIOUS
    <3> QED BY <2>1, <3>1
  <2> QED BY <2>2, <2>3, <2>4 DEF Walks
<1>2. ASSUME at = [i \in 0..n |-> at[i]], Walks(at, base, comps, n)
      PROVE  IsWalk(at, base, comps, n)
  <2>1. \A i \in 0..n : at[i] = IF i = 0 THEN base ELSE Enter(at[i - 1], comps[i])
    <3> SUFFICES ASSUME NEW i \in 0..n
                 PROVE  at[i] = IF i = 0 THEN base ELSE Enter(at[i - 1], comps[i])
      OBVIOUS
    <3>1. i = 0 \/ i \in 1..n
      OBVIOUS
    <3>2. i \in 1..n => i # 0
      OBVIOUS
    <3> QED BY <1>2, <3>1, <3>2 DEF Walks
  <2>2. at = [i \in 0..n |-> IF i = 0 THEN base ELSE Enter(at[i - 1], comps[i])]
    BY <1>2, <2>1
  <2> QED BY <2>2, Zenon DEF IsWalk, Enter
<1> QED BY <1>1, <1>2

\* The recursion of Walk has a solution.
LEMMA WalkExists ==
    ASSUME NEW base, NEW comps, NEW n \in Nat
    PROVE  \E at : IsWalk(at, base, comps, n)
<1> DEFINE T == {m \in Nat : ~\E at : IsWalk(at, base, comps, m)}
<1> SUFFICES ASSUME T # {} PROVE FALSE
  OBVIOUS
<1>1. PICK m \in T : \A k \in T : m <= k
  BY LeastNat
<1>2. CASE m = 0
  <2> DEFINE at == [i \in 0..0 |-> base]
  <2>1. IsWalk(at, base, comps, 0)
    BY DEF IsWalk
  <2> QED BY <1>2, <2>1
<1>3. CASE m > 0
  <2>1. PICK at : IsWalk(at, base, comps, m - 1)
    BY <1>1, <1>3
  <2>2. m \in Nat /\ m - 1 \in Nat /\ m - 1 \in 0..m
    BY <1>3
  <2>3. Walks(at, base, comps, m - 1)
    BY <2>1, <2>2, WalkStepwise
  <2> DEFINE on == [i \in 0..m |-> IF i = m THEN Enter(at[m - 1], comps[m]) ELSE at[i]]
  <2>4. \A i \in 1..m : on[i] = Enter(on[i - 1], comps[i])
    <3> SUFFICES ASSUME NEW i \in 1..m PROVE on[i] = Enter(on[i - 1], comps[i])
      OBVIOUS
    <3>1. CASE i = m
      BY <2>2, <3>1
    <3>2. CASE i # m
      BY <2>2, <2>3, <3>2 DEF Walks
    <3> QED BY <3>1, <3>2
  <2>5. DOMAIN on = 0..m /\ on = [i \in 0..m |-> on[i]] /\ on[0] = base
    BY <1>3, <2>2, <2>3 DEF Walks
  <2> HIDE DEF on
  <2>6. IsWalk(on, base, comps, m)
    <3>1. Walks(on, base, comps, m)
      BY <2>4, <2>5 DEF Walks
    <3> QED BY <2>2, <2>5, <3>1, WalkStepwise
  <2> QED BY <2>6
<1> QED BY <1>1, <1>2, <1>3

LEMMA WalkIs ==
    ASSUME NEW base, NEW comps, Len(comps) \in Nat
    PROVE  \E at : Walks(at, base, comps, Len(comps)) /\ Walk(base, comps) = at[Len(comps)]
<1> DEFINE at == CHOOSE f : IsWalk(f, base, comps, Len(comps))
<1>1. IsWalk(at, base, comps, Len(comps))
  BY WalkExists
<1>2. Walk(base, comps) = at[Len(comps)]
  BY DEF Walk, IsWalk
<1> HIDE DEF at
<1>3. Walks(at, base, comps, Len(comps))
  BY <1>1, WalkStepwise
<1> QED BY <1>2, <1>3

\* A step from a path leads to a path.
LEMMA EnterTyped ==
    ASSUME NEW path \in Seq(Names), NEW c \in Names \cup {".."}
    PROVE  Enter(path, c) \in Seq(Names)
<1>1. path # <<>> => Front(path) \in Seq(Names)
  BY DEF Front
<1> QED BY <1>1 DEF Enter, Parent

LEMMA WalkTyped ==
    ASSUME NEW base \in Seq(Names), NEW comps \in Seq(Names \cup {".."})
    PROVE  Walk(base, comps) \in Seq(Names)
<1>1. PICK at : Walks(at, base, comps, Len(comps)) /\ Walk(base, comps) = at[Len(comps)]
  BY WalkIs
<1> DEFINE T == {i \in 0..Len(comps) : at[i] \notin Seq(Names)}
<1> SUFFICES ASSUME T # {} PROVE FALSE
  BY <1>1
<1>2. PICK m \in T : \A k \in T : m <= k
  <2>1. T \subseteq Nat
    OBVIOUS
  <2> HIDE DEF T
  <2> QED BY <2>1, LeastNat
<1>3. m # 0
  BY <1>1 DEF Walks
<1>4. m - 1 \in 0..Len(comps) /\ m \in 1..Len(comps) /\ m - 1 \notin T
  BY <1>2, <1>3
<1>5. at[m] = Enter(at[m - 1], comps[m]) /\ comps[m] \in Names \cup {".."}
  BY <1>1, <1>4 DEF Walks
<1> QED BY <1>4, <1>5, EnterTyped

\* Cleaning a clean path gives the path.
LEMMA CleanPrefix ==
    ASSUME NEW base \in Seq(Names), NEW comps \in Seq(Names \cup {".."}), NEW at, NEW n \in Nat,
           Walks(at, <<>>, base \o comps, n), Len(base) <= n
    PROVE  \A i \in 0..Len(base) : at[i] = SubSeq(base, 1, i)
<1> DEFINE T == {i \in 0..Len(base) : at[i] # SubSeq(base, 1, i)}
<1> SUFFICES ASSUME T # {} PROVE FALSE
  OBVIOUS
<1>1. PICK m \in T : \A k \in T : m <= k
  <2>1. T \subseteq Nat
    OBVIOUS
  <2> HIDE DEF T
  <2> QED BY <2>1, LeastNat
<1>2. m # 0
  <2>1. SubSeq(base, 1, 0) = <<>>
    OBVIOUS
  <2> QED BY <2>1 DEF Walks
<1>3. m \in 1..Len(base) /\ m \in 1..n /\ m - 1 \in 0..Len(base) /\ m - 1 \notin T
  BY <1>1, <1>2
<1>4. at[m] = Enter(at[m - 1], (base \o comps)[m]) /\ at[m - 1] = SubSeq(base, 1, m - 1)
  BY <1>3 DEF Walks
<1>5. (base \o comps)[m] = base[m] /\ base[m] \in Names
  BY <1>3
<1>6. at[m] = Append(SubSeq(base, 1, m - 1), base[m])
  BY <1>4, <1>5, TreeAssumption DEF Enter
<1>7. Append(SubSeq(base, 1, m - 1), base[m]) = SubSeq(base, 1, m)
  BY <1>3
<1> QED BY <1>6, <1>7

\* filepath.Join, which cleans the joined path from the root, arrives where the
\* kernel does that walks the argument from the base: resolvePath is right
\* about every path that it resolves from the right base.
THEOREM JoinIsWalk ==
    ASSUME NEW base \in Seq(Names), NEW comps \in Seq(Names \cup {".."})
    PROVE  Join(base, comps) = Walk(base, comps)
<1> DEFINE whole == base \o comps
           b == Len(base)
<1>0. /\ whole \in Seq(Names \cup {".."}) /\ Len(whole) = b + Len(comps)
      /\ b \in Nat /\ Len(comps) \in Nat
      /\ \A j \in 1..Len(comps) : whole[b + j] = comps[j]
  OBVIOUS
<1>1. PICK at : Walks(at, <<>>, whole, Len(whole)) /\ Walk(<<>>, whole) = at[Len(whole)]
  <2>1. Len(whole) \in Nat
    BY <1>0
  <2> HIDE DEF whole
  <2> QED BY <2>1, WalkIs
<1>2. PICK on : Walks(on, base, comps, Len(comps)) /\ Walk(base, comps) = on[Len(comps)]
  BY WalkIs
<1>3. at[b] = base
  <2>1. \A i \in 0..Len(base) : at[i] = SubSeq(base, 1, i)
    BY <1>0, <1>1, CleanPrefix
  <2>2. SubSeq(base, 1, b) = base
    OBVIOUS
  <2> QED BY <1>0, <2>1, <2>2
<1> HIDE DEF whole, b
<1> DEFINE T == {j \in 0..Len(comps) : at[b + j] # on[j]}
<1>4. T = {}
  <2> SUFFICES ASSUME T # {} PROVE FALSE
    OBVIOUS
  <2>1. PICK m \in T : \A k \in T : m <= k
    <3>1. T \subseteq Nat
      BY <1>0
    <3> HIDE DEF T
    <3> QED BY <3>1, LeastNat
  <2>2. m # 0
    <3>1. on[0] = base /\ b + 0 = b
      BY <1>0, <1>2 DEF Walks
    <3> QED BY <1>3, <2>1, <3>1
  <2>3. m \in 1..Len(comps) /\ m - 1 \in 0..Len(comps) /\ m - 1 \notin T
    <3>1. m \in 0..Len(comps) /\ Len(comps) \in Nat
      BY <1>0
    <3>2. m \in 1..Len(comps) /\ m - 1 \in 0..Len(comps) /\ ~(m <= m - 1)
      BY <2>2, <3>1
    <3> HIDE DEF T
    <3> QED BY <2>1, <3>2
  <2>4. on[m] = Enter(on[m - 1], comps[m])
    BY <1>2, <2>3 DEF Walks
  <2>5. b + m \in 1..Len(whole) /\ (b + m) - 1 = b + (m - 1)
    BY <1>0, <2>3
  <2>6. at[b + m] = Enter(at[b + (m - 1)], whole[b + m])
    BY <1>1, <2>5 DEF Walks
  <2>7. at[b + (m - 1)] = on[m - 1] /\ whole[b + m] = comps[m]
    BY <1>0, <2>3
  <2> QED BY <2>4, <2>6, <2>7
<1>5. at[Len(whole)] = on[Len(comps)]
  BY <1>0, <1>4
<1> QED BY <1>1, <1>2, <1>5 DEF Join, Clean, whole

LEMMA JoinTyped ==
    ASSUME NEW base \in Seq(Names), NEW comps \in Seq(Names \cup {".."})
    PROVE  Join(base, comps) \in Seq(Names)
BY JoinIsWalk, WalkTyped

-----------------------------------------------------------------------------
(***************************************************************************)
(* The handlers keep the filter's paths paths.                             *)
(***************************************************************************)
Typed(s) == s.cwd \in AbsPath /\ \A fd \in Fd : s.fdPaths[fd] \in AbsPath

LEMMA EmptyTyped == Typed(Empty)
BY DEF Typed, Empty, AbsPath

\* What the code asks of an argument's path and of the base it starts from.
LEMMA ArgumentTyped ==
    ASSUME NEW ev, WellFormed(ev), NEW i \in {0, 1, 3}, ev.path[i] # NoPath
    PROVE  ev.path[i].comps \in Seq(Names \cup {".."}) /\ ev.path[i].abs \in BOOLEAN
BY TreeAssumption DEF WellFormed, EventPaths

LEMMA BaseTyped ==
    ASSUME NEW s, Typed(s), NEW ev, NEW i
    PROVE  Base(s, ev, i) \in AbsPath
BY DEF Base, FdPath, Typed, AbsPath

LEMMA ResolveTyped ==
    ASSUME NEW s, Typed(s), NEW ev, WellFormed(ev), NEW i \in {0, 1, 3}
    PROVE  ResolvePathAt(s, ev, i) \in AbsPath
<1>1. CASE ev.path[i] = NoPath
  BY <1>1 DEF ResolvePathAt, AbsPath
<1>2. CASE ev.path[i] # NoPath /\ ev.path[i].abs
  <2>1. <<>> \in Seq(Names)
    OBVIOUS
  <2>2. Join(<<>>, ev.path[i].comps) \in Seq(Names)
    BY <1>2, <2>1, ArgumentTyped, JoinTyped
  <2> QED BY <1>2, <2>2 DEF ResolvePathAt, AbsPath
<1>3. CASE ev.path[i] # NoPath /\ ~ev.path[i].abs /\ Base(s, ev, i) = NoPath
  BY <1>3 DEF ResolvePathAt, AbsPath
<1>4. CASE ev.path[i] # NoPath /\ ~ev.path[i].abs /\ Base(s, ev, i) # NoPath
  <2>1. Base(s, ev, i) \in Seq(Names)
    BY <1>4, BaseTyped DEF AbsPath
  <2>2. Join(Base(s, ev, i), ev.path[i].comps) \in Seq(Names)
    BY <1>4, <2>1, ArgumentTyped, JoinTyped
  <2> QED BY <1>4, <2>2 DEF ResolvePathAt, AbsPath
<1> QED BY <1>1, <1>2, <1>3, <1>4

LEMMA CwdTyped ==
    ASSUME NEW s, Synced(s), Typed(s), NEW d \in AbsPath
    PROVE  Typed([s EXCEPT !.cwd = d])
BY DEF Typed, Synced, IsState

LEMMA CacheTyped ==
    ASSUME NEW s, Synced(s), Typed(s), NEW ev, NEW i, NEW proc \in AbsPath
    PROVE  Typed(CacheCwd(s, ev, i, proc))
BY CwdTyped DEF CacheCwd

LEMMA AssignTyped ==
    ASSUME NEW s, Synced(s), Typed(s), NEW fd, NEW path \in AbsPath
    PROVE  Typed(AssignFD(s, fd, path)) /\ Typed(ClearFD(s, fd)) /\ Typed(TrackFD(s, fd))
<1>1. NoPath \in AbsPath
  BY DEF AbsPath
<1>2. \A g \in Fd : /\ [s.fdPaths EXCEPT ![fd] = path][g] \in AbsPath
                    /\ [s.fdPaths EXCEPT ![fd] = NoPath][g] \in AbsPath
  BY <1>1 DEF Typed, Synced, IsState
<1>3. Typed(AssignFD(s, fd, path)) /\ Typed(ClearFD(s, fd))
  BY <1>2 DEF Typed, AssignFD, ClearFD
<1>4. Typed(TrackFD(s, fd))
  BY DEF Typed, TrackFD, Synced, IsState
<1> QED BY <1>3, <1>4

LEMMA RewriteTyped ==
    ASSUME NEW path \in AbsPath, NEW old \in Seq(Names), NEW new \in Seq(Names)
    PROVE  RewritePathPrefix(path, old, new) \in AbsPath
<1>1. ASSUME path # NoPath, IsBelow(path, old)
      PROVE  new \o SubSeq(path, Len(old) + 1, Len(path)) \in Seq(Names)
  <2>1. path \in Seq(Names)
    BY <1>1 DEF AbsPath
  <2>2. SubSeq(path, Len(old) + 1, Len(path)) \in Seq(Names)
    BY <2>1
  <2> QED BY <2>2
<1> QED BY <1>1 DEF RewritePathPrefix, AbsPath

LEMMA OpenTyped ==
    ASSUME NEW s, Synced(s), Typed(s), NEW ev, WellFormed(ev), NEW i \in {0, 1, 3},
           NEW proc \in AbsPath
    PROVE  Typed(ObserveOpen(s, ev, i, proc))
<1> DEFINE resolved == CacheCwd(s, ev, i, proc)
<1>1. Synced(resolved) /\ Typed(resolved)
  BY CacheSynced, CacheTyped
<1> HIDE DEF resolved
<1> DEFINE path == ResolvePathAt(resolved, ev, i)
<1>2. path \in AbsPath
  BY <1>1, ResolveTyped
<1> HIDE DEF path
<1>3. Typed(AssignFD(resolved, ev.ret, path))
  BY <1>1, <1>2, AssignTyped
<1> QED BY <1>1, <1>3 DEF ObserveOpen, resolved, path

LEMMA FdPathTyped ==
    ASSUME NEW s, Typed(s), NEW fd
    PROVE  FdPath(s, fd) \in AbsPath
BY DEF FdPath, Typed, AbsPath

LEMMA DupTyped ==
    ASSUME NEW s, Synced(s), Typed(s), NEW ev, WellFormed(ev), ev.ret \in Fd
    PROVE  Typed(ObserveDupRet(s, ev)) /\ Typed(ObserveFcntl(s, ev))
<1> DEFINE path == FdPath(s, ev.fd[0])
           copied == IF path # NoPath THEN AssignFD(s, ev.ret, path) ELSE s
<1>1. path \in AbsPath
  BY FdPathTyped
<1>2. Synced(copied) /\ Typed(copied)
  BY <1>1, AssignSynced, AssignTyped
<1>3. Typed(TrackFD(copied, ev.ret))
  BY <1>1, <1>2, AssignTyped
<1> QED BY <1>2, <1>3 DEF ObserveDupRet, ObserveFcntl

LEMMA DupPairTyped ==
    ASSUME NEW s, Synced(s), Typed(s), NEW ev, ev.fd[1] \in Fd
    PROVE  Typed(ObserveDupPair(s, ev))
<1> DEFINE path == FdPath(s, ev.fd[0])
           copied == IF path # NoPath THEN AssignFD(s, ev.fd[1], path) ELSE ClearFD(s, ev.fd[1])
<1>1. path \in AbsPath
  BY FdPathTyped
<1>2. Synced(copied) /\ Typed(copied)
  BY <1>1, AssignSynced, ClearSynced, AssignTyped
<1>3. Typed(TrackFD(copied, ev.fd[1]))
  BY <1>1, <1>2, AssignTyped
<1>4. Typed([copied EXCEPT !.trackedFDs = @ \ {ev.fd[1]}])
  <2> HIDE DEF copied
  <2> QED BY <1>2 DEF Typed, Synced, IsState
<1> QED BY <1>3, <1>4 DEF ObserveDupPair

LEMMA ChdirTyped ==
    ASSUME NEW s, Synced(s), Typed(s), NEW ev, WellFormed(ev), NEW proc \in AbsPath
    PROVE  Typed(ObserveChdir(s, ev, proc)) /\ Typed(ObserveFchdir(s, ev))
<1> DEFINE resolved == CacheCwd(s, ev, 0, proc)
<1>1. Synced(resolved) /\ Typed(resolved)
  BY CacheSynced, CacheTyped
<1> HIDE DEF resolved
<1>2. ResolvePathAt(resolved, ev, 0) \in AbsPath
  BY <1>1, ResolveTyped
<1>3. Typed([resolved EXCEPT !.cwd = ResolvePathAt(resolved, ev, 0)])
  BY <1>1, <1>2, CwdTyped
<1>4. Typed([s EXCEPT !.cwd = FdPath(s, ev.fd[0])])
  BY FdPathTyped, CwdTyped
<1> QED BY <1>1, <1>3, <1>4 DEF ObserveChdir, ObserveFchdir, resolved

LEMMA RenameTyped ==
    ASSUME NEW s, Synced(s), Typed(s), NEW ev, WellFormed(ev), NEW i \in {0, 1, 3},
           NEW j \in {0, 1, 3}, NEW proc \in AbsPath
    PROVE  Typed(ObserveRename(s, ev, i, j, proc))
<1> DEFINE one == CacheCwd(s, ev, i, proc)
<1>1. Synced(one) /\ Typed(one)
  BY CacheSynced, CacheTyped
<1> HIDE DEF one
<1> DEFINE two == CacheCwd(one, ev, j, proc)
<1>2. Synced(two) /\ Typed(two)
  BY <1>1, CacheSynced, CacheTyped
<1> HIDE DEF two
<1> DEFINE old == ResolvePathAt(one, ev, i)
           new == ResolvePathAt(two, ev, j)
<1>3. old \in AbsPath /\ new \in AbsPath
  BY <1>1, <1>2, ResolveTyped
<1> HIDE DEF old, new
<1>4. ASSUME old # NoPath, new # NoPath PROVE Typed(RewritePIDPaths(two, old, new))
  <2>1. old \in Seq(Names) /\ new \in Seq(Names)
    BY <1>3, <1>4 DEF AbsPath
  <2>2. \A path \in AbsPath : RewritePathPrefix(path, old, new) \in AbsPath
    BY <2>1, RewriteTyped
  <2>3. /\ RewritePIDPaths(two, old, new).cwd = RewritePathPrefix(two.cwd, old, new)
        /\ RewritePIDPaths(two, old, new).fdPaths
              = [fd \in Fd |-> RewritePathPrefix(two.fdPaths[fd], old, new)]
    BY DEF RewritePIDPaths
  <2> QED BY <1>2, <2>2, <2>3 DEF Typed
<1> QED BY <1>1, <1>2, <1>4 DEF ObserveRename, one, two, old, new

LEMMA UnlinkTyped ==
    ASSUME NEW s, Synced(s), Typed(s), NEW ev, NEW i, NEW proc \in AbsPath
    PROVE  Typed(ObserveUnlink(s, ev, i, proc))
<1>1. ASSUME NEW r, Typed(r), NEW target PROVE Typed(DropPIDPaths(r, target))
  BY <1>1 DEF Typed, DropPIDPaths, AbsPath
<1> QED BY <1>1, CacheTyped DEF ObserveUnlink

LEMMA CallTyped ==
    ASSUME NEW s, Synced(s), Typed(s), NEW ev, WellFormed(ev), NEW proc \in AbsPath
    PROVE  Typed(ObserveCall(s, ev, proc))
<1>1. CASE ev.ret < 0
  BY <1>1 DEF ObserveCall, WellFormed
<1>2. CASE ev.ret >= 0 /\ ev.id \in {"open", "openat"}
  BY <1>2, OpenTyped DEF ObserveCall, WellFormed
<1>3. CASE ev.ret >= 0 /\ ev.id \in {"dup", "fcntl_dupfd"}
  BY <1>3, DupTyped DEF ObserveCall, WellFormed
<1>4. CASE ev.ret >= 0 /\ ev.id = "dup2"
  BY <1>4, DupPairTyped DEF ObserveCall, WellFormed
<1>5. CASE ev.ret >= 0 /\ ev.id = "close"
  BY <1>5, AssignTyped DEF ObserveCall, ObserveClose, WellFormed
<1>6. CASE ev.ret >= 0 /\ ev.id \in {"chdir", "fchdir"}
  BY <1>6, ChdirTyped DEF ObserveCall, WellFormed
<1>7. CASE ev.ret >= 0 /\ ev.id \in {"rename", "renameat"}
  BY <1>7, RenameTyped DEF ObserveCall, WellFormed
<1>8. CASE ev.ret >= 0 /\ ev.id \in {"unlink", "unlinkat"}
  BY <1>8, UnlinkTyped DEF ObserveCall, WellFormed
<1>9. CASE ev.ret >= 0 /\ ev.id \notin {"open", "openat", "dup", "dup2", "fcntl_dupfd", "close",
                                        "chdir", "fchdir", "rename", "renameat", "unlink",
                                        "unlinkat"}
  BY <1>9 DEF ObserveCall
<1> QED BY <1>1, <1>2, <1>3, <1>4, <1>5, <1>6, <1>7, <1>8, <1>9 DEF WellFormed

-----------------------------------------------------------------------------
(***************************************************************************)
(* The types of PathTrace.  The bound on events counts the forks under way *)
(* in: their events come without asking for room.                          *)
(***************************************************************************)
FilterOK == (\A p \in Pid : Typed(stateByPID[p])) /\ output \in BOOLEAN

HistoryOK ==
    /\ live \subseteq Pid /\ inherited \subseteq Pid /\ confused \subseteq Pid
    /\ lost \in [Pid -> SUBSET Fd] /\ program \in Programs

KernelOK ==
    /\ fdTable \in [Pid -> [Fd -> AbsPath]]
    /\ dirs \subseteq Seq(Names) /\ files \subseteq Seq(Names) /\ cwd \in [Pid -> dirs]

Forkers == {p \in Pid : forking[p] # 0}

Counted == count \in Nat /\ count + Cardinality(Forkers) <= MaxEvents + Cardinality(Pid)

TypeInv == SyncInv /\ FilterOK /\ HistoryOK /\ KernelOK /\ Counted

LEMMA FilterTyped ==
    ASSUME AllSynced, FilterOK, NEW ev, WellFormed(ev), NEW proc \in AbsPath,
           ShouldOutput(ev, proc)
    PROVE  FilterOK'
<1> DEFINE matched == AfterMatch(stateByPID[ev.pid], ev, proc)
<1>1. Synced(stateByPID[ev.pid]) /\ Typed(stateByPID[ev.pid])
  BY DEF AllSynced, FilterOK, WellFormed
<1>2. Synced(matched) /\ Typed(matched)
  BY <1>1, CacheSynced, CacheTyped DEF AfterMatch
<1>3. Typed(ObserveCall(matched, ev, proc))
  BY <1>2, CallTyped
<1>4. ShouldPrint(matched, ev) \in BOOLEAN
  BY DEF ShouldPrint
<1> HIDE DEF matched
<1>5. CASE TracePaths = {}
  BY <1>5 DEF ShouldOutput, FilterOK, Typed
<1>6. CASE TracePaths # {}
  <2>1. stateByPID' = Observe(stateByPID, matched, ev, proc) /\ output' = ShouldPrint(matched, ev)
    BY <1>6 DEF ShouldOutput, matched
  <2>2. \A p \in Pid : stateByPID'[p] \in {ObserveCall(matched, ev, proc), matched, stateByPID[p]}
    BY <2>1 DEF Observe
  <2>3. \A p \in Pid : Typed(stateByPID'[p])
    BY <1>2, <1>3, <2>2 DEF FilterOK
  <2> QED BY <1>4, <2>1, <2>3 DEF FilterOK, Typed
<1> QED BY <1>5, <1>6

\* What a raw argument names is a path or nothing.
LEMMA NamedTyped ==
    ASSUME KernelOK, NEW p \in Pid, NEW dirfd \in Fd \cup {AT_FDCWD}, NEW raw \in Raw
    PROVE  Named(p, dirfd, raw) \in AbsPath
<1>1. raw.comps \in Seq(Names \cup {".."}) /\ raw.abs \in BOOLEAN
  BY TreeAssumption
<1>2. <<>> \in Seq(Names)
  OBVIOUS
<1> DEFINE base == IF dirfd = AT_FDCWD THEN cwd[p] ELSE fdTable[p][dirfd]
<1>3. base \in Seq(Names) \cup {NoPath}
  BY DEF KernelOK, AbsPath
<1> HIDE DEF base
<1>4. Walk(<<>>, raw.comps) \in Seq(Names)
  BY <1>1, <1>2, WalkTyped
<1>5. base # NoPath => Walk(base, raw.comps) \in Seq(Names)
  BY <1>1, <1>3, WalkTyped
<1> QED BY <1>4, <1>5 DEF Named, AbsPath, base

LEMMA MovedTyped ==
    ASSUME NEW path \in AbsPath, NEW from \in Seq(Names), NEW to \in Seq(Names)
    PROVE  /\ Moved(path, from, to) \in AbsPath
           /\ path # NoPath /\ path # to => Moved(path, from, to) \in Seq(Names)
<1>1. ASSUME path # NoPath
      PROVE  path \in Seq(Names) /\ to \o SubSeq(path, Len(from) + 1, Len(path)) \in Seq(Names)
  <2>1. path \in Seq(Names)
    BY <1>1 DEF AbsPath
  <2>2. SubSeq(path, Len(from) + 1, Len(path)) \in Seq(Names)
    BY <2>1
  <2> QED BY <2>1, <2>2
<1> QED BY <1>1 DEF Moved, AbsPath

\* A rename keeps every process in a directory.
LEMMA RenamesTyped ==
    ASSUME KernelOK, NEW p \in Pid, NEW id, NEW dirfd \in Fd \cup {AT_FDCWD}, NEW old \in Raw,
           NEW newdirfd \in Fd \cup {AT_FDCWD}, NEW new \in Raw, NEW fd, NEW path,
           Renames(p, id, dirfd, old, newdirfd, new, fd, path)
    PROVE  KernelOK'
<1> DEFINE from == Named(p, dirfd, old)
           to == Named(p, newdirfd, new)
<1>1. from \in Seq(Names) /\ to \in Seq(Names)
  BY NamedTyped, TreeAssumption DEF Renames, KernelOK, AbsPath
<1>2. /\ to \notin dirs
      /\ files' = {Moved(f, from, to) : f \in files \ {to}}
      /\ dirs' = {Moved(d, from, to) : d \in dirs}
      /\ fdTable' = [q \in Pid |-> [n \in Fd |-> Moved(fdTable[q][n], from, to)]]
      /\ cwd' = [q \in Pid |-> Moved(cwd[q], from, to)]
  BY DEF Renames
<1> HIDE DEF from, to
<1>3. \A x \in AbsPath : /\ Moved(x, from, to) \in AbsPath
                         /\ x # NoPath /\ x # to => Moved(x, from, to) \in Seq(Names)
  BY <1>1, MovedTyped
<1>4. \A x \in Seq(Names) : x \in AbsPath /\ x # NoPath
  BY TreeAssumption DEF AbsPath
<1>5. files' \subseteq Seq(Names) /\ dirs' \subseteq Seq(Names)
  BY <1>2, <1>3, <1>4 DEF KernelOK
<1>6. cwd' \in [Pid -> dirs']
  BY <1>2 DEF KernelOK
<1>7. fdTable' \in [Pid -> [Fd -> AbsPath]]
  BY <1>2, <1>3 DEF KernelOK
<1> QED BY <1>5, <1>6, <1>7 DEF KernelOK, AbsPath

\* The calls that change one descriptor.
LEMMA DescriptorTyped ==
    ASSUME KernelOK, NEW p \in Pid, NEW fd \in Fd, NEW path \in AbsPath,
           fdTable' = [fdTable EXCEPT ![p][fd] = path], UNCHANGED <<dirs, files, cwd>>
    PROVE  KernelOK'
BY DEF KernelOK, AbsPath

LEMMA SameKernel ==
    ASSUME KernelOK, UNCHANGED <<fdTable, dirs, files, cwd>>
    PROVE  KernelOK'
BY DEF KernelOK, AbsPath

LEMMA KernelStep ==
    ASSUME KernelOK, NEW p \in Pid, Process(p)
    PROVE  KernelOK'
<1> USE DEF osVars
<1>0. NoPath \in AbsPath /\ files \cup dirs \subseteq AbsPath
  BY DEF KernelOK, AbsPath
<1>1. ASSUME NEW id, NEW dirfd, NEW raw, NEW fd, NEW path, OpensAt(p, id, dirfd, raw, fd, path)
      PROVE  KernelOK'
  <2>1. \/ /\ Named(p, dirfd, raw) \in AbsPath
           /\ \E new \in Fd : fdTable' = [fdTable EXCEPT ![p][new] = Named(p, dirfd, raw)]
        \/ fdTable' = fdTable
    BY <1>0, <1>1 DEF OpensAt
  <2>2. UNCHANGED <<dirs, files, cwd>>
    BY <1>1 DEF OpensAt
  <2> QED BY <2>1, <2>2, DescriptorTyped, SameKernel
<1>2. ASSUME NEW id, NEW dirfd, NEW raw, NEW fd, NEW path, Unlinks(p, id, dirfd, raw, fd, path)
      PROVE  KernelOK'
  <2>1. /\ files' \subseteq files /\ UNCHANGED <<dirs, cwd>>
        /\ fdTable' = [q \in Pid |-> [n \in Fd |-> IF fdTable[q][n] = Named(p, dirfd, raw) THEN NoPath
                                                   ELSE fdTable[q][n]]]
    BY <1>2 DEF Unlinks
  <2>2. fdTable' \in [Pid -> [Fd -> AbsPath]]
    BY <1>0, <2>1 DEF KernelOK
  <2> QED BY <2>1, <2>2 DEF KernelOK, AbsPath
<1>3. ASSUME NEW id, NEW fds, NEW fd, NEW used, ClosesUnobserved(p, id, fds, fd, used)
      PROVE  KernelOK'
  <2>1. /\ fdTable' = [fdTable EXCEPT ![p] = [n \in Fd |-> IF n \in fds THEN NoPath ELSE @[n]]]
        /\ UNCHANGED <<dirs, files, cwd>>
    BY <1>3 DEF ClosesUnobserved
  <2>2. fdTable' \in [Pid -> [Fd -> AbsPath]]
    BY <1>0, <2>1 DEF KernelOK
  <2> QED BY <2>1, <2>2 DEF KernelOK, AbsPath
<1>4. CASE \E raw \in Raw : Open(p, raw) \/ Stat(p, raw) \/ Chdir(p, raw) \/ Unlink(p, raw)
  <2>1. PICK raw \in Raw : Open(p, raw) \/ Stat(p, raw) \/ Chdir(p, raw) \/ Unlink(p, raw)
    BY <1>4
  <2>2. CASE Open(p, raw) \/ Unlink(p, raw)
    BY <1>1, <1>2, <2>2 DEF Open, Unlink
  <2>3. CASE Stat(p, raw)
    BY <2>3, SameKernel DEF Stat
  <2>4. CASE Chdir(p, raw)
    BY <2>4 DEF Chdir, KernelOK, AbsPath
  <2> QED BY <2>1, <2>2, <2>3, <2>4
<1>5. CASE \E raw \in Raw, new \in Fd : OpenLost(p, raw, new)
  BY <1>0, <1>5, DescriptorTyped DEF OpenLost
<1>6. CASE \E raw \in Raw, dirfd \in Fd \cup {AT_FDCWD} :
             OpenAt(p, dirfd, raw) \/ StatAt(p, dirfd, raw) \/ UnlinkAt(p, dirfd, raw)
  BY <1>1, <1>2, <1>6, SameKernel DEF OpenAt, StatAt, UnlinkAt
<1>7. CASE \E old, new \in Raw :
             \/ Rename(p, old, new)
             \/ \E dirfd, newdirfd \in Fd \cup {AT_FDCWD} : RenameAt(p, dirfd, old, newdirfd, new)
  BY <1>7, RenamesTyped DEF Rename, RenameAt
<1>8. ASSUME NEW id, NEW arg, Use(p, id, arg) PROVE KernelOK'
  BY <1>8, SameKernel DEF Use
<1>9. CASE \E fd \in Fd : Close(p, fd) \/ CloseLost(p, fd) \/ Fchdir(p, fd)
  <2>1. PICK fd \in Fd : Close(p, fd) \/ CloseLost(p, fd) \/ Fchdir(p, fd)
    BY <1>9
  <2>2. CASE Close(p, fd) \/ CloseLost(p, fd)
    BY <1>0, <2>2, DescriptorTyped DEF Close, CloseLost
  <2>3. CASE Fchdir(p, fd)
    BY <2>3 DEF Fchdir, KernelOK, AbsPath
  <2> QED BY <2>1, <2>2, <2>3
<1>10. CASE \E first, last \in Fd : CloseRange(p, first, last)
  BY <1>3, <1>10 DEF CloseRange
<1>11. CASE \E marked \in SUBSET Fd : Execve(p, marked)
  BY <1>3, <1>11 DEF Execve
<1>12. CASE \E fd, new \in Fd : Dup(p, fd, new) \/ Dup2(p, fd, new) \/ FcntlDup(p, fd, new)
  <2>1. PICK fd, new \in Fd : Dup(p, fd, new) \/ Dup2(p, fd, new) \/ FcntlDup(p, fd, new)
    BY <1>12
  <2>2. fdTable[p][fd] \in AbsPath
    BY DEF KernelOK
  <2> QED BY <2>1, <2>2, DescriptorTyped DEF Dup, Dup2, FcntlDup
<1>13. CASE \E child \in Pid : Fork(p, child)
  BY <1>13 DEF Fork, KernelOK, AbsPath
<1>14. CASE ForkReturn(p)
  BY <1>14, SameKernel DEF ForkReturn
<1>15. CASE Exit(p)
  BY <1>15, SameKernel DEF Exit
<1> QED
  BY <1>4, <1>5, <1>6, <1>7, <1>8, <1>9, <1>10, <1>11, <1>12, <1>13, <1>14, <1>15 DEF Process

\* lost only ever names descriptors.
LEMMA LostTyped ==
    ASSUME HistoryOK, NEW p \in Pid, NEW fd \in Fd, NEW fds \in SUBSET Fd
    PROVE  /\ \A sources : Learns(p, fd, sources) => lost' \in [Pid -> SUBSET Fd]
           /\ Misses(p, fds) => lost' \in [Pid -> SUBSET Fd]
BY DEF HistoryOK, Learns, Misses

LEMMA HistoryStep ==
    ASSUME HistoryOK, NEW p \in Pid, Process(p)
    PROVE  HistoryOK'
<1> USE DEF osVars, historyVars
<1>0. ASSUME UNCHANGED <<live, inherited, program>>, confused' \subseteq Pid,
             lost' \in [Pid -> SUBSET Fd]
      PROVE  HistoryOK'
  BY <1>0 DEF HistoryOK
<1>1. confused \subseteq Pid /\ live \subseteq Pid /\ lost \in [Pid -> SUBSET Fd]
  BY DEF HistoryOK
<1>2. ASSUME NEW id, NEW dirfd, NEW raw, NEW fd, NEW path, OpensAt(p, id, dirfd, raw, fd, path)
      PROVE  HistoryOK'
  <2>1. UNCHANGED <<live, inherited, program, confused>>
    BY <1>2 DEF OpensAt
  <2>2. lost' = lost \/ \E new \in Fd : \E sources : Learns(p, new, sources)
    BY <1>2 DEF OpensAt
  <2>3. lost' \in [Pid -> SUBSET Fd]
    BY <1>1, <2>2, LostTyped
  <2> QED BY <1>0, <1>1, <2>1, <2>3
<1>3. ASSUME NEW id, NEW dirfd, NEW raw, NEW fd, NEW path, Unlinks(p, id, dirfd, raw, fd, path)
      PROVE  HistoryOK'
  <2>1. UNCHANGED <<live, inherited, program, lost>> /\ confused' \subseteq confused \cup live \cup {p}
    BY <1>3 DEF Unlinks
  <2> QED BY <1>0, <1>1, <2>1
<1>4. ASSUME NEW id, NEW fds \in SUBSET Fd, NEW fd, NEW used, ClosesUnobserved(p, id, fds, fd, used)
      PROVE  HistoryOK'
  <2>1. /\ UNCHANGED <<live, inherited, program, confused>>
        /\ Misses(p, {n \in fds : fdTable[p][n] # NoPath})
    BY <1>4 DEF ClosesUnobserved
  <2>2. {n \in fds : fdTable[p][n] # NoPath} \in SUBSET Fd
    OBVIOUS
  <2>3. lost' \in [Pid -> SUBSET Fd]
    BY <1>1, <2>1, <2>2 DEF Misses
  <2> QED BY <1>0, <1>1, <2>1, <2>3
<1>5. ASSUME NEW id, NEW dirfd, NEW old, NEW newdirfd, NEW new, NEW fd, NEW path,
             Renames(p, id, dirfd, old, newdirfd, new, fd, path)
      PROVE  HistoryOK'
  <2>1. UNCHANGED <<live, inherited, program, lost>> /\ confused' \subseteq confused \cup live \cup {p}
    BY <1>5 DEF Renames
  <2> QED BY <1>0, <1>1, <2>1
<1>6. CASE \E raw \in Raw : Open(p, raw) \/ Stat(p, raw) \/ Chdir(p, raw) \/ Unlink(p, raw)
  BY <1>0, <1>1, <1>2, <1>3, <1>6 DEF Open, Stat, Chdir, Unlink
<1>7. CASE \E raw \in Raw, new \in Fd : OpenLost(p, raw, new)
  BY <1>0, <1>1, <1>7, LostTyped DEF OpenLost
<1>8. CASE \E raw \in Raw, dirfd \in Fd \cup {AT_FDCWD} :
             OpenAt(p, dirfd, raw) \/ StatAt(p, dirfd, raw) \/ UnlinkAt(p, dirfd, raw)
  BY <1>0, <1>1, <1>2, <1>3, <1>8 DEF OpenAt, StatAt, UnlinkAt
<1>9. CASE \E old, new \in Raw :
             \/ Rename(p, old, new)
             \/ \E dirfd, newdirfd \in Fd \cup {AT_FDCWD} : RenameAt(p, dirfd, old, newdirfd, new)
  BY <1>5, <1>9 DEF Rename, RenameAt
<1>10. ASSUME NEW id, NEW arg, Use(p, id, arg) PROVE HistoryOK'
  BY <1>0, <1>1, <1>10 DEF Use
<1>11. CASE \E fd \in Fd : Close(p, fd) \/ CloseLost(p, fd) \/ Fchdir(p, fd)
  <2>1. PICK fd \in Fd : Close(p, fd) \/ CloseLost(p, fd) \/ Fchdir(p, fd)
    BY <1>11
  <2>2. CASE Close(p, fd)
    BY <1>0, <1>1, <2>2, LostTyped DEF Close
  <2>3. CASE CloseLost(p, fd)
    BY <1>0, <1>1, <2>3, LostTyped DEF CloseLost
  <2>4. CASE Fchdir(p, fd)
    BY <1>0, <1>1, <2>4 DEF Fchdir
  <2> QED BY <2>1, <2>2, <2>3, <2>4
<1>12. CASE \E first, last \in Fd : CloseRange(p, first, last)
  <2>1. PICK first, last \in Fd : CloseRange(p, first, last)
    BY <1>12
  <2>2. Fd \cap first..last \in SUBSET Fd
    OBVIOUS
  <2> QED BY <1>4, <2>1, <2>2 DEF CloseRange
<1>13. CASE \E marked \in SUBSET Fd : Execve(p, marked)
  BY <1>4, <1>13 DEF Execve
<1>14. CASE \E fd, new \in Fd : Dup(p, fd, new) \/ Dup2(p, fd, new) \/ FcntlDup(p, fd, new)
  <2>1. PICK fd, new \in Fd : Dup(p, fd, new) \/ Dup2(p, fd, new) \/ FcntlDup(p, fd, new)
    BY <1>14
  <2>2. Learns(p, new, {fd}) \/ Misses(p, {new})
    BY <2>1 DEF Dup, Dup2, FcntlDup
  <2>3. UNCHANGED <<live, inherited, program, confused>>
    BY <2>1 DEF Dup, Dup2, FcntlDup
  <2>4. {new} \in SUBSET Fd
    OBVIOUS
  <2>5. lost' \in [Pid -> SUBSET Fd]
    BY <2>2, <2>4, LostTyped
  <2> QED BY <1>0, <1>1, <2>3, <2>5
<1>15. CASE \E child \in Pid : Fork(p, child)
  BY <1>15 DEF Fork, HistoryOK
<1>16. CASE ForkReturn(p)
  BY <1>0, <1>1, <1>16 DEF ForkReturn
<1>17. CASE Exit(p)
  BY <1>17 DEF Exit, HistoryOK
<1> QED
  BY <1>6, <1>7, <1>8, <1>9, <1>10, <1>11, <1>12, <1>13, <1>14, <1>15, <1>16, <1>17 DEF Process

\* What the calls have in common: the filter is not touched, and but for the
\* steps of a fork and an exit each asks for room and counts.
LEMMA ProcessCounts ==
    ASSUME NEW p \in Pid, Process(p)
    PROVE  /\ output' = output
           /\ \/ ForkReturn(p) \/ Exit(p) \/ \E child \in Pid : Fork(p, child)
              \/ count < MaxEvents /\ count' = count + 1 /\ forking' = forking
<1> USE DEF osVars, filterVars
<1> DEFINE Counts == output' = output /\ count < MaxEvents /\ count' = count + 1 /\ forking' = forking
<1>1. ASSUME NEW ev, Submit(ev) PROVE count' = count + 1
  BY <1>1 DEF Submit
<1>2. ASSUME NEW id, CanCall(p, id) PROVE count < MaxEvents
  BY <1>2 DEF CanCall
<1>3. ASSUME NEW id, NEW dirfd, NEW raw, NEW fd, NEW path, OpensAt(p, id, dirfd, raw, fd, path)
      PROVE  Counts
  BY <1>1, <1>2, <1>3 DEF OpensAt
<1>4. ASSUME NEW id, NEW dirfd, NEW raw, NEW fd, NEW path, Unlinks(p, id, dirfd, raw, fd, path)
      PROVE  Counts
  BY <1>1, <1>2, <1>4 DEF Unlinks
<1>5. ASSUME NEW id, NEW dirfd, NEW old, NEW newdirfd, NEW new, NEW fd, NEW path,
             Renames(p, id, dirfd, old, newdirfd, new, fd, path)
      PROVE  Counts
  BY <1>1, <1>2, <1>5 DEF Renames
<1>6. ASSUME NEW id, NEW fds, NEW fd, NEW used, ClosesUnobserved(p, id, fds, fd, used)
      PROVE  Counts
  BY <1>1, <1>2, <1>6 DEF ClosesUnobserved
<1>7. CASE \E raw \in Raw : Open(p, raw) \/ Stat(p, raw) \/ Chdir(p, raw) \/ Unlink(p, raw)
  BY <1>1, <1>2, <1>3, <1>4, <1>7 DEF Open, Stat, Chdir, Unlink
<1>8. CASE \E raw \in Raw, new \in Fd : OpenLost(p, raw, new)
  BY <1>2, <1>8 DEF OpenLost, Drop
<1>9. CASE \E raw \in Raw, dirfd \in Fd \cup {AT_FDCWD} :
             OpenAt(p, dirfd, raw) \/ StatAt(p, dirfd, raw) \/ UnlinkAt(p, dirfd, raw)
  BY <1>1, <1>2, <1>3, <1>4, <1>9 DEF OpenAt, StatAt, UnlinkAt
<1>10. CASE \E old, new \in Raw :
             \/ Rename(p, old, new)
             \/ \E dirfd, newdirfd \in Fd \cup {AT_FDCWD} : RenameAt(p, dirfd, old, newdirfd, new)
  BY <1>5, <1>10 DEF Rename, RenameAt
<1>11. ASSUME NEW id, NEW arg, Use(p, id, arg) PROVE Counts
  BY <1>1, <1>2, <1>11 DEF Use
<1>12. CASE \E fd \in Fd : Close(p, fd) \/ CloseLost(p, fd) \/ Fchdir(p, fd)
  BY <1>1, <1>2, <1>12 DEF Close, CloseLost, Fchdir, Drop
<1>13. CASE \E first, last \in Fd : CloseRange(p, first, last)
  BY <1>6, <1>13 DEF CloseRange
<1>14. CASE \E marked \in SUBSET Fd : Execve(p, marked)
  BY <1>6, <1>14 DEF Execve
<1>15. CASE \E fd, new \in Fd : Dup(p, fd, new) \/ Dup2(p, fd, new) \/ FcntlDup(p, fd, new)
  BY <1>1, <1>2, <1>15 DEF Dup, Dup2, FcntlDup
<1>16. CASE (\E child \in Pid : Fork(p, child)) \/ ForkReturn(p) \/ Exit(p)
  BY <1>16 DEF Fork, ForkReturn, Exit
<1> QED
  BY <1>7, <1>8, <1>9, <1>10, <1>11, <1>12, <1>13, <1>14, <1>15, <1>16 DEF Process

\* A call asks for room before it adds an event; a fork's return does not, and
\* there are no more of them under way than processes.
LEMMA CountStep ==
    ASSUME ForksOK, Counted, NEW p \in Pid, Process(p)
    PROVE  Counted'
<1> USE DEF osVars
<1>0. /\ IsFiniteSet(Forkers) /\ Cardinality(Forkers) \in Nat /\ Cardinality(Pid) \in Nat
      /\ MaxEvents \in Nat /\ Cardinality(Forkers) <= Cardinality(Pid)
  <2>1. Forkers \in SUBSET Pid
    BY DEF Forkers
  <2> QED BY <2>1, BoundAssumption, FS_Subset, FS_CardinalityType
<1>1. ASSUME count < MaxEvents, count' = count + 1, forking' = forking PROVE Counted'
  <2>1. Forkers' = Forkers
    BY <1>1 DEF Forkers
  <2> QED BY <1>0, <1>1, <2>1 DEF Counted
<1>2. CASE ForkReturn(p)
  <2>1. p \in Forkers /\ Forkers' = Forkers \ {p} /\ count' = count + 1
    BY <1>2 DEF ForkReturn, Forkers, ForksOK, Submit
  <2>2. Cardinality(Forkers \ {p}) = Cardinality(Forkers) - 1
    BY <1>0, <2>1, FS_RemoveElement
  <2> QED BY <1>0, <2>1, <2>2 DEF Counted
<1>3. CASE \E child \in Pid : Fork(p, child)
  <2>1. count' = count /\ count < MaxEvents
    BY <1>3 DEF Fork, CanCall
  <2>2. Forkers' \in SUBSET Pid
    BY DEF Forkers
  <2>3. Cardinality(Forkers') \in Nat /\ Cardinality(Forkers') <= Cardinality(Pid)
    BY <2>2, BoundAssumption, FS_Subset, FS_CardinalityType
  <2> QED BY <1>0, <2>1, <2>3 DEF Counted
<1>4. CASE Exit(p)
  BY <1>4 DEF Exit, Counted, Forkers
<1> QED BY <1>1, <1>2, <1>3, <1>4, ProcessCounts

LEMMA TypeInvInit == Init => TypeInv
<1> SUFFICES ASSUME Init PROVE TypeInv
  OBVIOUS
<1>1. FilterOK
  BY EmptyTyped DEF Init, InitFilter, FilterOK
<1>2. HistoryOK
  BY FirstAssumption DEF Init, HistoryOK
<1>3. KernelOK
  BY TreeAssumption DEF Init, KernelOK, AbsPath
<1>4. Counted
  <2>1. Forkers = {}
    BY DEF Init, Forkers
  <2> QED BY <2>1, BoundAssumption, FS_EmptySet, FS_CardinalityType DEF Init, Counted
<1> QED BY <1>1, <1>2, <1>3, <1>4, SyncInit DEF TypeInv

LEMMA TypeInvStep == TypeInv /\ [Next]_vars => TypeInv'
<1> SUFFICES ASSUME TypeInv, [Next]_vars PROVE TypeInv'
  OBVIOUS
<1>0. SyncInv'
  BY SyncStep DEF TypeInv
<1>1. ASSUME UNCHANGED filterVars PROVE FilterOK'
  BY <1>1 DEF TypeInv, FilterOK, Typed, AbsPath, filterVars
<1>2. CASE HandleEvent
  <2> DEFINE ev == Head(queue)
  <2>1. WellFormed(ev)
    BY <1>2, HeadWellFormed DEF HandleEvent, TypeInv, SyncInv
  <2>2. ev.pid \in Pid /\ ChildPID(ev) \subseteq Pid
    BY <2>1 DEF WellFormed, ChildPID
  <2>3. ProcCwd(ev.pid) \in AbsPath
    BY <2>2 DEF ProcCwd, TypeInv, KernelOK, AbsPath
  <2>4. FilterOK'
    BY <1>2, <2>1, <2>3, FilterTyped DEF HandleEvent, TypeInv, SyncInv
  <2>5. HistoryOK'
    BY <1>2, <2>2 DEF HandleEvent, TypeInv, HistoryOK, osVars
  <2>6. KernelOK' /\ Counted'
    BY <1>2, SameKernel DEF HandleEvent, TypeInv, Counted, Forkers, osVars
  <2> QED BY <1>0, <2>4, <2>5, <2>6 DEF TypeInv
<1>3. ASSUME NEW i \in 1..Len(queue), Overtake(i) PROVE TypeInv'
  <2>1. UNCHANGED <<filterVars, osVars, count, inherited, lost>>
    BY <1>3 DEF Overtake
  <2>2. queue[i].pid \in Pid
    BY <1>3 DEF TypeInv, SyncInv, QueueOK, WellFormed
  <2>3. HistoryOK'
    BY <1>3, <2>1, <2>2 DEF Overtake, TypeInv, HistoryOK, osVars
  <2>4. KernelOK' /\ Counted'
    BY <2>1, SameKernel DEF TypeInv, Counted, Forkers, osVars
  <2> QED BY <1>0, <1>1, <2>1, <2>3, <2>4 DEF TypeInv
<1>4. ASSUME NEW p \in Pid, Process(p) PROVE TypeInv'
  <2>1. stateByPID' = stateByPID
    BY <1>4, ProcessQueue DEF TypeInv, SyncInv
  <2>2. output' = output
    BY <1>4, ProcessCounts
  <2> QED
    BY <1>0, <1>1, <1>4, <2>1, <2>2, HistoryStep, KernelStep, CountStep DEF TypeInv, SyncInv, filterVars
<1>5. CASE UNCHANGED vars
  BY <1>0, <1>1, <1>5, SameKernel DEF vars, TypeInv, HistoryOK, Counted, Forkers, filterVars
<1> QED BY <1>2, <1>3, <1>4, <1>5 DEF Next

\* The filter and the processes keep their types: in particular every path the
\* filter computes is a path, its descriptors are descriptors, and every
\* process is in a directory that exists, renames included.
THEOREM PathTypes == Spec => []TypeOK
<1>1. TypeInv => TypeOK
  <2> SUFFICES ASSUME TypeInv PROVE TypeOK
    OBVIOUS
  <2>1. \A p \in Pid : /\ stateByPID[p].cwd \in AbsPath
                       /\ stateByPID[p].trackedFDs \subseteq Fd
                       /\ stateByPID[p].fdPaths \in [Fd -> AbsPath]
    BY DEF TypeInv, SyncInv, AllSynced, Synced, IsState, FilterOK, Typed
  <2>2. count \in 0..MaxEvents + Cardinality(Pid)
    <3>1. Forkers \in SUBSET Pid
      BY DEF Forkers
    <3>2. Cardinality(Forkers) \in Nat /\ Cardinality(Pid) \in Nat /\ MaxEvents \in Nat
      BY <3>1, BoundAssumption, FS_Subset, FS_CardinalityType
    <3> QED BY <3>2 DEF TypeInv, Counted
  <2> QED
    BY <2>1, <2>2 DEF TypeOK, TypeInv, SyncInv, ForksOK, FilterOK, HistoryOK, KernelOK
<1> QED BY <1>1, TypeInvInit, TypeInvStep, PTL DEF Spec
=============================================================================
