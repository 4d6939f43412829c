-------------------------- MODULE PathKnowsProofs --------------------------
(***************************************************************************)
(* The filter knows what it has caught up with, and prints exactly the     *)
(* calls that touch a traced path.                                         *)
(*                                                                         *)
(* The invariant looks ahead: it follows the queue from the state the      *)
(* filter is in, each event handled with the working directory its call    *)
(* was made in, and says that at the end of the queue the filter knows     *)
(* every process that it can be trusted about.                             *)
(***************************************************************************)
EXTENDS PathTypeProofs

-----------------------------------------------------------------------------
(***************************************************************************)
(* Looking ahead.  A forecast has the filter's states, the processes whose *)
(* fork it knows of, and those it may be wrong about.                      *)
(***************************************************************************)
Forecast(st, inh, conf) == [st |-> st, inh |-> inh, conf |-> conf]

Matched(s, ev) == AfterMatch(s, ev, ev.at)
Handled(s, ev) == ObserveCall(Matched(s, ev), ev, ev.at)

\* What HandleEvent does, nothing learnt late.
Foresee(t, ev) ==
    LET unknown == ev.pid \notin t.inh
    IN Forecast(Observe(t.st, Matched(t.st[ev.pid], ev), ev, ev.at),
                t.inh \cup ChildPID(ev),
                t.conf \cup (IF unknown THEN {ev.pid} ELSE {})
                       \cup (IF ev.pid \in t.conf \/ unknown THEN ChildPID(ev) ELSE {}))

Trusted(t) == t.inh \ t.conf

IsForecast(t) ==
    /\ t = Forecast(t.st, t.inh, t.conf)
    /\ t.st = [p \in Pid |-> t.st[p]]
    /\ \A p \in Pid : Synced(t.st[p])
    /\ t.inh \subseteq Pid

\* t trusts less than u, and where it trusts it says the same.
Below(t, u) ==
    /\ t.inh \subseteq u.inh /\ u.conf \subseteq t.conf
    /\ \A p \in Trusted(t) : t.st[p] = u.st[p]

\* Matching an event's paths keeps the two maps of a process together.
LEMMA MatchedSynced ==
    ASSUME NEW s, Synced(s), NEW ev, NEW proc
    PROVE  Synced(AfterMatch(s, ev, proc))
BY CacheSynced DEF AfterMatch

\* Foresee, field by field.
LEMMA ForeseeFields ==
    ASSUME NEW t, IsForecast(t), NEW ev, WellFormed(ev)
    PROVE  LET u == Foresee(t, ev)
               unknown == ev.pid \notin t.inh
           IN /\ u = Forecast(u.st, u.inh, u.conf)
              /\ u.st = [p \in Pid |-> u.st[p]]
              /\ u.st[ev.pid] = Handled(t.st[ev.pid], ev)
              /\ \A p \in Pid \ {ev.pid} :
                    u.st[p] = IF p \in ChildPID(ev) THEN Matched(t.st[ev.pid], ev) ELSE t.st[p]
              /\ u.inh = t.inh \cup ChildPID(ev)
              /\ u.conf = t.conf \cup (IF unknown THEN {ev.pid} ELSE {})
                                 \cup (IF ev.pid \in t.conf \/ unknown THEN ChildPID(ev) ELSE {})
<1> DEFINE u == Foresee(t, ev)
           m == Matched(t.st[ev.pid], ev)
<1>1. ev.pid \in Pid
  BY DEF WellFormed
<1>2. /\ u.st = Observe(t.st, m, ev, ev.at)
      /\ u.inh = t.inh \cup ChildPID(ev)
      /\ u.conf = t.conf \cup (IF ev.pid \notin t.inh THEN {ev.pid} ELSE {})
                         \cup (IF ev.pid \in t.conf \/ ev.pid \notin t.inh THEN ChildPID(ev) ELSE {})
      /\ u = Forecast(u.st, u.inh, u.conf)
  BY DEF Foresee, Forecast
<1> HIDE DEF u
<1>3. u.st = [p \in Pid |-> IF p = ev.pid THEN Handled(t.st[ev.pid], ev)
                            ELSE IF p \in ChildPID(ev) THEN m ELSE t.st[p]]
  BY <1>2 DEF Observe, Handled
<1> HIDE DEF m
<1>4. /\ u.st = [p \in Pid |-> u.st[p]]
      /\ u.st[ev.pid] = Handled(t.st[ev.pid], ev)
      /\ \A p \in Pid \ {ev.pid} : u.st[p] = IF p \in ChildPID(ev) THEN m ELSE t.st[p]
  BY <1>1, <1>3
<1> QED BY <1>2, <1>4 DEF u, m

\* What is foreseen from a forecast is a forecast.
LEMMA ForeseeIs ==
    ASSUME NEW t, IsForecast(t), NEW ev, WellFormed(ev)
    PROVE  IsForecast(Foresee(t, ev))
<1> DEFINE u == Foresee(t, ev)
<1>1. ev.pid \in Pid /\ Synced(t.st[ev.pid]) /\ ChildPID(ev) \subseteq Pid
  BY DEF WellFormed, IsForecast, ChildPID
<1>2. Synced(Matched(t.st[ev.pid], ev)) /\ Synced(Handled(t.st[ev.pid], ev))
  BY <1>1, MatchedSynced, CallSynced DEF Matched, Handled
<1>3. /\ u = Forecast(u.st, u.inh, u.conf)
      /\ u.st = [p \in Pid |-> u.st[p]]
      /\ u.st[ev.pid] = Handled(t.st[ev.pid], ev)
      /\ \A p \in Pid \ {ev.pid} :
            u.st[p] = IF p \in ChildPID(ev) THEN Matched(t.st[ev.pid], ev) ELSE t.st[p]
      /\ u.inh = t.inh \cup ChildPID(ev)
  BY ForeseeFields
<1> HIDE DEF u
<1>4. \A p \in Pid : Synced(u.st[p])
  BY <1>2, <1>3 DEF IsForecast
<1> QED BY <1>1, <1>3, <1>4 DEF IsForecast, u

\* A forecast that trusts less still does after one event.
LEMMA ForeseeBelow ==
    ASSUME NEW t, IsForecast(t), NEW u, IsForecast(u), NEW ev, WellFormed(ev), Below(t, u)
    PROVE  Below(Foresee(t, ev), Foresee(u, ev))
<1> DEFINE t2 == Foresee(t, ev)
           u2 == Foresee(u, ev)
           p == ev.pid
<1>1. /\ t2.st[p] = Handled(t.st[p], ev)
      /\ \A q \in Pid \ {p} : t2.st[q] = IF q \in ChildPID(ev) THEN Matched(t.st[p], ev) ELSE t.st[q]
      /\ t2.inh = t.inh \cup ChildPID(ev)
      /\ t2.conf = t.conf \cup (IF p \notin t.inh THEN {p} ELSE {})
                          \cup (IF p \in t.conf \/ p \notin t.inh THEN ChildPID(ev) ELSE {})
  BY ForeseeFields
<1>2. /\ u2.st[p] = Handled(u.st[p], ev)
      /\ \A q \in Pid \ {p} : u2.st[q] = IF q \in ChildPID(ev) THEN Matched(u.st[p], ev) ELSE u.st[q]
      /\ u2.inh = u.inh \cup ChildPID(ev)
      /\ u2.conf = u.conf \cup (IF p \notin u.inh THEN {p} ELSE {})
                          \cup (IF p \in u.conf \/ p \notin u.inh THEN ChildPID(ev) ELSE {})
  BY ForeseeFields
<1>3. p \in Pid /\ ChildPID(ev) \subseteq Pid /\ t.inh \subseteq Pid
  BY DEF WellFormed, ChildPID, IsForecast
<1> HIDE DEF t2, u2, p
<1>4. t2.inh \subseteq u2.inh /\ u2.conf \subseteq t2.conf
  BY <1>1, <1>2 DEF Below
<1>5. ASSUME NEW q \in Trusted(t2) PROVE t2.st[q] = u2.st[q]
  <2>1. CASE q = p
    <3>1. p \in Trusted(t)
      BY <1>1, <2>1 DEF Trusted
    <3> QED BY <1>1, <1>2, <2>1, <3>1 DEF Below
  <2>2. CASE q # p /\ q \in ChildPID(ev)
    <3>1. p \in Trusted(t)
      BY <1>1, <2>2 DEF Trusted
    <3>2. q \in Pid \ {p}
      BY <1>3, <2>2
    <3> QED BY <1>1, <1>2, <2>2, <3>1, <3>2 DEF Below
  <2>3. CASE q # p /\ q \notin ChildPID(ev)
    <3>1. q \in Trusted(t) /\ q \in Pid \ {p}
      BY <1>1, <1>3, <2>3 DEF Trusted
    <3> QED BY <1>1, <1>2, <2>3, <3>1 DEF Below
  <2> QED BY <2>1, <2>2, <2>3
<1> QED BY <1>4, <1>5 DEF Below, t2, u2

-----------------------------------------------------------------------------
(***************************************************************************)
(* Chains: from t through the events of q, one forecast after each.        *)
(***************************************************************************)
AllWellFormed(q) == \E S : q \in Seq(S) /\ \A ev \in S : WellFormed(ev)

Leads(f, q, t, n) ==
    /\ f[0] = t
    /\ \A k \in 0..n : IsForecast(f[k])
    /\ \A k \in 1..n : f[k] = Foresee(f[k - 1], q[k])

IsChain(f, q, t) == Leads(f, q, t, Len(q))

\* The events of a queue, one by one.
LEMMA EventsWellFormed ==
    ASSUME NEW q, AllWellFormed(q)
    PROVE  Len(q) \in Nat /\ \A k \in 1..Len(q) : WellFormed(q[k])
BY DEF AllWellFormed

\* One more event.
LEMMA ChainExtend ==
    ASSUME NEW f, NEW q, NEW t, NEW n \in Nat, Leads(f, q, t, n), WellFormed(q[n + 1])
    PROVE  \E g : Leads(g, q, t, n + 1) /\ \A k \in 0..n : g[k] = f[k]
<1> DEFINE g == [k \in 0..n + 1 |-> IF k <= n THEN f[k] ELSE Foresee(f[n], q[n + 1])]
<1>1. /\ \A k \in 0..n : g[k] = f[k]
      /\ g[n + 1] = Foresee(f[n], q[n + 1])
  OBVIOUS
<1> HIDE DEF g
<1>2. IsForecast(g[n + 1])
  BY <1>1, ForeseeIs DEF Leads
<1>3. \A k \in 0..n + 1 : IsForecast(g[k])
  BY <1>1, <1>2 DEF Leads
<1>4. ASSUME NEW k \in 1..n + 1 PROVE g[k] = Foresee(g[k - 1], q[k])
  <2>1. CASE k = n + 1
    BY <1>1, <2>1
  <2>2. CASE k \in 1..n
    <3>1. k - 1 \in 0..n /\ k \in 0..n
      BY <2>2
    <3> QED BY <1>1, <2>2, <3>1 DEF Leads
  <2> QED BY <2>1, <2>2
<1>5. Leads(g, q, t, n + 1)
  BY <1>1, <1>3, <1>4 DEF Leads
<1> QED BY <1>1, <1>5

\* From every forecast a chain leads through the queue.
LEMMA ChainExists ==
    ASSUME NEW q, AllWellFormed(q), NEW t, IsForecast(t)
    PROVE  \E f : IsChain(f, q, t)
<1> DEFINE N == Len(q)
           T == {n \in 0..N : ~\E f : Leads(f, q, t, n)}
<1>0. N \in Nat /\ \A k \in 1..N : WellFormed(q[k])
  BY EventsWellFormed
<1> HIDE DEF N
<1>1. T = {}
  <2> SUFFICES ASSUME T # {} PROVE FALSE
    OBVIOUS
  <2>1. T \subseteq Nat
    BY <1>0
  <2>2. PICK m \in T : \A k \in T : m <= k
    BY <2>1, LeastNat
  <2>3. CASE m = 0
    <3> DEFINE f == [k \in 0..0 |-> t]
    <3>1. Leads(f, q, t, 0)
      BY DEF Leads
    <3> QED BY <2>3, <3>1
  <2>4. CASE m > 0
    <3>1. m - 1 \in 0..N /\ m - 1 \notin T /\ m - 1 \in Nat /\ (m - 1) + 1 = m /\ m \in 1..N
      BY <1>0, <2>2, <2>4
    <3>2. PICK f : Leads(f, q, t, m - 1)
      BY <3>1
    <3>3. \E g : Leads(g, q, t, (m - 1) + 1)
      BY <1>0, <3>1, <3>2, ChainExtend
    <3> QED BY <2>2, <3>1, <3>3
  <2> QED BY <1>0, <2>2, <2>3, <2>4
<1>2. N \in 0..N
  BY <1>0
<1> QED BY <1>1, <1>2 DEF IsChain, N

\* Two chains, one below the other after m events, go on so while they are
\* led by the same events.
LEMMA ChainBelow ==
    ASSUME NEW f, NEW q, NEW t, NEW g, NEW r, NEW u, NEW n \in Nat, NEW m \in 0..n,
           Leads(f, q, t, n), Leads(g, r, u, n), Below(f[m], g[m]),
           \A k \in m + 1..n : q[k] = r[k] /\ WellFormed(q[k])
    PROVE  \A k \in m..n : Below(f[k], g[k])
<1> DEFINE T == {k \in m..n : ~Below(f[k], g[k])}
<1> SUFFICES ASSUME T # {} PROVE FALSE
  OBVIOUS
<1>0. T \subseteq Nat
  OBVIOUS
<1>1. PICK k \in T : \A j \in T : k <= j
  BY <1>0, LeastNat
<1>2. k # m
  OBVIOUS
<1>3. k \in m + 1..n /\ k - 1 \in m..n /\ k - 1 \in 0..n /\ k \in 1..n
  BY <1>2
<1>4. Below(f[k - 1], g[k - 1])
  BY <1>1, <1>3
<1>5. f[k] = Foresee(f[k - 1], q[k]) /\ g[k] = Foresee(g[k - 1], q[k]) /\ WellFormed(q[k])
      /\ IsForecast(f[k - 1]) /\ IsForecast(g[k - 1])
  BY <1>3 DEF Leads
<1>6. Below(f[k], g[k])
  BY <1>4, <1>5, ForeseeBelow
<1> QED BY <1>6

\* What the filter has been told, or may be wrong about, only grows.
LEMMA ForeseeGrows ==
    ASSUME NEW t, NEW ev
    PROVE  t.inh \subseteq Foresee(t, ev).inh /\ t.conf \subseteq Foresee(t, ev).conf
BY DEF Foresee, Forecast

\* Along a chain nothing that was known or doubted is forgotten.
LEMMA ChainGrows ==
    ASSUME NEW f, NEW q, NEW t, NEW n \in Nat, Leads(f, q, t, n), NEW j \in 0..n
    PROVE  \A k \in j..n : f[j].inh \subseteq f[k].inh /\ f[j].conf \subseteq f[k].conf
<1> DEFINE T == {k \in j..n : ~(f[j].inh \subseteq f[k].inh /\ f[j].conf \subseteq f[k].conf)}
<1> SUFFICES ASSUME T # {} PROVE FALSE
  OBVIOUS
<1>0. T \subseteq Nat
  OBVIOUS
<1>1. PICK k \in T : \A i \in T : k <= i
  BY <1>0, LeastNat
<1>2. k # j
  OBVIOUS
<1>3. k - 1 \in j..n /\ k \in 1..n
  BY <1>2
<1>4. f[j].inh \subseteq f[k - 1].inh /\ f[j].conf \subseteq f[k - 1].conf
  BY <1>1, <1>3
<1>5. f[k] = Foresee(f[k - 1], q[k])
  BY <1>3 DEF Leads
<1> QED BY <1>4, <1>5, ForeseeGrows
-----------------------------------------------------------------------------
(***************************************************************************)
(* The invariant.                                                          *)
(***************************************************************************)
\* A state of the filter agrees with a process's descriptors and directory,
\* but for the descriptors it is unsure of.
Knows(s, table, dir, unsure) ==
    /\ \A fd \in Fd \ unsure : s.fdPaths[fd] = table[fd]
    /\ s.cwd \in {NoPath, dir}

\* At the end of the queue the filter knows every process it is right about.
KnowsAll(t) == \A p \in live \cap Trusted(t) : Knows(t.st[p], fdTable[p], cwd[p], lost[p])

\* A child that has done nothing has what its parent has.
Kin(q, c) ==
    /\ cwd[c] = cwd[q] /\ lost[q] \subseteq lost[c]
    /\ \A fd \in Fd \ lost[c] : fdTable[c][fd] = fdTable[q][fd]

\* A fork whose event is still to come: nothing of the child is on its way.
ForkKept(t, q, c) ==
    /\ q \in live
    /\ c \in t.inh => c \in t.conf
    /\ c \in live /\ c \notin t.conf => Kin(q, c)
    /\ \A r \in Pid \ {q} : forking[r] = c => c \in t.conf
ForksKept(t) == \A q \in Pid : forking[q] # 0 => ForkKept(t, q, forking[q])

\* No program makes a call with a count among its descriptors.
NoCounts == \A calls \in Programs : calls \cap {"poll", "ppoll", "pidfd_getfd"} = {}

\* The event is printed if and only if its call touched a traced path.
Printed(s, ev) == ShouldPrint(Matched(s, ev), ev) = (UserAllows(ev.id) /\ ev.hit)
Hit(t, ev) ==
    NoCounts /\ ev.pid \in Trusted(t) /\ ~ev.doubt => Printed(t.st[ev.pid], ev)
Hits(f, q) == \A k \in 1..Len(q) : Hit(f[k - 1], q[k])

Now == Forecast(stateByPID, inherited, confused)

Foretold(f) ==
    /\ IsChain(f, queue, Now)
    /\ Hits(f, queue)
    /\ KnowsAll(f[Len(queue)])
    /\ ForksKept(f[Len(queue)])

\* Between two events of a process that does not move, and from its last event
\* on, it stays where it is.
Moves(ev) == ev.id \in {"chdir", "fchdir", "rename", "renameat"}

SamePlace ==
    \A k \in 1..Len(queue) - 1 :
        (queue[k].pid = queue[k + 1].pid /\ queue[k].pid \notin confused /\ ~Moves(queue[k]))
            => queue[k].at = queue[k + 1].at

StillThere ==
    \A k \in 1..Len(queue) :
        (k = Len(queue) /\ queue[k].pid \in live \ confused /\ ~Moves(queue[k]))
            => queue[k].at = cwd[queue[k].pid]

KnowsInv == TypeInv /\ SamePlace /\ StillThere /\ \E f : Foretold(f)

-----------------------------------------------------------------------------
(***************************************************************************)
(* What holds of a forecast holds of one that trusts less.                 *)
(***************************************************************************)
\* Printing what was foreseen.
LEMMA HitBelow ==
    ASSUME NEW t, NEW u, Below(t, u), NEW ev, WellFormed(ev), Hit(u, ev)
    PROVE  Hit(t, ev)
<1> SUFFICES ASSUME NoCounts, ev.pid \in Trusted(t), ~ev.doubt
             PROVE  Printed(t.st[ev.pid], ev)
  BY DEF Hit
<1>1. ev.pid \in Trusted(u) /\ t.st[ev.pid] = u.st[ev.pid]
  BY DEF Below, Trusted
<1> QED BY <1>1 DEF Hit

\* The end of the queue.
LEMMA EndBelow ==
    ASSUME NEW t, NEW u, Below(t, u)
    PROVE  (KnowsAll(u) => KnowsAll(t)) /\ (ForksKept(u) => ForksKept(t))
<1>1. t.inh \subseteq u.inh /\ u.conf \subseteq t.conf /\ Trusted(t) \subseteq Trusted(u)
  BY DEF Below, Trusted
<1>2. KnowsAll(u) => KnowsAll(t)
  BY <1>1 DEF Below, KnowsAll
<1>3. ForksKept(u) => ForksKept(t)
  BY <1>1 DEF ForksKept, ForkKept
<1> QED BY <1>2, <1>3

\* The filter is wrong about more, or has been told of less.
LEMMA Distrust ==
    ASSUME NEW q, AllWellFormed(q), NEW g, NEW u, IsChain(g, q, u), Hits(g, q),
           NEW t, IsForecast(t), Below(t, u)
    PROVE  \E f : /\ IsChain(f, q, t) /\ Hits(f, q)
                  /\ Below(f[Len(q)], g[Len(q)])
<1>1. PICK f : IsChain(f, q, t)
  BY ChainExists
<1>2. Len(q) \in Nat /\ \A k \in 1..Len(q) : WellFormed(q[k])
  BY EventsWellFormed
<1>3. Leads(f, q, t, Len(q)) /\ Leads(g, q, u, Len(q)) /\ f[0] = t /\ g[0] = u
  BY <1>1 DEF IsChain, Leads
<1>4. \A k \in 0..Len(q) : Below(f[k], g[k])
  BY <1>2, <1>3, ChainBelow
<1>5. ASSUME NEW k \in 1..Len(q) PROVE Hit(f[k - 1], q[k])
  <2>1. k - 1 \in 0..Len(q)
    BY <1>2
  <2>2. Below(f[k - 1], g[k - 1]) /\ Hit(g[k - 1], q[k]) /\ WellFormed(q[k])
    BY <1>2, <1>4, <2>1 DEF Hits
  <2> QED BY <2>2, HitBelow
<1>6. Len(q) \in 0..Len(q)
  BY <1>2
<1> QED BY <1>1, <1>4, <1>5, <1>6 DEF Hits

\* One more event at the end of the queue.
LEMMA Foresees ==
    ASSUME NEW q, AllWellFormed(q), NEW f, NEW t, IsChain(f, q, t), Hits(f, q),
           NEW ev, WellFormed(ev), Hit(f[Len(q)], ev)
    PROVE  \E g : /\ IsChain(g, Append(q, ev), t) /\ Hits(g, Append(q, ev))
                  /\ g[Len(Append(q, ev))] = Foresee(f[Len(q)], ev)
<1> DEFINE N == Len(q)
           r == Append(q, ev)
<1>1. N \in Nat /\ Len(r) = N + 1 /\ r[N + 1] = ev /\ \A k \in 1..N : r[k] = q[k]
  BY DEF AllWellFormed
<1>2. Leads(f, q, t, N)
  BY DEF IsChain
<1> HIDE DEF N, r
<1>3. Leads(f, r, t, N)
  BY <1>1, <1>2 DEF Leads
<1>4. PICK g : Leads(g, r, t, N + 1) /\ \A k \in 0..N : g[k] = f[k]
  BY <1>1, <1>3, ChainExtend
<1>5. ASSUME NEW k \in 1..N + 1 PROVE Hit(g[k - 1], r[k])
  <2>1. k - 1 \in 0..N /\ g[k - 1] = f[k - 1]
    BY <1>1, <1>4
  <2>2. CASE k = N + 1
    BY <1>1, <2>1, <2>2 DEF N
  <2>3. CASE k # N + 1
    <3>1. k \in 1..N
      BY <1>1, <2>3
    <3> QED BY <1>1, <2>1, <3>1 DEF Hits, N
  <2> QED BY <2>2, <2>3
<1>6. g[N + 1] = Foresee(f[N], ev)
  <2>1. N + 1 \in 1..N + 1 /\ (N + 1) - 1 = N /\ N \in 0..N
    BY <1>1
  <2> QED BY <1>1, <1>4, <2>1 DEF Leads
<1> QED BY <1>1, <1>4, <1>5, <1>6 DEF IsChain, Hits, N, r
-----------------------------------------------------------------------------
(***************************************************************************)
(* A call.                                                                 *)
(***************************************************************************)
\* What a step of p does to the other processes: the filter is wrong about one
\* whose descriptors or directory it changes, and what a child shares with its
\* parent it goes on sharing.
OthersStay(p) ==
    /\ \A r \in live \ (confused' \cup {p}) :
            fdTable'[r] = fdTable[r] /\ cwd'[r] = cwd[r] /\ lost'[r] = lost[r]
    /\ \A q, c \in Pid \ {p} : Kin(q, c) => Kin(q, c)'

\* The filter handles the event as the kernel did the call, and prints it if
\* and only if it should.
Heeded(p, ev) ==
    \A s : Synced(s) /\ Knows(s, fdTable[p], cwd[p], lost[p]) =>
        /\ Knows(Handled(s, ev), fdTable'[p], cwd'[p], lost'[p])
        /\ NoCounts /\ ~ev.doubt => Printed(s, ev)

\* The filter's own state is a forecast, before and after a step.
LEMMA NowForecast ==
    /\ TypeInv => IsForecast(Now)
    /\ TypeInv' => IsForecast(Now')
<1>1. ASSUME NEW st, NEW inh, NEW conf, st = [p \in Pid |-> st[p]], \A p \in Pid : Synced(st[p]),
             inh \subseteq Pid
      PROVE  IsForecast(Forecast(st, inh, conf))
  BY <1>1 DEF IsForecast, Forecast
<1> QED BY <1>1 DEF Now, TypeInv, SyncInv, HistoryOK, AllSynced

\* History only adds to what the filter may be wrong about.
LEMMA NowBelow ==
    ASSUME stateByPID' = stateByPID, inherited' \subseteq inherited, confused \subseteq confused'
    PROVE  Below(Now', Now)
BY DEF Below, Trusted, Now, Forecast

\* The events that wait are well formed.
LEMMA TypeQueue ==
    ASSUME TypeInv
    PROVE  /\ AllWellFormed(queue) /\ Len(queue) \in Nat
           /\ \A k \in 1..Len(queue) : WellFormed(queue[k]) /\ queue[k].pid \in Pid
BY EventsWellFormed DEF TypeInv, SyncInv, QueueOK, AllWellFormed, WellFormed

\* The chain of a state after a step that adds to what the filter may be wrong
\* about and leaves the queue.
LEMMA DistrustNow ==
    ASSUME TypeInv, TypeInv', NEW f, Foretold(f), stateByPID' = stateByPID,
           inherited' \subseteq inherited, confused \subseteq confused'
    PROVE  \E g : /\ IsChain(g, queue, Now') /\ Hits(g, queue)
                  /\ Below(g[Len(queue)], f[Len(queue)])
<1>1. IsForecast(Now')
  BY NowForecast
<1>2. IsChain(f, queue, Now) /\ Hits(f, queue) /\ Below(Now', Now) /\ AllWellFormed(queue)
  BY NowBelow, TypeQueue DEF Foretold
<1> QED BY <1>1, <1>2, Distrust

\* The chain's end is a forecast that has grown from now.
LEMMA ChainEnd ==
    ASSUME TypeInv, NEW f, NEW t, IsChain(f, queue, t)
    PROVE  /\ IsForecast(f[Len(queue)])
           /\ t.inh \subseteq f[Len(queue)].inh /\ t.conf \subseteq f[Len(queue)].conf
<1>1. Len(queue) \in Nat /\ Leads(f, queue, t, Len(queue)) /\ f[0] = t
  BY TypeQueue DEF IsChain, Leads
<1>2. Len(queue) \in 0..Len(queue) /\ 0 \in 0..Len(queue)
  BY <1>1
<1>3. f[0].inh \subseteq f[Len(queue)].inh /\ f[0].conf \subseteq f[Len(queue)].conf
  BY <1>1, <1>2, ChainGrows
<1> QED BY <1>1, <1>2, <1>3 DEF Leads

\* An event of p that is handled as the kernel did the call, or p given up on.
LEMMA EventStep ==
    ASSUME TypeInv, TypeInv', NEW f, Foretold(f), NEW p \in Pid, p \in live, forking[p] = 0,
           UNCHANGED <<stateByPID, inherited, forking, live>>, confused \subseteq confused',
           OthersStay(p), NEW ev, WellFormed(ev), ev.pid = p, ~ev.clone,
           queue' = Append(queue, ev), p \in confused' \/ Heeded(p, ev)
    PROVE  \E g : Foretold(g)'
<1>1. PICK g : /\ IsChain(g, queue, Now') /\ Hits(g, queue)
               /\ Below(g[Len(queue)], f[Len(queue)])
  BY DistrustNow
<1>0. PICK t, u : t = g[Len(queue)] /\ u = Foresee(t, ev)
  OBVIOUS
<1>2. IsForecast(t) /\ Now'.conf \subseteq t.conf /\ KnowsAll(t) /\ ForksKept(t)
  BY <1>0, <1>1, ChainEnd, EndBelow DEF Foretold
<1>3. confused' \subseteq t.conf
  BY <1>2 DEF Now, Forecast
<1>4. ChildPID(ev) = {}
  BY DEF ChildPID
<1>5. /\ u.st[p] = Handled(t.st[p], ev)
      /\ \A r \in Pid \ {p} : u.st[r] = t.st[r]
      /\ u.inh = t.inh
      /\ u.conf = t.conf \cup (IF p \notin t.inh THEN {p} ELSE {})
  <2>1. LET v == Foresee(t, ev)
            unknown == ev.pid \notin t.inh
        IN /\ v.st[ev.pid] = Handled(t.st[ev.pid], ev)
           /\ \A r \in Pid \ {ev.pid} :
                 v.st[r] = IF r \in ChildPID(ev) THEN Matched(t.st[ev.pid], ev) ELSE t.st[r]
           /\ v.inh = t.inh \cup ChildPID(ev)
           /\ v.conf = t.conf \cup (IF unknown THEN {ev.pid} ELSE {})
                              \cup (IF ev.pid \in t.conf \/ unknown THEN ChildPID(ev) ELSE {})
    BY <1>2, ForeseeFields
  <2> QED BY <1>0, <1>4, <2>1
<1>6. ASSUME p \in Trusted(t)
      PROVE  /\ Knows(Handled(t.st[p], ev), fdTable'[p], cwd'[p], lost'[p])
             /\ NoCounts /\ ~ev.doubt => Printed(t.st[p], ev)
  <2>1. Knows(t.st[p], fdTable[p], cwd[p], lost[p])
    BY <1>2, <1>6 DEF KnowsAll
  <2>2. p \notin confused' /\ Synced(t.st[p])
    BY <1>2, <1>3, <1>6 DEF Trusted, IsForecast
  <2> QED BY <2>1, <2>2 DEF Heeded
<1>7. Hit(t, ev)
  BY <1>6 DEF Hit
<1>8. KnowsAll(u)'
  <2> SUFFICES ASSUME NEW r \in live \cap Trusted(u)
               PROVE  Knows(u.st[r], fdTable'[r], cwd'[r], lost'[r])
    BY DEF KnowsAll
  <2>1. r \in Pid
    BY DEF TypeInv, HistoryOK
  <2>2. r \in Trusted(t)
    BY <1>5 DEF Trusted
  <2>3. CASE r = p
    BY <1>5, <1>6, <2>2, <2>3
  <2>4. CASE r # p
    <3>1. Knows(t.st[r], fdTable[r], cwd[r], lost[r]) /\ u.st[r] = t.st[r]
      BY <1>2, <1>5, <2>1, <2>2, <2>4 DEF KnowsAll
    <3>2. r \notin confused'
      BY <1>3, <2>2 DEF Trusted
    <3>3. fdTable'[r] = fdTable[r] /\ cwd'[r] = cwd[r] /\ lost'[r] = lost[r]
      BY <2>4, <3>2 DEF OthersStay
    <3> QED BY <3>1, <3>3
  <2> QED BY <2>3, <2>4
<1>9. ForksKept(u)'
  <2> SUFFICES ASSUME NEW q \in Pid, forking[q] # 0 PROVE ForkKept(u, q, forking[q])'
    BY DEF ForksKept
  <2>0. PICK c : c = forking[q]
    OBVIOUS
  <2>1. q # p /\ ForkKept(t, q, c)
    BY <1>2, <2>0 DEF ForksKept
  <2>2. c \in Pid
    BY <2>0 DEF TypeInv, SyncInv, ForksOK
  <2>3. c \in live /\ c \notin u.conf => Kin(q, c)'
    <3> SUFFICES ASSUME c \in live, c \notin u.conf PROVE Kin(q, c)'
      OBVIOUS
    <3>1. Kin(q, c)
      BY <1>5, <2>1 DEF ForkKept
    <3>2. c # p
      BY <1>5, <2>1 DEF ForkKept
    <3> QED BY <2>1, <2>2, <3>1, <3>2 DEF OthersStay
  <2>4. ForkKept(u, q, c)'
    BY <1>5, <2>1, <2>3 DEF ForkKept
  <2> QED BY <2>0, <2>4
<1>10. PICK h : /\ IsChain(h, Append(queue, ev), Now') /\ Hits(h, Append(queue, ev))
                /\ h[Len(Append(queue, ev))] = u
  BY <1>0, <1>1, <1>7, TypeQueue, Foresees
<1> QED BY <1>8, <1>9, <1>10 DEF Foretold

\* A call that leaves no event changes nothing but what it makes the filter
\* lose sight of.
LEMMA SilentStep ==
    ASSUME TypeInv, NEW f, Foretold(f), NEW p \in Pid, forking[p] = 0,
           UNCHANGED <<stateByPID, inherited, forking, confused, cwd, queue>>,
           live' \subseteq live, live \ {p} \subseteq live',
           \A r \in Pid : lost[r] \subseteq lost'[r],
           \A r \in Pid \ {p} : lost'[r] = lost[r],
           \A r \in Pid : \A fd \in Fd \ lost'[r] : fdTable'[r][fd] = fdTable[r][fd]
    PROVE  Foretold(f)'
<1>0. PICK t : t = f[Len(queue)]
  OBVIOUS
<1>1. KnowsAll(t)'
  BY <1>0 DEF KnowsAll, Knows, Foretold, TypeInv, HistoryOK
<1>2. ForksKept(t)'
  <2> SUFFICES ASSUME NEW q \in Pid, forking[q] # 0 PROVE ForkKept(t, q, forking[q])'
    BY DEF ForksKept
  <2>1. ForkKept(t, q, forking[q])
    BY <1>0 DEF Foretold, ForksKept
  <2>2. forking[q] \in Pid /\ q # p
    BY DEF TypeInv, SyncInv, ForksOK
  <2>3. PICK c : c = forking[q]
    OBVIOUS
  <2>4. Kin(q, c) => Kin(q, c)'
    BY <2>2, <2>3 DEF Kin
  <2>5. ForkKept(t, q, c)'
    BY <2>1, <2>2, <2>3, <2>4 DEF ForkKept
  <2> QED BY <2>3, <2>5
<1>3. IsChain(f, queue, Now)' /\ Hits(f, queue)'
  BY DEF Foretold, Now
<1> QED BY <1>0, <1>1, <1>2, <1>3 DEF Foretold
-----------------------------------------------------------------------------
(***************************************************************************)
(* The event loop.                                                         *)
(***************************************************************************)
\* Nothing is learnt of the working directory from this event.
Settled(s, ev) ==
    s.cwd # NoPath \/ \A j \in 1..Len(PathArgs(ev.id)) : ~UsesCwd(ev, PathArgs(ev.id)[j])

\* The arguments the handlers resolve are those matchesPath looks at.
LEMMA PathArgsOf ==
    ASSUME NEW id
    PROVE  /\ id \in {"open", "newstat", "chdir", "unlink"} => PathArgs(id) = <<0>>
           /\ id \in {"openat", "newfstatat", "unlinkat"} => PathArgs(id) = <<1>>
           /\ id = "rename" => PathArgs(id) = <<0, 1>>
           /\ id = "renameat" => PathArgs(id) = <<1, 3>>
           /\ id \notin {"open", "newstat", "chdir", "unlink", "openat", "newfstatat", "unlinkat",
                         "rename", "renameat"} => PathArgs(id) = <<>>
BY DEF PathArgs

\* Where a directory is known already, none is looked up in /proc.
LEMMA SettledCache ==
    ASSUME NEW s, NEW ev, Settled(s, ev), NEW j \in 1..Len(PathArgs(ev.id)), NEW proc
    PROVE  CacheCwd(s, ev, PathArgs(ev.id)[j], proc) = s
BY DEF Settled, CacheCwd

\* The same for the arguments that the handlers resolve.
LEMMA SettledArgs ==
    ASSUME NEW s, NEW ev, Settled(s, ev), NEW proc
    PROVE  /\ ev.id \in {"open", "chdir", "unlink", "rename"} => CacheCwd(s, ev, 0, proc) = s
           /\ ev.id \in {"openat", "unlinkat", "rename", "renameat"} => CacheCwd(s, ev, 1, proc) = s
           /\ ev.id = "renameat" => CacheCwd(s, ev, 3, proc) = s
<1>1. ASSUME NEW a, NEW b, PathArgs(ev.id) = <<a, b>>
      PROVE  CacheCwd(s, ev, a, proc) = s /\ CacheCwd(s, ev, b, proc) = s
  <2>1. 1 \in 1..Len(PathArgs(ev.id)) /\ 2 \in 1..Len(PathArgs(ev.id))
    BY <1>1
  <2>2. PathArgs(ev.id)[1] = a /\ PathArgs(ev.id)[2] = b
    BY <1>1
  <2> QED BY <2>1, <2>2, SettledCache
<1>2. ASSUME NEW a, PathArgs(ev.id) = <<a>> PROVE CacheCwd(s, ev, a, proc) = s
  <2>1. 1 \in 1..Len(PathArgs(ev.id))
    BY <1>2
  <2>2. PathArgs(ev.id)[1] = a
    BY <1>2
  <2> QED BY <2>1, <2>2, SettledCache
<1> QED BY <1>1, <1>2, PathArgsOf

\* The same for matchesPath.
LEMMA SettledMatch ==
    ASSUME NEW s, NEW ev, Settled(s, ev), NEW proc
    PROVE  AfterMatch(s, ev, proc) = s
<1>1. CASE PathArgs(ev.id) = <<>>
  BY <1>1 DEF AfterMatch
<1>2. CASE \E a : PathArgs(ev.id) = <<a>>
  <2>1. 1 \in 1..Len(PathArgs(ev.id)) /\ Len(PathArgs(ev.id)) = 1
    BY <1>2
  <2> QED BY <2>1, SettledCache DEF AfterMatch
<1>3. CASE \E a, b : PathArgs(ev.id) = <<a, b>>
  <2>1. 1 \in 1..Len(PathArgs(ev.id)) /\ 2 \in 1..Len(PathArgs(ev.id))
    BY <1>3
  <2> QED BY <2>1, SettledCache DEF AfterMatch
<1> QED BY <1>1, <1>2, <1>3, PathArgsOf

\* The same for observe.
LEMMA SettledCall ==
    ASSUME NEW s, NEW ev, Settled(s, ev), NEW proc, NEW at
    PROVE  ObserveCall(s, ev, proc) = ObserveCall(s, ev, at)
<1>1. CASE ~(ev.ret >= 0) \/ ev.id \notin {"open", "openat", "chdir", "rename", "renameat",
                                              "unlink", "unlinkat"}
  BY <1>1 DEF ObserveCall
<1>2. CASE ev.ret >= 0 /\ ev.id \in {"open", "openat"}
  BY <1>2, SettledArgs DEF ObserveCall, ObserveOpen
<1>3. CASE ev.ret >= 0 /\ ev.id = "chdir"
  BY <1>3, SettledArgs DEF ObserveCall, ObserveChdir
<1>4. CASE ev.ret >= 0 /\ ev.id \in {"rename", "renameat"}
  BY <1>4, SettledArgs DEF ObserveCall, ObserveRename
<1>5. CASE ev.ret >= 0 /\ ev.id \in {"unlink", "unlinkat"}
  BY <1>5, SettledArgs DEF ObserveCall, ObserveUnlink
<1> QED BY <1>1, <1>2, <1>3, <1>4, <1>5

\* Unless it learns late, the filter handles the event as foreseen.
LEMMA OnTime ==
    ASSUME NEW ev, ~LearnsLate(ev)
    PROVE  LET s == stateByPID[ev.pid]
               matched == AfterMatch(s, ev, ProcCwd(ev.pid))
           IN matched = Matched(s, ev) /\ ObserveCall(matched, ev, ProcCwd(ev.pid)) = Handled(s, ev)
<1> DEFINE s == stateByPID[ev.pid]
           proc == ProcCwd(ev.pid)
<1>1. CASE proc = ev.at
  BY <1>1 DEF Matched, Handled
<1>2. CASE proc # ev.at
  <2>1. Settled(s, ev)
    BY <1>2 DEF LearnsLate, Settled
  <2> HIDE DEF s, proc
  <2>2. AfterMatch(s, ev, proc) = s /\ AfterMatch(s, ev, ev.at) = s
    BY <2>1, SettledMatch
  <2>3. ObserveCall(s, ev, proc) = ObserveCall(s, ev, ev.at)
    BY <2>1, SettledCall
  <2> QED BY <2>2, <2>3 DEF Matched, Handled, s, proc
<1> QED BY <1>1, <1>2

\* The filter's next state is the one foreseen, but for what it learns late.
LEMMA HandleForeseen ==
    ASSUME TypeInv, HandleEvent
    PROVE  LET ev == Head(queue) IN
           /\ Below(Now', Foresee(Now, ev))
           /\ ev.pid \notin confused' =>
                 /\ ev.pid \in Trusted(Now)
                 /\ output' = ShouldPrint(Matched(stateByPID[ev.pid], ev), ev)
<1> DEFINE ev == Head(queue)
           s == stateByPID[ev.pid]
           matched == AfterMatch(s, ev, ProcCwd(ev.pid))
           u == Foresee(Now, ev)
<1>1. WellFormed(ev)
  BY HeadWellFormed DEF HandleEvent, TypeInv, SyncInv
<1>2. /\ stateByPID' = Observe(stateByPID, matched, ev, ProcCwd(ev.pid))
      /\ output' = ShouldPrint(matched, ev)
  BY TracedAssumption DEF HandleEvent, ShouldOutput
<1>3. /\ inherited' = inherited \cup ChildPID(ev)
      /\ confused' = confused
            \cup (IF LearnsLate(ev) \/ ev.pid \notin inherited THEN {ev.pid} ELSE {})
            \cup (IF ev.pid \in confused \/ ev.pid \notin inherited THEN ChildPID(ev) ELSE {})
  BY DEF HandleEvent
<1>4. Now.st = stateByPID /\ Now.inh = inherited /\ Now.conf = confused /\ IsForecast(Now)
  BY NowForecast DEF Now, Forecast
<1>5. Now'.st = stateByPID' /\ Now'.inh = inherited' /\ Now'.conf = confused'
  BY DEF Now, Forecast
<1>6. ~LearnsLate(ev) => /\ matched = Matched(s, ev)
                         /\ ObserveCall(matched, ev, ProcCwd(ev.pid)) = Handled(s, ev)
  BY OnTime
<1>7. ChildPID(ev) # {} => matched = Matched(s, ev)
  BY <1>1, PathArgsOf DEF WellFormed, ChildPID, Matched, AfterMatch
<1> HIDE DEF ev, s, matched
<1>8. /\ stateByPID'[ev.pid] = ObserveCall(matched, ev, ProcCwd(ev.pid))
      /\ \A p \in Pid \ {ev.pid} : stateByPID'[p] = IF p \in ChildPID(ev) THEN matched ELSE stateByPID[p]
  BY <1>1, <1>2 DEF Observe, WellFormed
<1>9. /\ u.st[ev.pid] = Handled(s, ev)
      /\ \A p \in Pid \ {ev.pid} :
            u.st[p] = IF p \in ChildPID(ev) THEN Matched(s, ev) ELSE stateByPID[p]
      /\ u.inh = inherited \cup ChildPID(ev)
      /\ u.conf = confused \cup (IF ev.pid \notin inherited THEN {ev.pid} ELSE {})
            \cup (IF ev.pid \in confused \/ ev.pid \notin inherited THEN ChildPID(ev) ELSE {})
  <2>1. LET v == Foresee(Now, ev)
            unknown == ev.pid \notin Now.inh
        IN /\ v.st[ev.pid] = Handled(Now.st[ev.pid], ev)
           /\ \A p \in Pid \ {ev.pid} :
                 v.st[p] = IF p \in ChildPID(ev) THEN Matched(Now.st[ev.pid], ev) ELSE Now.st[p]
           /\ v.inh = Now.inh \cup ChildPID(ev)
           /\ v.conf = Now.conf \cup (IF unknown THEN {ev.pid} ELSE {})
                                \cup (IF ev.pid \in Now.conf \/ unknown THEN ChildPID(ev) ELSE {})
    BY <1>1, <1>4, ForeseeFields
  <2> QED BY <1>4, <2>1 DEF s
<1> HIDE DEF u
<1>10. u.inh = Now'.inh /\ u.conf \subseteq Now'.conf
  BY <1>3, <1>5, <1>9
<1>11. ASSUME NEW p \in Trusted(Now') PROVE Now'.st[p] = u.st[p]
  <2>1. p \in Pid /\ p \notin confused' /\ p \in inherited'
    <3>1. inherited \subseteq Pid /\ ChildPID(ev) \subseteq Pid
      BY <1>1 DEF TypeInv, HistoryOK, WellFormed, ChildPID
    <3> QED BY <1>3, <1>5, <1>11, <3>1 DEF Trusted
  <2>2. CASE p = ev.pid
    <3>1. ~LearnsLate(ev)
      BY <1>3, <2>1, <2>2
    <3> QED BY <1>5, <1>6, <1>8, <1>9, <2>2, <3>1
  <2>3. CASE p # ev.pid
    BY <1>5, <1>7, <1>8, <1>9, <2>1, <2>3
  <2> QED BY <2>2, <2>3
<1>12. ev.pid \notin confused' => /\ ev.pid \in Trusted(Now)
                                 /\ output' = ShouldPrint(Matched(s, ev), ev)
  BY <1>2, <1>3, <1>4, <1>6 DEF Trusted
<1> QED BY <1>10, <1>11, <1>12 DEF Below, ev, s, u

\* shouldOutput takes the oldest event: the chain loses its first forecast.
LEMMA HandleStep ==
    ASSUME TypeInv, TypeInv', NEW f, Foretold(f), HandleEvent
    PROVE  /\ \E g : Foretold(g)'
           /\ NoCounts => PrintsHits
<1>1. queue # <<>> /\ queue' = Tail(queue) /\ AllWellFormed(queue) /\ AllWellFormed(queue')
  BY TypeQueue DEF HandleEvent, TypeInv, SyncInv, QueueOK, AllWellFormed
<1> DEFINE N == Len(queue)
           h == [k \in 0..N - 1 |-> f[k + 1]]
<1>2. /\ N \in Nat /\ N > 0 /\ Len(queue') = N - 1 /\ queue[1] = Head(queue)
      /\ \A k \in 1..N - 1 : queue'[k] = queue[k + 1]
  BY <1>1 DEF AllWellFormed
<1>3. PICK ev, t, u : ev = Head(queue) /\ t = Now /\ u = Now'
  OBVIOUS
<1>4. Leads(f, queue, t, N) /\ Hits(f, queue)
  BY <1>3 DEF Foretold, IsChain
<1> HIDE DEF N
<1>5. /\ h[0] = Foresee(t, ev) /\ f[0] = t
      /\ \A k \in 0..N - 1 : h[k] = f[k + 1]
  <2>1. 0 \in 0..N - 1 /\ 1 \in 1..N /\ 0 + 1 = 1 /\ 1 - 1 = 0
    BY <1>2
  <2> QED BY <1>2, <1>3, <1>4, <2>1 DEF Leads
<1> HIDE DEF h
<1>6. IsChain(h, queue', Foresee(t, ev)) /\ h[Len(queue')] = f[Len(queue)]
  <2>1. ASSUME NEW k \in 0..N - 1 PROVE IsForecast(h[k])
    <3>1. k + 1 \in 0..N
      BY <1>2
    <3> QED BY <1>4, <1>5, <3>1 DEF Leads
  <2>2. ASSUME NEW k \in 1..N - 1 PROVE h[k] = Foresee(h[k - 1], queue'[k])
    <3>1. k + 1 \in 1..N /\ k - 1 \in 0..N - 1 /\ k \in 0..N - 1 /\ (k - 1) + 1 = k /\ (k + 1) - 1 = k
      BY <1>2
    <3> QED BY <1>2, <1>4, <1>5, <3>1 DEF Leads
  <2>3. N - 1 \in 0..N - 1 /\ (N - 1) + 1 = N
    BY <1>2
  <2> QED BY <1>2, <1>5, <2>1, <2>2, <2>3 DEF IsChain, Leads, N
<1>7. Hits(h, queue')
  <2> SUFFICES ASSUME NEW k \in 1..N - 1 PROVE Hit(h[k - 1], queue'[k])
    BY <1>2 DEF Hits
  <2>1. k + 1 \in 1..N /\ k - 1 \in 0..N - 1 /\ (k - 1) + 1 = k /\ (k + 1) - 1 = k
    BY <1>2
  <2> QED BY <1>2, <1>4, <1>5, <2>1 DEF Hits, N
<1>8. Below(u, Foresee(t, ev)) /\ IsForecast(u)
  BY <1>3, HandleForeseen, NowForecast
<1>9. PICK g : /\ IsChain(g, queue', u) /\ Hits(g, queue')
               /\ Below(g[Len(queue')], h[Len(queue')])
  BY <1>1, <1>6, <1>7, <1>8, Distrust
<1>10. PICK e : e = g[Len(queue')]
  OBVIOUS
<1>11. KnowsAll(e) /\ ForksKept(e)
  BY <1>6, <1>9, <1>10, EndBelow DEF Foretold
<1>12. KnowsAll(e)' /\ ForksKept(e)'
  BY <1>11 DEF HandleEvent, osVars, KnowsAll, ForksKept, ForkKept, Kin
<1>13. Foretold(g)'
  BY <1>3, <1>9, <1>10, <1>12 DEF Foretold
<1>14. NoCounts => PrintsHits
  <2> SUFFICES ASSUME NoCounts, ev.pid \notin confused', ~ev.doubt
               PROVE  output' = (UserAllows(ev.id) /\ ev.hit)
    BY <1>3 DEF PrintsHits
  <2>1. ev.pid \in Trusted(t) /\ output' = ShouldPrint(Matched(t.st[ev.pid], ev), ev)
    BY <1>3, HandleForeseen DEF Now, Forecast
  <2>2. 1 \in 1..N /\ 1 - 1 = 0
    BY <1>2
  <2>3. Hit(t, ev)
    BY <1>2, <1>3, <1>4, <1>5, <2>2 DEF Hits, N
  <2> QED BY <2>1, <2>3 DEF Hit, Printed
<1> QED BY <1>13, <1>14
-----------------------------------------------------------------------------
(***************************************************************************)
(* Forks.                                                                  *)
(***************************************************************************)
\* A forecast that has not heard of c; conf says whether it is wrong about c.
Unborn(t, c, conf) == Forecast(t.st, t.inh \ {c}, (t.conf \ {c}) \cup conf)

\* A forecast in which a child has not been born, one event on.
LEMMA UnbornForesee ==
    ASSUME NEW t, IsForecast(t), NEW c, NEW conf \in SUBSET {c}, NEW ev, WellFormed(ev),
           ev.pid # c, c \notin ChildPID(ev)
    PROVE  Foresee(Unborn(t, c, conf), ev) = Unborn(Foresee(t, ev), c, conf)
<1> DEFINE b == Unborn(t, c, conf)
           children == ChildPID(ev)
           unknown == ev.pid \notin t.inh
<1>1. b.st = t.st /\ b.inh = t.inh \ {c} /\ b.conf = (t.conf \ {c}) \cup conf
  BY DEF Unborn, Forecast
<1>2. (ev.pid \notin b.inh <=> unknown) /\ (ev.pid \in b.conf <=> ev.pid \in t.conf)
  BY <1>1
<1>3. Foresee(b, ev) = Forecast(Observe(t.st, Matched(t.st[ev.pid], ev), ev, ev.at),
                                b.inh \cup children,
                                b.conf \cup (IF unknown THEN {ev.pid} ELSE {})
                                       \cup (IF ev.pid \in t.conf \/ unknown THEN children ELSE {}))
  BY <1>1, <1>2 DEF Foresee
<1>4. Unborn(Foresee(t, ev), c, conf)
        = Forecast(Observe(t.st, Matched(t.st[ev.pid], ev), ev, ev.at),
                   (t.inh \cup children) \ {c},
                   ((t.conf \cup (IF unknown THEN {ev.pid} ELSE {})
                            \cup (IF ev.pid \in t.conf \/ unknown THEN children ELSE {})) \ {c})
                     \cup conf)
  BY DEF Unborn, Foresee, Forecast
<1>5. (t.inh \cup children) \ {c} = b.inh \cup children
  BY <1>1
<1>6. ((t.conf \cup (IF unknown THEN {ev.pid} ELSE {})
               \cup (IF ev.pid \in t.conf \/ unknown THEN children ELSE {})) \ {c}) \cup conf
        = b.conf \cup (IF unknown THEN {ev.pid} ELSE {})
                 \cup (IF ev.pid \in t.conf \/ unknown THEN children ELSE {})
  BY <1>1
<1> QED BY <1>3, <1>4, <1>5, <1>6

\* The forecasts of a queue that does not speak of c.
LEMMA UnbornChain ==
    ASSUME NEW q, AllWellFormed(q), NEW f, NEW t, IsChain(f, q, t), Hits(f, q), NEW c,
           NEW conf \in SUBSET {c}, \A k \in 1..Len(q) : q[k].pid # c /\ c \notin ChildPID(q[k])
    PROVE  \E g : /\ IsChain(g, q, Unborn(t, c, conf)) /\ Hits(g, q)
                  /\ g[Len(q)] = Unborn(f[Len(q)], c, conf)
<1> DEFINE g == [k \in 0..Len(q) |-> Unborn(f[k], c, conf)]
<1>1. Len(q) \in Nat /\ \A k \in 1..Len(q) : WellFormed(q[k])
  BY EventsWellFormed
<1>2. \A k \in 0..Len(q) : g[k] = Unborn(f[k], c, conf)
  OBVIOUS
<1>3. Leads(f, q, t, Len(q))
  BY DEF IsChain
<1> HIDE DEF g
<1>4. ASSUME NEW u, IsForecast(u) PROVE IsForecast(Unborn(u, c, conf))
  BY <1>4 DEF IsForecast, Unborn, Forecast
<1>5. \A k \in 0..Len(q) : IsForecast(g[k])
  BY <1>2, <1>3, <1>4 DEF Leads
<1>6. ASSUME NEW k \in 1..Len(q)
      PROVE  g[k] = Foresee(g[k - 1], q[k]) /\ Hit(g[k - 1], q[k])
  <2>1. k - 1 \in 0..Len(q) /\ k \in 0..Len(q)
    BY <1>1
  <2>2. f[k] = Foresee(f[k - 1], q[k]) /\ IsForecast(f[k - 1])
    BY <1>3, <2>1 DEF Leads
  <2>3. g[k] = Foresee(g[k - 1], q[k])
    BY <1>1, <1>2, <2>1, <2>2, UnbornForesee
  <2>4. Hit(f[k - 1], q[k]) /\ q[k].pid # c
    BY DEF Hits
  <2>5. LET b == g[k - 1]
            u == f[k - 1]
        IN b.st = u.st /\ b.inh = u.inh \ {c} /\ b.conf = (u.conf \ {c}) \cup conf
    <3>1. g[k - 1] = Unborn(f[k - 1], c, conf)
      BY <1>2, <2>1
    <3> QED BY <3>1 DEF Unborn, Forecast
  <2>6. q[k].pid \in Trusted(g[k - 1]) <=> q[k].pid \in Trusted(f[k - 1])
    BY <2>4, <2>5 DEF Trusted
  <2>7. Hit(g[k - 1], q[k])
    BY <2>4, <2>5, <2>6 DEF Hit
  <2> QED BY <2>3, <2>7
<1>7. 0 \in 0..Len(q) /\ Len(q) \in 0..Len(q)
  BY <1>1
<1>8. IsChain(g, q, Unborn(t, c, conf))
  BY <1>2, <1>3, <1>5, <1>6, <1>7 DEF IsChain, Leads
<1> QED BY <1>2, <1>6, <1>7, <1>8 DEF Hits

\* A child is born, its parent's event still to come.
LEMMA ForkStep ==
    ASSUME TypeInv, TypeInv', NEW f, Foretold(f), NEW p \in Pid, NEW child \in Pid, Fork(p, child)
    PROVE  \E g : Foretold(g)'
<1>1. /\ p \in live /\ forking[p] = 0 /\ child \notin live /\ p # child /\ child # 0
      /\ live' = live \cup {child}
      /\ UNCHANGED <<stateByPID, queue>> /\ inherited' = inherited \ {child}
      /\ confused' = IF p \in confused \/ Awaited(child) THEN confused \cup {child}
                                                        ELSE confused \ {child}
  BY PidAssumption DEF Fork, CanCall, filterVars
<1>2. /\ forking'[p] = child
      /\ \A q \in Pid \ {p} : forking'[q] = forking[q]
      /\ fdTable'[child] = fdTable[p] /\ cwd'[child] = cwd[p] /\ lost'[child] = lost[p]
      /\ \A q \in Pid \ {child} :
            fdTable'[q] = fdTable[q] /\ cwd'[q] = cwd[q] /\ lost'[q] = lost[q]
  BY DEF Fork, TypeInv, SyncInv, ForksOK, KernelOK, HistoryOK
\* What is left to show of the end of the new chain.
<1>3. ASSUME NEW t, KnowsAll(t), NEW e, Trusted(e) \subseteq Trusted(t) \cup {child},
             child \notin Trusted(e), \A r \in Pid : e.st[r] = t.st[r]
                                                      \/ r \notin Trusted(e)
      PROVE  KnowsAll(e)'
  <2> SUFFICES ASSUME NEW r \in live' \cap Trusted(e)
               PROVE  Knows(e.st[r], fdTable'[r], cwd'[r], lost'[r])
    BY DEF KnowsAll
  <2>1. r \in live /\ r \in Pid \ {child} /\ r \in Trusted(t) /\ e.st[r] = t.st[r]
    BY <1>1, <1>3 DEF TypeInv, HistoryOK
  <2> QED BY <1>2, <1>3, <2>1 DEF KnowsAll
<1>4. ASSUME NEW t, ForksKept(t), NEW e, e.inh \subseteq t.inh, t.conf \subseteq e.conf \cup {child},
             child \in e.inh => child \in e.conf,
             child \in e.conf \/ \A q \in Pid : forking[q] # child
      PROVE  ForksKept(e)'
  <2> SUFFICES ASSUME NEW q \in Pid, NEW c, c = forking'[q], c # 0 PROVE ForkKept(e, q, c)'
    BY DEF ForksKept
  <2>2. CASE q = p
    <3>1. c = child
      BY <1>2, <2>2
    <3>2. Kin(p, child)'
      BY <1>1, <1>2 DEF Kin
    <3>3. \A r \in Pid \ {p} : forking'[r] = child => child \in e.conf
      BY <1>2, <1>4
    <3>4. ForkKept(e, p, child)'
      BY <1>1, <1>4, <3>2, <3>3 DEF ForkKept
    <3> QED BY <2>2, <3>1, <3>4
  <2>3. CASE q # p
    <3>1. forking[q] = c /\ c # 0 /\ ForkKept(t, q, c) /\ c \in Pid
      BY <1>2, <1>4, <2>3 DEF ForksKept, TypeInv, SyncInv, ForksOK
    <3>2. q \in live /\ q # child
      BY <1>1, <3>1 DEF ForkKept
    <3>3. CASE c = child
      <4>1. child \in e.conf
        BY <1>4, <3>1, <3>3
      <4>2. ForkKept(e, q, child)'
        BY <1>1, <3>2, <4>1 DEF ForkKept
      <4> QED BY <3>3, <4>2
    <3>4. CASE c # child
      <4>1. c \in e.inh => c \in e.conf
        BY <1>4, <3>1, <3>4 DEF ForkKept
      <4>2. c \in live' /\ c \notin e.conf => Kin(q, c)'
        <5> SUFFICES ASSUME c \in live', c \notin e.conf PROVE Kin(q, c)'
          OBVIOUS
        <5>1. Kin(q, c)
          BY <1>1, <1>4, <3>1, <3>4 DEF ForkKept
        <5>2. q \in Pid \ {child} /\ c \in Pid \ {child}
          BY <3>1, <3>2, <3>4
        <5> QED BY <1>2, <5>1, <5>2 DEF Kin
      <4>3. \A r \in Pid \ {q} : forking'[r] = c => c \in e.conf
        BY <1>2, <1>4, <3>1, <3>4 DEF ForkKept
      <4>4. ForkKept(e, q, c)'
        BY <1>1, <3>2, <4>1, <4>2, <4>3 DEF ForkKept
      <4> QED BY <4>4
    <3> QED BY <3>3, <3>4
  <2> QED BY <2>2, <2>3
<1>5. PICK n : n = Now
  OBVIOUS
<1>6. CASE Awaited(child)
  <2>1. inherited' \subseteq inherited /\ confused \subseteq confused' /\ child \in confused'
    BY <1>1, <1>6
  <2>2. PICK g : /\ IsChain(g, queue, Now') /\ Hits(g, queue)
                 /\ Below(g[Len(queue)], f[Len(queue)])
    BY <1>1, <2>1, DistrustNow
  <2>3. PICK e, t : e = g[Len(queue)] /\ t = f[Len(queue)]
    OBVIOUS
  <2>4. e.inh \subseteq t.inh /\ t.conf \subseteq e.conf /\ Trusted(e) \subseteq Trusted(t)
        /\ \A r \in Trusted(e) : e.st[r] = t.st[r]
    BY <2>2, <2>3 DEF Below, Trusted
  <2>5. child \in e.conf
    BY <2>1, <2>2, <2>3, ChainEnd DEF Now, Forecast
  <2>6. KnowsAll(t) /\ ForksKept(t)
    BY <2>3 DEF Foretold
  <2>7. KnowsAll(e)'
    BY <1>3, <2>4, <2>5, <2>6 DEF Trusted
  <2>8. ForksKept(e)'
    BY <1>4, <2>4, <2>5, <2>6
  <2>9. Foretold(g)'
    BY <1>1, <2>2, <2>3, <2>7, <2>8 DEF Foretold
  <2> QED BY <2>9
<1>7. CASE ~Awaited(child)
  <2> DEFINE conf == IF p \in confused THEN {child} ELSE {}
  <2>1. Now' = Unborn(Now, child, conf)
    <3>1. confused' = (confused \ {child}) \cup conf
      BY <1>1, <1>7
    <3> QED BY <1>1, <3>1 DEF Now, Unborn, Forecast
  <2>2. \A k \in 1..Len(queue) : queue[k].pid # child /\ child \notin ChildPID(queue[k])
    BY <1>7 DEF Awaited
  <2>3. \A q \in Pid : forking[q] # child
    BY <1>7 DEF Awaited
  <2>4. conf \in SUBSET {child}
    OBVIOUS
  <2> HIDE DEF conf
  <2>5. PICK g : /\ IsChain(g, queue, Now') /\ Hits(g, queue)
                 /\ g[Len(queue)] = Unborn(f[Len(queue)], child, conf)
    BY <2>1, <2>2, <2>4, TypeQueue, UnbornChain DEF Foretold
  <2>6. PICK e, t : e = g[Len(queue)] /\ t = f[Len(queue)]
    OBVIOUS
  <2>7. /\ e.st = t.st /\ e.inh = t.inh \ {child} /\ t.conf \subseteq e.conf \cup {child}
        /\ e.conf \subseteq t.conf \cup {child}
    BY <2>4, <2>5, <2>6 DEF Unborn, Forecast
  <2>8. KnowsAll(t) /\ ForksKept(t)
    BY <2>6 DEF Foretold
  <2>9. KnowsAll(e)'
    BY <1>3, <2>7, <2>8 DEF Trusted
  <2>10. ForksKept(e)'
    BY <1>4, <2>3, <2>7, <2>8
  <2>11. Foretold(g)'
    BY <1>1, <2>5, <2>6, <2>9, <2>10 DEF Foretold
  <2> QED BY <2>11
<1> QED BY <1>6, <1>7
\* A call with no descriptors and no path is no hit, and nothing is printed.
LEMMA NothingPrinted ==
    ASSUME NEW s, Synced(s), NEW ev, ev.fd = NoFds, PathArgs(ev.id) = <<>>
    PROVE  /\ Matched(s, ev) = s
           /\ ~ev.hit => Printed(s, ev)
<1>1. Matched(s, ev) = s
  BY DEF Matched, AfterMatch
<1>2. ~MatchesPath(s, ev)
  BY DEF MatchesPath
<1>3. ~HasTrackedFDArg(s, ev)
  <2>1. \A i \in EventFdArgs(ev.id) : i \in 0..5
    BY DEF EventFdArgs, FdArgs
  <2>2. \A i \in EventFdArgs(ev.id) : ev.fd[i] = AT_FDCWD
    BY <2>1 DEF NoFds
  <2>3. AT_FDCWD \notin s.trackedFDs
    BY PidAssumption DEF Synced, AT_FDCWD
  <2> QED BY <2>2, <2>3 DEF HasTrackedFDArg
<1> QED BY <1>1, <1>2, <1>3 DEF Printed, ShouldPrint

\* The parent's fork event is queued: the child's state will be a copy.
LEMMA ForkReturnStep ==
    ASSUME TypeInv, TypeInv', NEW f, Foretold(f), NEW p \in Pid, ForkReturn(p)
    PROVE  \E g : Foretold(g)'
<1>1. PICK ev, child : ev = Event(p, "fork", forking[p], NoFds, NoPaths, TRUE, FALSE) /\ child = forking[p]
  OBVIOUS
<1>2. /\ ev.pid = p /\ ev.id = "fork" /\ ev.ret = child /\ ev.clone /\ ~ev.hit /\ ev.fd = NoFds
      /\ ev.path = NoPaths
  BY <1>1 DEF Event
<1>3. child \in Pid /\ child # 0 /\ child > 0 /\ child \in Int
  <2>1. child \in Pid
    BY <1>1 DEF ForkReturn, TypeInv, SyncInv, ForksOK
  <2>2. \A q \in Pid : q \in Int /\ q > 0 /\ q # 0
    BY PidAssumption
  <2> QED BY <2>1, <2>2
<1>4. WellFormed(ev) /\ ChildPID(ev) = {child}
  <2>1. NoPaths \in EventPaths
    BY DEF NoPaths, EventPaths
  <2> QED BY <1>2, <1>3, <2>1 DEF WellFormed, ChildPID
<1>5. queue' = Append(queue, ev)
  <2>1. KernelSelects("fork")
    BY TracedAssumption DEF KernelSelects, HandleTraceIds, ForkSupportIds
  <2> QED BY <1>1, <1>2, <2>1 DEF ForkReturn, Submit
<1>6. /\ UNCHANGED <<stateByPID, live, fdTable, cwd, inherited, confused, lost>>
      /\ forking'[p] = 0 /\ \A q \in Pid \ {p} : forking'[q] = forking[q]
  BY DEF ForkReturn, filterVars, historyVars, TypeInv, SyncInv, ForksOK
<1>7. PICK t, u : t = f[Len(queue)] /\ u = Foresee(t, ev)
  OBVIOUS
<1>8. IsForecast(t) /\ KnowsAll(t) /\ ForksKept(t) /\ ForkKept(t, p, child)
  BY <1>1, <1>3, <1>7, ChainEnd DEF Foretold, ForksKept
<1>9. ASSUME NEW s, Synced(s)
      PROVE  Matched(s, ev) = s /\ Handled(s, ev) = s /\ Printed(s, ev)
  <2>1. PathArgs(ev.id) = <<>>
    BY <1>2, PathArgsOf
  <2>2. Matched(s, ev) = s /\ Printed(s, ev)
    BY <1>2, <1>9, <2>1, NothingPrinted
  <2>3. ObserveCall(s, ev, ev.at) = s
    BY <1>2 DEF ObserveCall
  <2> QED BY <2>2, <2>3 DEF Handled
<1>10. /\ u.st[p] = t.st[p]
       /\ \A r \in Pid \ {p} : u.st[r] = IF r = child THEN t.st[p] ELSE t.st[r]
       /\ u.inh = t.inh \cup {child}
       /\ u.conf = t.conf \cup (IF p \notin t.inh THEN {p} ELSE {})
                          \cup (IF p \in t.conf \/ p \notin t.inh THEN {child} ELSE {})
  <2>1. LET v == Foresee(t, ev)
            unknown == ev.pid \notin t.inh
        IN /\ v.st[ev.pid] = Handled(t.st[ev.pid], ev)
           /\ \A r \in Pid \ {ev.pid} :
                 v.st[r] = IF r \in ChildPID(ev) THEN Matched(t.st[ev.pid], ev) ELSE t.st[r]
           /\ v.inh = t.inh \cup ChildPID(ev)
           /\ v.conf = t.conf \cup (IF unknown THEN {ev.pid} ELSE {})
                              \cup (IF ev.pid \in t.conf \/ unknown THEN ChildPID(ev) ELSE {})
    BY <1>4, <1>8, ForeseeFields
  <2>2. Synced(t.st[p])
    BY <1>8 DEF IsForecast
  <2>3. Matched(t.st[p], ev) = t.st[p] /\ Handled(t.st[p], ev) = t.st[p]
    BY <1>9, <2>2
  <2> QED BY <1>2, <1>4, <1>7, <2>1, <2>3
<1>11. KnowsAll(u)'
  <2> SUFFICES ASSUME NEW r \in live \cap Trusted(u)
               PROVE  Knows(u.st[r], fdTable[r], cwd[r], lost[r])
    BY <1>6 DEF KnowsAll
  <2>1. r \in Pid
    BY DEF TypeInv, HistoryOK
  <2>2. CASE r = p
    BY <1>8, <1>10, <2>2 DEF KnowsAll, Trusted
  <2>3. CASE r # p /\ r = child
    <3>1. p \in Trusted(t) /\ child \notin t.conf
      BY <1>10, <2>3 DEF Trusted
    <3>2. p \in live /\ Kin(p, child)
      BY <1>8, <2>3, <3>1 DEF ForkKept
    <3>3. Knows(t.st[p], fdTable[p], cwd[p], lost[p])
      BY <1>8, <3>1, <3>2 DEF KnowsAll
    <3>4. u.st[r] = t.st[p]
      BY <1>10, <2>1, <2>3
    <3> QED BY <2>3, <3>2, <3>3, <3>4 DEF Kin, Knows
  <2>4. CASE r # p /\ r # child
    BY <1>8, <1>10, <2>1, <2>4 DEF KnowsAll, Trusted
  <2> QED BY <2>2, <2>3, <2>4
<1>12. ForksKept(u)'
  <2> SUFFICES ASSUME NEW q \in Pid, NEW c, c = forking'[q], c # 0 PROVE ForkKept(u, q, c)'
    BY DEF ForksKept
  <2>1. q # p /\ forking[q] = c /\ ForkKept(t, q, c)
    BY <1>6, <1>8 DEF ForksKept
  <2>2. t.conf \subseteq u.conf /\ (c \in u.inh => c \in t.inh \/ c = child)
    BY <1>10
  <2>3. c = child => c \in t.conf
    BY <1>1, <2>1 DEF ForkKept
  <2>4. c \in u.inh => c \in u.conf
    BY <2>1, <2>2, <2>3 DEF ForkKept
  <2>5. c \in live' /\ c \notin u.conf => Kin(q, c)'
    BY <1>6, <2>1, <2>2 DEF ForkKept, Kin
  <2>6. \A r \in Pid \ {q} : forking'[r] = c => c \in u.conf
    BY <1>6, <2>1, <2>2 DEF ForkKept
  <2> QED BY <1>6, <2>1, <2>4, <2>5, <2>6 DEF ForkKept
<1>13. Hit(t, ev)
  <2>1. Synced(t.st[p])
    BY <1>8 DEF IsForecast
  <2> QED BY <1>2, <1>9, <2>1 DEF Hit
<1>14. PICK g : /\ IsChain(g, Append(queue, ev), Now) /\ Hits(g, Append(queue, ev))
                /\ g[Len(Append(queue, ev))] = u
  BY <1>4, <1>7, <1>13, TypeQueue, Foresees DEF Foretold
<1>15. Now' = Now
  BY <1>6 DEF Now
<1> QED BY <1>5, <1>11, <1>12, <1>14, <1>15 DEF Foretold

\* A process exits and leaves no event.
LEMMA ExitStep ==
    ASSUME TypeInv, NEW f, Foretold(f), NEW p \in Pid, Exit(p)
    PROVE  Foretold(f)'
<1>1. /\ forking[p] = 0 /\ live' = live \ {p}
      /\ UNCHANGED <<stateByPID, inherited, forking, confused, cwd, queue, lost, fdTable>>
  BY DEF Exit, CanCall, filterVars, historyVars
<1> QED BY <1>1, SilentStep
-----------------------------------------------------------------------------
(***************************************************************************)
(* What the handlers do to the paths and the directory.                    *)
(***************************************************************************)
\* What remembering the working directory changes.
LEMMA CacheEffect ==
    ASSUME NEW s, Synced(s), NEW ev, NEW i, NEW at
    PROVE  LET r == CacheCwd(s, ev, i, at) IN
           /\ Synced(r) /\ r.fdPaths = s.fdPaths /\ r.trackedFDs = s.trackedFDs
           /\ r.cwd = IF UsesCwd(ev, i) /\ s.cwd = NoPath THEN at ELSE s.cwd
           /\ CacheCwd(r, ev, i, at) = r
<1> DEFINE r == CacheCwd(s, ev, i, at)
<1>1. CASE UsesCwd(ev, i) /\ s.cwd = NoPath
  <2>1. r = [s EXCEPT !.cwd = at]
    BY <1>1 DEF CacheCwd
  <2>2. r.fdPaths = s.fdPaths /\ r.trackedFDs = s.trackedFDs /\ r.cwd = at
    BY <2>1 DEF Synced, IsState
  <2>3. [r EXCEPT !.cwd = at] = r
    BY <2>1 DEF Synced, IsState
  <2> HIDE DEF r
  <2>4. CacheCwd(r, ev, i, at) = r
    BY <2>3 DEF CacheCwd
  <2> QED BY <1>1, <2>2, <2>4, CacheSynced DEF r
<1>2. CASE ~(UsesCwd(ev, i) /\ s.cwd = NoPath)
  BY <1>2 DEF CacheCwd
<1> QED BY <1>1, <1>2

\* What observeOpen changes.
LEMMA OpenEffect ==
    ASSUME NEW s, Synced(s), NEW ev, NEW i, NEW at, ev.ret \in Fd
    PROVE  LET r == CacheCwd(s, ev, i, at)
               path == ResolvePathAt(r, ev, i)
               new == ObserveOpen(s, ev, i, at)
           IN /\ new.cwd = r.cwd
              /\ \A fd \in Fd : new.fdPaths[fd] = IF fd = ev.ret /\ path # NoPath THEN path
                                                  ELSE s.fdPaths[fd]
<1> DEFINE r == CacheCwd(s, ev, i, at)
           path == ResolvePathAt(r, ev, i)
           new == ObserveOpen(s, ev, i, at)
<1>1. Synced(r) /\ r.fdPaths = s.fdPaths
  BY CacheEffect
<1>2. new = IF path = NoPath THEN r ELSE AssignFD(r, ev.ret, path)
  BY DEF ObserveOpen
<1> HIDE DEF r, path, new
<1>3. /\ AssignFD(r, ev.ret, path).fdPaths = [r.fdPaths EXCEPT ![ev.ret] = path]
      /\ AssignFD(r, ev.ret, path).cwd = r.cwd
  BY <1>1, AssignSynced DEF AssignFD
<1>4. \A fd \in Fd : [r.fdPaths EXCEPT ![ev.ret] = path][fd] = IF fd = ev.ret THEN path ELSE r.fdPaths[fd]
  BY <1>1 DEF Synced, IsState
<1>5. new.cwd = r.cwd
  BY <1>2, <1>3
<1>6. \A fd \in Fd : new.fdPaths[fd] = IF fd = ev.ret /\ path # NoPath THEN path ELSE s.fdPaths[fd]
  BY <1>1, <1>2, <1>3, <1>4
<1> QED BY <1>5, <1>6 DEF r, path, new

\* What setFDPath changes.
LEMMA AssignEffect ==
    ASSUME NEW s, Synced(s), NEW fd \in Fd, NEW path
    PROVE  /\ AssignFD(s, fd, path).cwd = s.cwd
           /\ \A n \in Fd :
                AssignFD(s, fd, path).fdPaths[n] = IF n = fd THEN path ELSE s.fdPaths[n]
<1>1. AssignFD(s, fd, path).fdPaths = [s.fdPaths EXCEPT ![fd] = path]
  BY AssignSynced
<1> QED BY <1>1 DEF AssignFD, Synced, IsState

\* What unsetFDPath changes.
LEMMA ClearEffect ==
    ASSUME NEW s, Synced(s), NEW fd
    PROVE  /\ ClearFD(s, fd).cwd = s.cwd
           /\ \A n \in Fd : ClearFD(s, fd).fdPaths[n] = IF n = fd THEN NoPath ELSE s.fdPaths[n]
BY DEF ClearFD, Synced, IsState

\* Tracking a descriptor changes no path.
LEMMA TrackEffect ==
    ASSUME NEW s, IsState(s), NEW fd
    PROVE  TrackFD(s, fd).cwd = s.cwd /\ TrackFD(s, fd).fdPaths = s.fdPaths
BY DEF TrackFD, IsState

\* What dup and fcntl's F_DUPFD change.
LEMMA DupEffect ==
    ASSUME NEW s, Synced(s), NEW ev, ev.ret \in Fd
    PROVE  LET path == FdPath(s, ev.fd[0])
               dup == ObserveDupRet(s, ev)
               fcntl == ObserveFcntl(s, ev)
           IN /\ dup.cwd = s.cwd /\ fcntl.cwd = s.cwd
              /\ \A n \in Fd :
                    /\ dup.fdPaths[n] = IF n = ev.ret /\ path # NoPath THEN path ELSE s.fdPaths[n]
                    /\ fcntl.fdPaths[n] = IF n = ev.ret /\ path \in TracePaths THEN path
                                          ELSE s.fdPaths[n]
<1> DEFINE path == FdPath(s, ev.fd[0])
           copied == IF path # NoPath THEN AssignFD(s, ev.ret, path) ELSE s
           dup == ObserveDupRet(s, ev)
           fcntl == ObserveFcntl(s, ev)
<1>1. Synced(copied) /\ copied.cwd = s.cwd
      /\ \A n \in Fd : copied.fdPaths[n] = IF n = ev.ret /\ path # NoPath THEN path ELSE s.fdPaths[n]
  <2> HIDE DEF path
  <2>1. CASE path = NoPath
    BY <2>1
  <2>2. CASE path # NoPath
    <3>1. copied = AssignFD(s, ev.ret, path)
      BY <2>2
    <3>2. /\ AssignFD(s, ev.ret, path).cwd = s.cwd
          /\ \A n \in Fd :
                AssignFD(s, ev.ret, path).fdPaths[n] = IF n = ev.ret THEN path ELSE s.fdPaths[n]
      BY AssignEffect
    <3>3. Synced(AssignFD(s, ev.ret, path))
      BY AssignSynced
    <3> HIDE DEF copied
    <3> QED BY <2>2, <3>1, <3>2, <3>3
  <2> QED BY <2>1, <2>2
<1>2. dup = IF ev.fd[0] \in copied.trackedFDs THEN TrackFD(copied, ev.ret) ELSE copied
  BY DEF ObserveDupRet
<1>3. fcntl = IF ev.fd[0] \in s.trackedFDs THEN TrackFD(copied, ev.ret) ELSE s
  BY DEF ObserveFcntl
<1>4. ev.fd[0] \in s.trackedFDs <=> path \in TracePaths
  BY PathAssumption DEF Synced, FdPath
<1> HIDE DEF path, copied, dup, fcntl
<1>5. TrackFD(copied, ev.ret).cwd = copied.cwd /\ TrackFD(copied, ev.ret).fdPaths = copied.fdPaths
  BY <1>1, TrackEffect DEF Synced
<1>6. dup.cwd = s.cwd /\ fcntl.cwd = s.cwd
  BY <1>1, <1>2, <1>3, <1>5
<1>7. \A n \in Fd : dup.fdPaths[n] = IF n = ev.ret /\ path # NoPath THEN path ELSE s.fdPaths[n]
  BY <1>1, <1>2, <1>5
<1>8. \A n \in Fd : fcntl.fdPaths[n] = IF n = ev.ret /\ path \in TracePaths THEN path ELSE s.fdPaths[n]
  BY <1>1, <1>3, <1>4, <1>5, PathAssumption
<1> QED BY <1>6, <1>7, <1>8 DEF path, dup, fcntl

\* What dup2 changes.
LEMMA DupPairEffect ==
    ASSUME NEW s, Synced(s), NEW ev, ev.fd[1] \in Fd
    PROVE  LET path == FdPath(s, ev.fd[0])
               new == ObserveDupPair(s, ev)
           IN /\ new.cwd = s.cwd
              /\ \A n \in Fd : new.fdPaths[n] = IF n = ev.fd[1] THEN path ELSE s.fdPaths[n]
<1> DEFINE path == FdPath(s, ev.fd[0])
           copied == IF path # NoPath THEN AssignFD(s, ev.fd[1], path) ELSE ClearFD(s, ev.fd[1])
           new == ObserveDupPair(s, ev)
<1>1. Synced(copied) /\ copied.cwd = s.cwd
      /\ \A n \in Fd : copied.fdPaths[n] = IF n = ev.fd[1] THEN path ELSE s.fdPaths[n]
  <2> HIDE DEF path
  <2>1. CASE path = NoPath
    BY <2>1, ClearSynced, ClearEffect
  <2>2. CASE path # NoPath
    <3>1. copied = AssignFD(s, ev.fd[1], path)
      BY <2>2
    <3>2. /\ AssignFD(s, ev.fd[1], path).cwd = s.cwd
          /\ \A n \in Fd :
                AssignFD(s, ev.fd[1], path).fdPaths[n] = IF n = ev.fd[1] THEN path ELSE s.fdPaths[n]
      BY AssignEffect
    <3>3. Synced(AssignFD(s, ev.fd[1], path))
      BY AssignSynced
    <3> HIDE DEF copied
    <3> QED BY <3>1, <3>2, <3>3
  <2> QED BY <2>1, <2>2
<1>2. new = IF ev.fd[0] \in copied.trackedFDs THEN TrackFD(copied, ev.fd[1])
            ELSE [copied EXCEPT !.trackedFDs = @ \ {ev.fd[1]}]
  BY DEF ObserveDupPair
<1> HIDE DEF path, copied, new
<1>3. /\ TrackFD(copied, ev.fd[1]).cwd = copied.cwd
      /\ TrackFD(copied, ev.fd[1]).fdPaths = copied.fdPaths
  BY <1>1, TrackEffect DEF Synced
<1>4. LET untracked == [copied EXCEPT !.trackedFDs = @ \ {ev.fd[1]}]
      IN untracked.cwd = copied.cwd /\ untracked.fdPaths = copied.fdPaths
  BY <1>1 DEF Synced, IsState
<1>5. new.cwd = copied.cwd /\ new.fdPaths = copied.fdPaths
  BY <1>2, <1>3, <1>4
<1> QED BY <1>1, <1>5 DEF path, new

\* Of two synchronised states what the paths and the directory are decides.
LEMMA SameState ==
    ASSUME NEW s, Synced(s), NEW t, Synced(t), s.cwd = t.cwd,
           \A fd \in Fd : s.fdPaths[fd] = t.fdPaths[fd]
    PROVE  s = t
<1>1. s.fdPaths = t.fdPaths
  BY DEF Synced, IsState
<1>2. s.trackedFDs = t.trackedFDs
  BY <1>1 DEF Synced
<1> QED BY <1>1, <1>2 DEF Synced, IsState
-----------------------------------------------------------------------------
(***************************************************************************)
(* What matchesPath and hasTrackedFDArg look at.                           *)
(***************************************************************************)
\* A call without path arguments matches no path.
LEMMA NoArg ==
    ASSUME NEW s, NEW ev, PathArgs(ev.id) = <<>>
    PROVE  Matched(s, ev) = s /\ \A m : ~MatchesPath(m, ev)
BY DEF Matched, AfterMatch, MatchesPath

\* A call with one path argument matches if that one does.
LEMMA OneArg ==
    ASSUME NEW s, NEW ev, NEW x, PathArgs(ev.id) = <<x>>
    PROVE  /\ Matched(s, ev) = IF UserAllows(ev.id) THEN CacheCwd(s, ev, x, ev.at) ELSE s
           /\ \A m : MatchesPath(m, ev) <=> ResolvePathAt(m, ev, x) \in TracePaths
<1>1. Len(PathArgs(ev.id)) = 1 /\ PathArgs(ev.id)[1] = x /\ PathArgs(ev.id) # <<>>
  OBVIOUS
<1>2. Matched(s, ev) = IF UserAllows(ev.id) THEN CacheCwd(s, ev, x, ev.at) ELSE s
  BY <1>1 DEF Matched, AfterMatch
<1>3. \A m : MatchesPath(m, ev) <=> ResolvePathAt(m, ev, x) \in TracePaths
  BY <1>1 DEF MatchesPath, MatchesPathAt
<1> QED BY <1>2, <1>3

\* A descriptor argument is tracked if and only if its path is traced.
LEMMA TrackedArg ==
    ASSUME NEW m, Synced(m), NEW ev
    PROVE  HasTrackedFDArg(m, ev) <=> \E i \in EventFdArgs(ev.id) : FdPath(m, ev.fd[i]) \in TracePaths
BY PathAssumption DEF HasTrackedFDArg, FdPath, Synced

\* There are six arguments.
LEMMA EventFdArgsType ==
    ASSUME NEW id
    PROVE  EventFdArgs(id) \subseteq 0..5
BY DEF EventFdArgs, FdArgs

-----------------------------------------------------------------------------
(***************************************************************************)
(* Two events of one process that do not depend on each other.             *)
(***************************************************************************)
LocalIds == UseIds \cup {"open", "openat", "newstat", "newfstatat", "close", "dup", "dup2",
                         "fcntl_dupfd"}

\* Where relative paths start from, once an event of the process is handled.
From(s, at) == IF s.cwd = NoPath THEN at ELSE s.cwd

\* The states agree on all that the event depends on.
SameBasis(s, t, ev) ==
    /\ From(s, ev.at) = From(t, ev.at)
    /\ \A fd \in Fd \cap Descriptors(ev) : s.fdPaths[fd] = t.fdPaths[fd]

\* fork has no row in the table of schemas.
LEMMA ForkListed == "fork" \notin Listed
<1>1. \A row \in FileAndSocketRows \cup ProcessAndPathRows : "fork" \notin row.calls
  BY DEF FileAndSocketRows, ProcessAndPathRows, Row
<1>2. \A row \in SystemRows \cup QueueAndAtRows : "fork" \notin row.calls
  BY DEF SystemRows, QueueAndAtRows, Row
<1>3. \A row \in DescriptorRows \cup RecentRows : "fork" \notin row.calls
  BY DEF DescriptorRows, RecentRows, Row
<1> QED BY <1>1, <1>2, <1>3 DEF Listed, syscall_schemas

\* A call that is only looked at has no path argument and no handler.
LEMMA UseId ==
    ASSUME NEW id \in UseIds
    PROVE  PathArgs(id) = <<>> /\ id # "fork" /\ id \notin SupportIds
<1>1. id \notin SupportIds /\ id \in Listed
  BY DEF UseIds
<1> QED BY <1>1, ForkListed, PathArgsOf DEF SupportIds

\* The path arguments of the calls that can be independent.
LEMMA LocalArgs ==
    ASSUME NEW id \in LocalIds
    PROVE  /\ id \in {"open", "newstat"} => PathArgs(id) = <<0>>
           /\ id \in {"openat", "newfstatat"} => PathArgs(id) = <<1>>
           /\ id \notin {"open", "newstat", "openat", "newfstatat"} => PathArgs(id) = <<>>
           /\ id # "fork"
BY UseId, PathArgsOf DEF LocalIds

\* States of one basis agree on the event's descriptors.
LEMMA DescriptorPaths ==
    ASSUME NEW s, NEW t, NEW ev, SameBasis(s, t, ev), NEW i \in 0..5
    PROVE  FdPath(s, ev.fd[i]) = FdPath(t, ev.fd[i])
<1>1. ev.fd[i] \in Descriptors(ev)
  BY DEF Descriptors
<1> QED BY <1>1 DEF FdPath, SameBasis

\* From states of one basis, a path argument resolves alike.
LEMMA ResolveAlike ==
    ASSUME NEW s, Synced(s), NEW t, Synced(t), NEW ev, SameBasis(s, t, ev), NEW i
    PROVE  ResolvePathAt(CacheCwd(s, ev, i, ev.at), ev, i) = ResolvePathAt(CacheCwd(t, ev, i, ev.at), ev, i)
<1> DEFINE r == CacheCwd(s, ev, i, ev.at)
           q == CacheCwd(t, ev, i, ev.at)
           b == BaseFdArg(ev.id, i)
<1>1. /\ r.fdPaths = s.fdPaths /\ q.fdPaths = t.fdPaths
      /\ r.cwd = IF UsesCwd(ev, i) /\ s.cwd = NoPath THEN ev.at ELSE s.cwd
      /\ q.cwd = IF UsesCwd(ev, i) /\ t.cwd = NoPath THEN ev.at ELSE t.cwd
  BY CacheEffect
<1>2. b = -1 \/ b \in 0..5
  BY DEF BaseFdArg
<1> HIDE DEF r, q
<1>3. CASE ev.path[i] = NoPath \/ ev.path[i].abs
  BY <1>3 DEF ResolvePathAt
<1>4. CASE ev.path[i] # NoPath /\ ~ev.path[i].abs
  <2>0. \A m : ResolvePathAt(m, ev, i) = IF Base(m, ev, i) = NoPath THEN NoPath
                                         ELSE Join(Base(m, ev, i), ev.path[i].comps)
    BY <1>4 DEF ResolvePathAt
  <2>1. CASE UsesCwd(ev, i)
    <3>1. r.cwd = q.cwd
      BY <1>1, <2>1 DEF SameBasis, From
    <3>2. Base(r, ev, i) = Base(q, ev, i)
      BY <2>1, <3>1 DEF Base
    <3> QED BY <2>0, <3>2 DEF r, q
  <2>2. CASE ~UsesCwd(ev, i)
    <3>1. b \in 0..5
      BY <1>2, <1>4, <2>2 DEF UsesCwd
    <3>2. FdPath(s, ev.fd[b]) = FdPath(t, ev.fd[b])
      BY <3>1, DescriptorPaths
    <3>3. FdPath(r, ev.fd[b]) = FdPath(q, ev.fd[b])
      BY <1>1, <3>2 DEF FdPath
    <3>4. Base(r, ev, i) = Base(q, ev, i)
      BY <2>2, <3>3 DEF Base
    <3> QED BY <2>0, <3>4 DEF r, q
  <2> QED BY <2>1, <2>2
<1> QED BY <1>3, <1>4 DEF r, q

\* From states of one basis, an event is printed alike.
LEMMA LocalPrinted ==
    ASSUME NEW s, Synced(s), NEW t, Synced(t), NEW ev, ev.id \in LocalIds, SameBasis(s, t, ev)
    PROVE  Printed(s, ev) <=> Printed(t, ev)
<1> DEFINE m == Matched(s, ev)
           n == Matched(t, ev)
<1>1. CASE ~UserAllows(ev.id)
  BY <1>1 DEF Printed, ShouldPrint
<1>2. ASSUME Synced(m), Synced(n), m.fdPaths = s.fdPaths, n.fdPaths = t.fdPaths
      PROVE  HasTrackedFDArg(m, ev) <=> HasTrackedFDArg(n, ev)
  <2> HIDE DEF m, n
  <2>1. \A i \in EventFdArgs(ev.id) : FdPath(m, ev.fd[i]) = FdPath(n, ev.fd[i])
    BY <1>2, DescriptorPaths, EventFdArgsType DEF FdPath
  <2> QED BY <1>2, <2>1, TrackedArg
<1>3. CASE UserAllows(ev.id) /\ PathArgs(ev.id) = <<>>
  <2>1. m = s /\ n = t /\ ~MatchesPath(m, ev) /\ ~MatchesPath(n, ev)
    BY <1>3, NoArg
  <2>2. HasTrackedFDArg(m, ev) <=> HasTrackedFDArg(n, ev)
    BY <1>2, <2>1
  <2> QED BY <2>1, <2>2 DEF Printed, ShouldPrint
<1>4. ASSUME UserAllows(ev.id), NEW x, PathArgs(ev.id) = <<x>>
      PROVE  Printed(s, ev) <=> Printed(t, ev)
  <2>1. /\ m = CacheCwd(s, ev, x, ev.at) /\ n = CacheCwd(t, ev, x, ev.at)
        /\ MatchesPath(m, ev) <=> ResolvePathAt(m, ev, x) \in TracePaths
        /\ MatchesPath(n, ev) <=> ResolvePathAt(n, ev, x) \in TracePaths
    BY <1>4, OneArg
  <2>2. MatchesPath(m, ev) <=> MatchesPath(n, ev)
    BY <2>1, ResolveAlike
  <2>3. Synced(m) /\ Synced(n) /\ m.fdPaths = s.fdPaths /\ n.fdPaths = t.fdPaths
    BY <2>1, CacheEffect
  <2>4. HasTrackedFDArg(m, ev) <=> HasTrackedFDArg(n, ev)
    BY <1>2, <2>3
  <2> QED BY <2>2, <2>4 DEF Printed, ShouldPrint
<1> QED BY <1>1, <1>3, <1>4, LocalArgs
\* matchesPath may have cached the directory that observeOpen looks up again.
LEMMA OpenHandled ==
    ASSUME NEW s, Synced(s), NEW ev, NEW x, PathArgs(ev.id) = <<x>>
    PROVE  ObserveOpen(Matched(s, ev), ev, x, ev.at) = ObserveOpen(s, ev, x, ev.at)
<1>1. CASE Matched(s, ev) = s
  BY <1>1
<1>2. CASE Matched(s, ev) = CacheCwd(s, ev, x, ev.at)
  <2>1. CacheCwd(CacheCwd(s, ev, x, ev.at), ev, x, ev.at) = CacheCwd(s, ev, x, ev.at)
    BY CacheEffect
  <2> QED BY <1>2, <2>1 DEF ObserveOpen
<1> QED BY <1>1, <1>2, OneArg

\* What observe does with a call that can be independent of another.
LEMMA LocalHandled ==
    ASSUME NEW s, Synced(s), NEW ev, WellFormed(ev), ev.id \in LocalIds
    PROVE  /\ ev.ret < 0 \/ ev.id \in UseIds \cup {"newstat", "newfstatat"}
                => Handled(s, ev) = Matched(s, ev)
           /\ ev.ret >= 0 =>
                /\ ev.id = "open" => Handled(s, ev) = ObserveOpen(s, ev, 0, ev.at)
                /\ ev.id = "openat" => Handled(s, ev) = ObserveOpen(s, ev, 1, ev.at)
                /\ ev.id = "dup" => Handled(s, ev) = ObserveDupRet(s, ev)
                /\ ev.id = "dup2" => Handled(s, ev) = ObserveDupPair(s, ev)
                /\ ev.id = "fcntl_dupfd" => Handled(s, ev) = ObserveFcntl(s, ev)
                /\ ev.id = "close" => Handled(s, ev) = ObserveClose(s, ev)
<1>1. ASSUME ev.ret < 0 \/ ev.id \in UseIds \cup {"newstat", "newfstatat"}
      PROVE  Handled(s, ev) = Matched(s, ev)
  <2>1. CASE ev.ret < 0
    BY <2>1 DEF Handled, ObserveCall, WellFormed
  <2>2. CASE ev.ret >= 0 /\ ev.id \in UseIds \cup {"newstat", "newfstatat"}
    <3>1. ev.id \notin {"open", "openat", "dup", "dup2", "fcntl_dupfd", "close", "chdir", "fchdir",
                       "rename", "renameat", "unlink", "unlinkat"}
      BY <2>2, UseId DEF SupportIds
    <3> QED BY <2>2, <3>1 DEF Handled, ObserveCall
  <2> QED BY <1>1, <2>1, <2>2 DEF WellFormed
<1>2. ASSUME ev.ret >= 0, ev.id \in {"dup", "dup2", "fcntl_dupfd", "close"}
      PROVE  Handled(s, ev) = ObserveCall(s, ev, ev.at)
  BY <1>2, NoArg, LocalArgs DEF Handled
<1>3. ASSUME ev.ret >= 0, ev.id = "open" PROVE Handled(s, ev) = ObserveOpen(s, ev, 0, ev.at)
  <2>1. Handled(s, ev) = ObserveOpen(Matched(s, ev), ev, 0, ev.at)
    BY <1>3 DEF Handled, ObserveCall
  <2> QED BY <1>3, <2>1, LocalArgs, OpenHandled
<1>4. ASSUME ev.ret >= 0, ev.id = "openat" PROVE Handled(s, ev) = ObserveOpen(s, ev, 1, ev.at)
  <2>1. Handled(s, ev) = ObserveOpen(Matched(s, ev), ev, 1, ev.at)
    BY <1>4 DEF Handled, ObserveCall
  <2> QED BY <1>4, <2>1, LocalArgs, OpenHandled
<1>5. ASSUME ev.ret >= 0
      PROVE  /\ ev.id = "dup" => ObserveCall(s, ev, ev.at) = ObserveDupRet(s, ev)
             /\ ev.id = "dup2" => ObserveCall(s, ev, ev.at) = ObserveDupPair(s, ev)
             /\ ev.id = "fcntl_dupfd" => ObserveCall(s, ev, ev.at) = ObserveFcntl(s, ev)
             /\ ev.id = "close" => ObserveCall(s, ev, ev.at) = ObserveClose(s, ev)
  BY <1>5 DEF ObserveCall
<1> QED BY <1>1, <1>2, <1>3, <1>4, <1>5

\* The event caches the working directory, if none is known.
Caches(ev) ==
    \E x \in {0, 1} : /\ PathArgs(ev.id) = <<x>> /\ UsesCwd(ev, x)
                      /\ UserAllows(ev.id) \/ (ev.ret >= 0 /\ ev.id \in {"open", "openat"})

\* Matching changes the working directory at most.
LEMMA MatchedEffect ==
    ASSUME NEW s, Synced(s), NEW ev, ev.id \in LocalIds
    PROVE  /\ Matched(s, ev).fdPaths = s.fdPaths
           /\ Matched(s, ev).cwd = IF UserAllows(ev.id) /\ Caches(ev) /\ s.cwd = NoPath
                                   THEN ev.at ELSE s.cwd
<1>1. CASE PathArgs(ev.id) = <<>>
  <2>1. ~Caches(ev)
    BY <1>1 DEF Caches
  <2> QED BY <1>1, <2>1, NoArg
<1>2. ASSUME NEW x \in {0, 1}, PathArgs(ev.id) = <<x>>
      PROVE  /\ Matched(s, ev).fdPaths = s.fdPaths
             /\ Matched(s, ev).cwd = IF UserAllows(ev.id) /\ Caches(ev) /\ s.cwd = NoPath
                                     THEN ev.at ELSE s.cwd
  <2>1. Matched(s, ev) = IF UserAllows(ev.id) THEN CacheCwd(s, ev, x, ev.at) ELSE s
    BY <1>2, OneArg
  <2>2. \A y : <<x>> = <<y>> => x = y
    OBVIOUS
  <2>3. UserAllows(ev.id) => (Caches(ev) <=> UsesCwd(ev, x))
    BY <1>2, <2>2 DEF Caches
  <2>4. LET r == CacheCwd(s, ev, x, ev.at)
        IN /\ r.fdPaths = s.fdPaths
           /\ r.cwd = IF UsesCwd(ev, x) /\ s.cwd = NoPath THEN ev.at ELSE s.cwd
    BY CacheEffect
  <2> QED BY <2>1, <2>3, <2>4
<1> QED BY <1>1, <1>2, LocalArgs

\* An open changes its own descriptor, by what the state's basis says.
LEMMA OpenLocal ==
    ASSUME NEW s, Synced(s), NEW t, Synced(t), NEW ev, WellFormed(ev), ev.ret >= 0,
           NEW x \in {0, 1}, PathArgs(ev.id) = <<x>>, ev.id \in {"open", "openat"}
    PROVE  LET new == ObserveOpen(s, ev, x, ev.at)
               other == ObserveOpen(t, ev, x, ev.at)
           IN /\ new.cwd = IF Caches(ev) /\ s.cwd = NoPath THEN ev.at ELSE s.cwd
              /\ \A fd \in Fd \ Descriptors(ev) : new.fdPaths[fd] = s.fdPaths[fd]
              /\ SameBasis(s, t, ev) =>
                    \A fd \in Fd \cap Descriptors(ev) : new.fdPaths[fd] = other.fdPaths[fd]
<1> DEFINE new == ObserveOpen(s, ev, x, ev.at)
           other == ObserveOpen(t, ev, x, ev.at)
           r == CacheCwd(s, ev, x, ev.at)
           q == CacheCwd(t, ev, x, ev.at)
<1>1. ev.ret \in Fd /\ ev.ret \in Descriptors(ev)
  BY DEF WellFormed, Descriptors
<1>2. /\ new.cwd = r.cwd
      /\ \A fd \in Fd : new.fdPaths[fd] = IF fd = ev.ret /\ ResolvePathAt(r, ev, x) # NoPath
                                          THEN ResolvePathAt(r, ev, x) ELSE s.fdPaths[fd]
  BY <1>1, OpenEffect
<1>3. \A fd \in Fd : other.fdPaths[fd] = IF fd = ev.ret /\ ResolvePathAt(q, ev, x) # NoPath
                                         THEN ResolvePathAt(q, ev, x) ELSE t.fdPaths[fd]
  BY <1>1, OpenEffect
<1>4. \A y : <<x>> = <<y>> => x = y
  OBVIOUS
<1>5. Caches(ev) <=> UsesCwd(ev, x)
  BY <1>4 DEF Caches
<1>6. r.cwd = IF UsesCwd(ev, x) /\ s.cwd = NoPath THEN ev.at ELSE s.cwd
  BY CacheEffect
<1>7. SameBasis(s, t, ev) => ResolvePathAt(r, ev, x) = ResolvePathAt(q, ev, x)
  BY ResolveAlike
<1> HIDE DEF new, other, r, q
<1>8. \A fd \in Fd \ Descriptors(ev) : new.fdPaths[fd] = s.fdPaths[fd]
  BY <1>1, <1>2
<1>9. SameBasis(s, t, ev) => \A fd \in Fd \cap Descriptors(ev) : new.fdPaths[fd] = other.fdPaths[fd]
  BY <1>2, <1>3, <1>7 DEF SameBasis
<1> QED BY <1>2, <1>5, <1>6, <1>8, <1>9 DEF new, other

\* A duplicate does too.
LEMMA DupLocal ==
    ASSUME NEW s, Synced(s), NEW t, Synced(t), NEW ev, WellFormed(ev), ev.ret >= 0,
           ev.id \in {"dup", "dup2", "fcntl_dupfd", "close"}
    PROVE  LET new == Handled(s, ev)
               other == Handled(t, ev)
           IN /\ new.cwd = s.cwd
              /\ \A fd \in Fd \ Descriptors(ev) : new.fdPaths[fd] = s.fdPaths[fd]
              /\ SameBasis(s, t, ev) =>
                    \A fd \in Fd \cap Descriptors(ev) : new.fdPaths[fd] = other.fdPaths[fd]
<1> DEFINE new == Handled(s, ev)
           other == Handled(t, ev)
           path == FdPath(s, ev.fd[0])
           path2 == FdPath(t, ev.fd[0])
<1>0. ev.id \in LocalIds
  BY DEF LocalIds
<1>1. /\ ev.id \in {"dup", "fcntl_dupfd"} => ev.ret \in Fd /\ ev.ret \in Descriptors(ev)
      /\ ev.id = "dup2" => ev.fd[1] \in Fd
      /\ ev.fd[1] \in Descriptors(ev) /\ ev.fd[0] \in Descriptors(ev)
  BY DEF WellFormed, Descriptors
<1>2. SameBasis(s, t, ev) => path = path2
  BY DescriptorPaths
<1>3. CASE ev.id = "dup"
  <2>1. /\ new.cwd = s.cwd
        /\ \A n \in Fd : new.fdPaths[n] = IF n = ev.ret /\ path # NoPath THEN path ELSE s.fdPaths[n]
        /\ \A n \in Fd : other.fdPaths[n] = IF n = ev.ret /\ path2 # NoPath THEN path2 ELSE t.fdPaths[n]
    BY <1>0, <1>1, <1>3, LocalHandled, DupEffect
  <2> HIDE DEF new, other, path, path2
  <2>2. /\ \A fd \in Fd \ Descriptors(ev) : new.fdPaths[fd] = s.fdPaths[fd]
        /\ SameBasis(s, t, ev) => \A fd \in Fd \cap Descriptors(ev) : new.fdPaths[fd] = other.fdPaths[fd]
    BY <1>1, <1>2, <1>3, <2>1 DEF SameBasis
  <2> QED BY <2>1, <2>2 DEF new, other
<1>4. CASE ev.id = "fcntl_dupfd"
  <2>1. /\ new.cwd = s.cwd
        /\ \A n \in Fd : new.fdPaths[n] = IF n = ev.ret /\ path \in TracePaths THEN path ELSE s.fdPaths[n]
        /\ \A n \in Fd : other.fdPaths[n] = IF n = ev.ret /\ path2 \in TracePaths THEN path2
                                            ELSE t.fdPaths[n]
    BY <1>0, <1>1, <1>4, LocalHandled, DupEffect
  <2> HIDE DEF new, other, path, path2
  <2>2. /\ \A fd \in Fd \ Descriptors(ev) : new.fdPaths[fd] = s.fdPaths[fd]
        /\ SameBasis(s, t, ev) => \A fd \in Fd \cap Descriptors(ev) : new.fdPaths[fd] = other.fdPaths[fd]
    BY <1>1, <1>2, <1>4, <2>1 DEF SameBasis
  <2> QED BY <2>1, <2>2 DEF new, other
<1>5. CASE ev.id = "dup2"
  <2>1. /\ new.cwd = s.cwd
        /\ \A n \in Fd : new.fdPaths[n] = IF n = ev.fd[1] THEN path ELSE s.fdPaths[n]
        /\ \A n \in Fd : other.fdPaths[n] = IF n = ev.fd[1] THEN path2 ELSE t.fdPaths[n]
    BY <1>0, <1>1, <1>5, LocalHandled, DupPairEffect
  <2> HIDE DEF new, other, path, path2
  <2>2. /\ \A fd \in Fd \ Descriptors(ev) : new.fdPaths[fd] = s.fdPaths[fd]
        /\ SameBasis(s, t, ev) => \A fd \in Fd \cap Descriptors(ev) : new.fdPaths[fd] = other.fdPaths[fd]
    BY <1>1, <1>2, <1>5, <2>1 DEF SameBasis
  <2> QED BY <2>1, <2>2 DEF new, other
<1>6. CASE ev.id = "close"
  <2>1. /\ new.cwd = s.cwd
        /\ \A n \in Fd : new.fdPaths[n] = IF n = ev.fd[0] THEN NoPath ELSE s.fdPaths[n]
        /\ \A n \in Fd : other.fdPaths[n] = IF n = ev.fd[0] THEN NoPath ELSE t.fdPaths[n]
    BY <1>0, <1>6, LocalHandled, ClearEffect DEF ObserveClose
  <2> HIDE DEF new, other
  <2>2. /\ \A fd \in Fd \ Descriptors(ev) : new.fdPaths[fd] = s.fdPaths[fd]
        /\ SameBasis(s, t, ev) => \A fd \in Fd \cap Descriptors(ev) : new.fdPaths[fd] = other.fdPaths[fd]
    BY <1>1, <1>6, <2>1 DEF SameBasis
  <2> QED BY <2>1, <2>2 DEF new, other
<1> QED BY <1>3, <1>4, <1>5, <1>6

\* So does every call that can be independent of another.
LEMMA LocalEffect ==
    ASSUME NEW s, Synced(s), NEW t, Synced(t), NEW ev, WellFormed(ev), ev.id \in LocalIds
    PROVE  LET new == Handled(s, ev)
               other == Handled(t, ev)
           IN /\ Synced(new)
              /\ new.cwd = IF Caches(ev) /\ s.cwd = NoPath THEN ev.at ELSE s.cwd
              /\ \A fd \in Fd \ Descriptors(ev) : new.fdPaths[fd] = s.fdPaths[fd]
              /\ SameBasis(s, t, ev) =>
                    \A fd \in Fd \cap Descriptors(ev) : new.fdPaths[fd] = other.fdPaths[fd]
<1> DEFINE new == Handled(s, ev)
           other == Handled(t, ev)
<1>1. Synced(new)
  BY MatchedSynced, CallSynced DEF Matched, Handled
<1>2. CASE ev.ret < 0 \/ ev.id \in UseIds \cup {"newstat", "newfstatat"}
  <2>1. new = Matched(s, ev) /\ other = Matched(t, ev)
    BY <1>2, LocalHandled
  <2>2. /\ new.fdPaths = s.fdPaths /\ other.fdPaths = t.fdPaths
        /\ new.cwd = IF UserAllows(ev.id) /\ Caches(ev) /\ s.cwd = NoPath THEN ev.at ELSE s.cwd
    BY <2>1, MatchedEffect
  <2>3. Caches(ev) => UserAllows(ev.id)
    BY <1>2, UseId DEF Caches, WellFormed, SupportIds
  <2> HIDE DEF new, other
  <2>4. /\ \A fd \in Fd \ Descriptors(ev) : new.fdPaths[fd] = s.fdPaths[fd]
        /\ SameBasis(s, t, ev) => \A fd \in Fd \cap Descriptors(ev) : new.fdPaths[fd] = other.fdPaths[fd]
    BY <2>2 DEF SameBasis
  <2> QED BY <1>1, <2>2, <2>3, <2>4 DEF new, other
<1>3. CASE ev.ret >= 0 /\ ev.id \in {"open", "openat"}
  <2>1. PICK x \in {0, 1} : PathArgs(ev.id) = <<x>> /\ new = ObserveOpen(s, ev, x, ev.at)
                            /\ other = ObserveOpen(t, ev, x, ev.at)
    BY <1>3, LocalHandled, LocalArgs
  <2> QED BY <1>1, <1>3, <2>1, OpenLocal
<1>4. CASE ev.ret >= 0 /\ ev.id \in {"dup", "dup2", "fcntl_dupfd", "close"}
  <2>1. ~Caches(ev)
    BY <1>4, LocalArgs DEF Caches
  <2> QED BY <1>1, <1>4, <2>1, DupLocal
<1> QED BY <1>2, <1>3, <1>4 DEF LocalIds, WellFormed

\* Independent events may be handled in either order.
LEMMA StatesCommute ==
    ASSUME NEW s, Synced(s), NEW a, WellFormed(a), NEW b, WellFormed(b), Independent(a, b),
           a.at = b.at
    PROVE  /\ Handled(Handled(s, b), a) = Handled(Handled(s, a), b)
           /\ Printed(Handled(s, a), b) <=> Printed(s, b)
           /\ Printed(Handled(s, b), a) <=> Printed(s, a)
<1>1. PICK x, y : x = Handled(s, a) /\ y = Handled(s, b)
  OBVIOUS
<1>2. PICK xb, ya : xb = Handled(x, b) /\ ya = Handled(y, a)
  OBVIOUS
<1>3. a.id \in LocalIds /\ b.id \in LocalIds
  BY DEF Independent, LocalIds
<1>4. \A fd \in Fd : ~(fd \in Descriptors(a) /\ fd \in Descriptors(b))
  BY PidAssumption DEF Independent, AT_FDCWD
<1>5. /\ Synced(x) /\ x.cwd = IF Caches(a) /\ s.cwd = NoPath THEN a.at ELSE s.cwd
      /\ \A fd \in Fd \ Descriptors(a) : x.fdPaths[fd] = s.fdPaths[fd]
  BY <1>1, <1>3, LocalEffect
<1>6. /\ Synced(y) /\ y.cwd = IF Caches(b) /\ s.cwd = NoPath THEN b.at ELSE s.cwd
      /\ \A fd \in Fd \ Descriptors(b) : y.fdPaths[fd] = s.fdPaths[fd]
  BY <1>1, <1>3, LocalEffect
<1>7. SameBasis(s, y, a) /\ SameBasis(s, x, b)
  BY <1>4, <1>5, <1>6 DEF SameBasis, From
<1>8. /\ Synced(ya) /\ ya.cwd = IF Caches(a) /\ y.cwd = NoPath THEN a.at ELSE y.cwd
      /\ \A fd \in Fd \ Descriptors(a) : ya.fdPaths[fd] = y.fdPaths[fd]
  BY <1>2, <1>3, <1>6, LocalEffect
<1>9. /\ Synced(xb) /\ xb.cwd = IF Caches(b) /\ x.cwd = NoPath THEN b.at ELSE x.cwd
      /\ \A fd \in Fd \ Descriptors(b) : xb.fdPaths[fd] = x.fdPaths[fd]
  BY <1>2, <1>3, <1>5, LocalEffect
<1>10. \A fd \in Fd \cap Descriptors(a) : x.fdPaths[fd] = ya.fdPaths[fd]
  BY <1>1, <1>2, <1>3, <1>6, <1>7, LocalEffect
<1>11. \A fd \in Fd \cap Descriptors(b) : y.fdPaths[fd] = xb.fdPaths[fd]
  BY <1>1, <1>2, <1>3, <1>5, <1>7, LocalEffect
<1>12. xb.cwd = ya.cwd
  BY <1>5, <1>6, <1>8, <1>9
<1>13. \A fd \in Fd : xb.fdPaths[fd] = ya.fdPaths[fd]
  BY <1>4, <1>5, <1>6, <1>8, <1>9, <1>10, <1>11
<1>14. xb = ya
  BY <1>8, <1>9, <1>12, <1>13, SameState
<1>15. (Printed(x, b) <=> Printed(s, b)) /\ (Printed(y, a) <=> Printed(s, a))
  BY <1>3, <1>5, <1>6, <1>7, LocalPrinted
<1> QED BY <1>1, <1>2, <1>14, <1>15

\* An event of this kind changes its process's state alone.
LEMMA LocalForesee ==
    ASSUME NEW t, IsForecast(t), NEW ev, WellFormed(ev), ev.id \in LocalIds, NEW u,
           u = Foresee(t, ev)
    PROVE  /\ IsForecast(u)
           /\ u.st[ev.pid] = Handled(t.st[ev.pid], ev)
           /\ \A q \in Pid \ {ev.pid} : u.st[q] = t.st[q]
           /\ u.inh = t.inh
           /\ u.conf = t.conf \cup (IF ev.pid \notin t.inh THEN {ev.pid} ELSE {})
<1>1. ChildPID(ev) = {}
  BY LocalArgs DEF ChildPID, WellFormed
<1>2. LET v == Foresee(t, ev)
          unknown == ev.pid \notin t.inh
      IN /\ v.st[ev.pid] = Handled(t.st[ev.pid], ev)
         /\ \A q \in Pid \ {ev.pid} :
               v.st[q] = IF q \in ChildPID(ev) THEN Matched(t.st[ev.pid], ev) ELSE t.st[q]
         /\ v.inh = t.inh \cup ChildPID(ev)
         /\ v.conf = t.conf \cup (IF unknown THEN {ev.pid} ELSE {})
                            \cup (IF ev.pid \in t.conf \/ unknown THEN ChildPID(ev) ELSE {})
  BY ForeseeFields
<1>3. IsForecast(Foresee(t, ev))
  BY ForeseeIs
<1> QED BY <1>1, <1>2, <1>3

\* Two independent events lead to one forecast in either order.
LEMMA ForeseeCommutes ==
    ASSUME NEW t, IsForecast(t), NEW a, WellFormed(a), NEW b, WellFormed(b), a.pid = b.pid,
           Independent(a, b), a.at = b.at
    PROVE  /\ Foresee(Foresee(t, b), a) = Foresee(Foresee(t, a), b)
           /\ Hit(Foresee(t, a), b) => Hit(t, b)
           /\ Hit(t, a) => Hit(Foresee(t, b), a)
<1>1. PICK p, u, v, w, z : /\ p = a.pid /\ u = Foresee(t, a) /\ v = Foresee(t, b)
                           /\ w = Foresee(u, b) /\ z = Foresee(v, a)
  OBVIOUS
<1>2. a.id \in LocalIds /\ b.id \in LocalIds /\ p \in Pid /\ b.pid = p
  BY <1>1 DEF Independent, LocalIds, WellFormed
<1>3. Synced(t.st[p])
  BY <1>2 DEF IsForecast
<1>4. /\ IsForecast(u) /\ u.st[p] = Handled(t.st[p], a) /\ \A q \in Pid \ {p} : u.st[q] = t.st[q]
      /\ u.inh = t.inh /\ u.conf = t.conf \cup (IF p \notin t.inh THEN {p} ELSE {})
  BY <1>1, <1>2, LocalForesee
<1>5. /\ IsForecast(v) /\ v.st[p] = Handled(t.st[p], b) /\ \A q \in Pid \ {p} : v.st[q] = t.st[q]
      /\ v.inh = t.inh /\ v.conf = t.conf \cup (IF p \notin t.inh THEN {p} ELSE {})
  BY <1>1, <1>2, LocalForesee
<1>6. /\ IsForecast(w) /\ w.st[p] = Handled(u.st[p], b) /\ \A q \in Pid \ {p} : w.st[q] = u.st[q]
      /\ w.inh = u.inh /\ w.conf = u.conf \cup (IF p \notin u.inh THEN {p} ELSE {})
  <2>1. IsForecast(u) /\ WellFormed(b) /\ b.id \in LocalIds /\ w = Foresee(u, b) /\ b.pid = p
    BY <1>1, <1>2, <1>4
  <2> QED BY <2>1, LocalForesee
<1>7. /\ IsForecast(z) /\ z.st[p] = Handled(v.st[p], a) /\ \A q \in Pid \ {p} : z.st[q] = v.st[q]
      /\ z.inh = v.inh /\ z.conf = v.conf \cup (IF p \notin v.inh THEN {p} ELSE {})
  <2>1. IsForecast(v) /\ WellFormed(a) /\ a.id \in LocalIds /\ z = Foresee(v, a) /\ a.pid = p
    BY <1>1, <1>2, <1>5
  <2> QED BY <2>1, LocalForesee
<1>8. /\ z.st[p] = w.st[p]
      /\ Printed(u.st[p], b) <=> Printed(t.st[p], b)
      /\ Printed(v.st[p], a) <=> Printed(t.st[p], a)
  BY <1>3, <1>4, <1>5, <1>6, <1>7, StatesCommute
<1>9. \A q \in Pid : z.st[q] = w.st[q]
  BY <1>4, <1>5, <1>6, <1>7, <1>8
<1>10. z.st = w.st
  BY <1>6, <1>7, <1>9 DEF IsForecast
<1>11. z = w
  BY <1>4, <1>5, <1>6, <1>7, <1>10 DEF IsForecast
<1>12. p \in Trusted(t) => p \in Trusted(u)
  BY <1>4 DEF Trusted
<1>13. p \in Trusted(v) => p \in Trusted(t)
  BY <1>5 DEF Trusted
<1>14. Hit(u, b) => Hit(t, b)
  BY <1>2, <1>8, <1>12 DEF Hit
<1>15. Hit(t, a) => Hit(v, a)
  BY <1>1, <1>8, <1>13 DEF Hit
<1> QED BY <1>1, <1>11, <1>14, <1>15

\* What of Foresee the distrusted need.
LEMMA ForeseeBounds ==
    ASSUME NEW t, IsForecast(t), NEW ev, WellFormed(ev), NEW u, u = Foresee(t, ev)
    PROVE  /\ \A q \in Pid \ ({ev.pid} \cup ChildPID(ev)) : u.st[q] = t.st[q]
           /\ u.inh = t.inh \cup ChildPID(ev)
           /\ t.conf \subseteq u.conf /\ u.conf \subseteq t.conf \cup {ev.pid} \cup ChildPID(ev)
           /\ ev.pid \in t.conf => ChildPID(ev) \subseteq u.conf
<1>1. LET v == Foresee(t, ev)
          unknown == ev.pid \notin t.inh
      IN /\ \A q \in Pid \ {ev.pid} :
               v.st[q] = IF q \in ChildPID(ev) THEN Matched(t.st[ev.pid], ev) ELSE t.st[q]
         /\ v.inh = t.inh \cup ChildPID(ev)
         /\ v.conf = t.conf \cup (IF unknown THEN {ev.pid} ELSE {})
                            \cup (IF ev.pid \in t.conf \/ unknown THEN ChildPID(ev) ELSE {})
  BY ForeseeFields
<1> QED BY <1>1

\* Of two events of a distrusted process the order does not matter.
LEMMA DistrustSwap ==
    ASSUME NEW t, IsForecast(t), NEW u, IsForecast(u), NEW a, WellFormed(a), NEW b, WellFormed(b),
           a.pid = b.pid, a.pid \in t.conf, Below(t, u)
    PROVE  Below(Foresee(Foresee(t, b), a), Foresee(Foresee(u, a), b))
<1>1. PICK p, tb, tba, ua, uab :
            /\ p = a.pid /\ tb = Foresee(t, b) /\ tba = Foresee(tb, a)
            /\ ua = Foresee(u, a) /\ uab = Foresee(ua, b)
  OBVIOUS
<1>2. IsForecast(tb) /\ IsForecast(ua)
  BY <1>1, ForeseeIs
<1> DEFINE A == ChildPID(a)
           B == ChildPID(b)
<1> HIDE DEF A, B
<1>3. /\ \A q \in Pid \ ({p} \cup B) : tb.st[q] = t.st[q]
      /\ tb.inh = t.inh \cup B /\ t.conf \cup B \subseteq tb.conf
  BY <1>1, ForeseeBounds DEF A, B
<1>4. p \in tb.conf
  BY <1>1, <1>3
<1>5. /\ \A q \in Pid \ ({p} \cup A) : tba.st[q] = tb.st[q]
      /\ tba.inh = tb.inh \cup A /\ tb.conf \cup A \subseteq tba.conf
  BY <1>1, <1>2, <1>4, ForeseeBounds DEF A, B
<1>6. /\ \A q \in Pid \ ({p} \cup A) : ua.st[q] = u.st[q]
      /\ ua.inh = u.inh \cup A /\ ua.conf \subseteq u.conf \cup {p} \cup A
  BY <1>1, ForeseeBounds DEF A, B
<1>7. /\ \A q \in Pid \ ({p} \cup B) : uab.st[q] = ua.st[q]
      /\ uab.inh = ua.inh \cup B /\ uab.conf \subseteq ua.conf \cup {p} \cup B
  BY <1>1, <1>2, ForeseeBounds DEF A, B
<1>8. tba.inh \subseteq uab.inh /\ uab.conf \subseteq tba.conf
  BY <1>3, <1>4, <1>5, <1>6, <1>7 DEF Below
<1>9. ASSUME NEW q \in Trusted(tba) PROVE tba.st[q] = uab.st[q]
  <2>1. q \in Trusted(t) /\ q \in Pid \ ({p} \cup A) /\ q \in Pid \ ({p} \cup B)
    BY <1>3, <1>4, <1>5 DEF Trusted, IsForecast
  <2> QED BY <1>3, <1>5, <1>6, <1>7, <2>1 DEF Below
<1> QED BY <1>1, <1>8, <1>9 DEF Below

\* The beginning of a chain is a chain.
LEMMA LeadsPrefix ==
    ASSUME NEW f, NEW q, NEW t, NEW n \in Nat, Leads(f, q, t, n), NEW m \in 0..n
    PROVE  Leads(f, q, t, m)
BY DEF Leads

\* The queue with two events swapped.
LEMMA Swapped ==
    ASSUME TypeInv, TypeInv', NEW i \in 1..Len(queue), Overtake(i)
    PROVE  /\ i + 1 \in 1..Len(queue) /\ Len(queue') = Len(queue)
           /\ queue'[i] = queue[i + 1] /\ queue'[i + 1] = queue[i]
           /\ \A k \in 1..Len(queue) \ {i, i + 1} : queue'[k] = queue[k]
           /\ AllWellFormed(queue) /\ AllWellFormed(queue')
<1>1. AllWellFormed(queue) /\ AllWellFormed(queue')
  BY DEF TypeInv, SyncInv, QueueOK, AllWellFormed
<1>2. PICK N : N = Len(queue) /\ N \in Nat
  BY TypeQueue
<1>3. PICK S : queue \in Seq(S)
  BY <1>1 DEF AllWellFormed
<1>4. PICK S2 : queue' \in Seq(S2)
  BY <1>1 DEF AllWellFormed
<1>5. i + 1 \in 1..N /\ queue' = [queue EXCEPT ![i] = queue[i + 1], ![i + 1] = queue[i]]
  BY <1>2 DEF Overtake
<1>6. DOMAIN queue = 1..N /\ queue = [k \in 1..N |-> queue[k]]
  BY <1>2, <1>3
<1>7. DOMAIN queue' = 1..N
  BY <1>5, <1>6
<1>8. Len(queue') = N
  BY <1>2, <1>4, <1>7
<1>9. \A k \in 1..N : queue'[k] = IF k = i + 1 THEN queue[i] ELSE IF k = i THEN queue[i + 1]
                                  ELSE queue[k]
  BY <1>5, <1>6
<1> QED BY <1>1, <1>2, <1>5, <1>8, <1>9

\* Two threads' events change places in the queue.
LEMMA OvertakeStep ==
    ASSUME TypeInv, TypeInv', SamePlace, NEW f, Foretold(f), NEW i \in 1..Len(queue), Overtake(i)
    PROVE  \E g : Foretold(g)'
<1>1. PICK N, a, b, p, r, t, v :
            /\ N = Len(queue) /\ a = queue[i] /\ b = queue[i + 1] /\ p = a.pid /\ r = queue'
            /\ t = Now /\ v = Now'
  OBVIOUS
<1>2. /\ N \in Nat /\ i \in 1..N /\ i + 1 \in 1..N /\ i - 1 \in 0..N /\ i \in 0..N /\ i + 1 \in 0..N
      /\ (i + 1) - 1 = i /\ N \in 0..N
  BY <1>1, TypeQueue, Swapped
<1>3. /\ Len(r) = N /\ r[i] = b /\ r[i + 1] = a /\ \A k \in 1..N \ {i, i + 1} : r[k] = queue[k]
      /\ AllWellFormed(queue) /\ AllWellFormed(r)
      /\ \A k \in 1..N : WellFormed(queue[k]) /\ WellFormed(r[k])
  BY <1>1, Swapped, EventsWellFormed
<1>4. WellFormed(a) /\ WellFormed(b) /\ b.pid = p /\ a.pid = p
  BY <1>1, <1>2, <1>3 DEF Overtake
<1>5. /\ UNCHANGED <<stateByPID, live, fdTable, cwd, forking, inherited, lost>>
      /\ confused' = IF Independent(a, b) THEN confused ELSE confused \cup {p}
  BY <1>1 DEF Overtake, osVars, filterVars
<1>6. Leads(f, queue, t, N) /\ Hits(f, queue) /\ KnowsAll(f[N]) /\ ForksKept(f[N])
  BY <1>1 DEF Foretold, IsChain
<1>7. ASSUME NEW e, KnowsAll(e), ForksKept(e) PROVE KnowsAll(e)' /\ ForksKept(e)'
  BY <1>5, <1>7 DEF KnowsAll, ForksKept, ForkKept, Kin
<1>8. f[i] = Foresee(f[i - 1], a) /\ f[i + 1] = Foresee(f[i], b) /\ IsForecast(f[i - 1])
  BY <1>1, <1>2, <1>6 DEF Leads
<1>9. CASE p \in confused'
  <2>1. IsForecast(v) /\ Below(v, t) /\ p \in v.conf
    <3>1. IsForecast(v)
      BY <1>1, NowForecast
    <3>2. Below(v, t)
      BY <1>1, <1>5, NowBelow
    <3> QED BY <1>1, <1>9, <3>1, <3>2 DEF Now, Forecast
  <2>2. PICK g : IsChain(g, r, v)
    BY <1>3, <2>1, ChainExists
  <2>3. Leads(g, r, v, N)
    BY <1>3, <2>2 DEF IsChain
  <2>4. \A k \in 0..i - 1 : Below(g[k], f[k])
    <3>1. i - 1 \in Nat /\ 0 \in 0..i - 1
      BY <1>2
    <3>2. Leads(g, r, v, i - 1) /\ Leads(f, queue, t, i - 1)
      BY <1>2, <1>6, <2>3, LeadsPrefix
    <3>3. \A k \in 0 + 1..i - 1 : r[k] = queue[k] /\ WellFormed(r[k])
      BY <1>2, <1>3
    <3>4. Below(g[0], f[0])
      BY <1>6, <2>1, <2>3 DEF Leads
    <3> QED BY <3>1, <3>2, <3>3, <3>4, ChainBelow
  <2>5. \A k \in 0..N : p \in g[k].conf
    <3>1. 0 \in 0..N /\ g[0] = v
      BY <1>2, <2>3 DEF Leads
    <3> QED BY <1>2, <2>1, <2>3, <3>1, ChainGrows
  <2>6. g[i] = Foresee(g[i - 1], b) /\ g[i + 1] = Foresee(g[i], a) /\ IsForecast(g[i - 1])
    BY <1>2, <1>3, <2>3 DEF Leads
  <2>7. Below(g[i + 1], f[i + 1])
    <3>1. Below(g[i - 1], f[i - 1]) /\ p \in g[i - 1].conf
      BY <1>2, <2>4, <2>5
    <3> QED BY <1>4, <1>8, <2>6, <3>1, DistrustSwap
  <2>8. \A k \in i + 1..N : Below(g[k], f[k])
    <3>1. \A k \in (i + 1) + 1..N : r[k] = queue[k] /\ WellFormed(r[k])
      BY <1>2, <1>3
    <3> QED BY <1>2, <1>6, <2>3, <2>7, <3>1, ChainBelow
  <2>9. ASSUME NEW k \in 1..N PROVE Hit(g[k - 1], r[k])
    <3>1. k - 1 \in 0..N
      BY <1>2
    <3>2. CASE k \in {i, i + 1}
      <4>1. r[k].pid = p /\ p \in g[k - 1].conf
        BY <1>3, <1>4, <2>5, <3>1, <3>2
      <4> QED BY <4>1 DEF Hit, Trusted
    <3>3. CASE k \notin {i, i + 1}
      <4>1. k - 1 \in 0..i - 1 \/ k - 1 \in i + 1..N
        BY <1>2, <3>3
      <4>2. Below(g[k - 1], f[k - 1])
        BY <2>4, <2>8, <4>1
      <4>3. Hit(f[k - 1], queue[k]) /\ r[k] = queue[k] /\ WellFormed(r[k])
        BY <1>1, <1>3, <1>6, <3>3 DEF Hits
      <4> QED BY <4>2, <4>3, HitBelow
    <3> QED BY <3>2, <3>3
  <2>10. Below(g[N], f[N])
    BY <1>2, <2>8
  <2>11. PICK e : e = g[N]
    OBVIOUS
  <2>12. KnowsAll(e)' /\ ForksKept(e)'
    BY <1>6, <1>7, <2>10, <2>11, EndBelow
  <2>13. Hits(g, r)
    BY <1>3, <2>9 DEF Hits
  <2>14. Foretold(g)'
    BY <1>1, <1>3, <2>2, <2>11, <2>12, <2>13 DEF Foretold
  <2> QED BY <2>14
<1>10. CASE p \notin confused'
  <2>1. Independent(a, b) /\ p \notin confused /\ v = t
    BY <1>1, <1>5, <1>10 DEF Now
  <2>2. ~Moves(a)
    <3>1. a.id \in LocalIds
      BY <2>1 DEF Independent, LocalIds
    <3> QED BY <3>1, UseId DEF LocalIds, SupportIds, Moves
  <2>3. a.at = b.at
    <3>1. i \in 1..N - 1
      BY <1>2
    <3> QED BY <1>1, <1>4, <2>1, <2>2, <3>1 DEF SamePlace
  <2>4. /\ Foresee(Foresee(f[i - 1], b), a) = f[i + 1]
        /\ Hit(f[i], b) => Hit(f[i - 1], b)
        /\ Hit(f[i - 1], a) => Hit(Foresee(f[i - 1], b), a)
    BY <1>4, <1>8, <2>1, <2>3, ForeseeCommutes
  <2> DEFINE g == [k \in 0..N |-> IF k = i THEN Foresee(f[i - 1], b) ELSE f[k]]
  <2>5. g[i] = Foresee(f[i - 1], b) /\ \A k \in 0..N \ {i} : g[k] = f[k]
    BY <1>2
  <2> HIDE DEF g
  <2>6. IsForecast(g[i])
    BY <1>4, <1>8, <2>5, ForeseeIs
  <2>7. \A k \in 0..N : IsForecast(g[k])
    BY <1>6, <2>5, <2>6 DEF Leads
  <2>8. g[0] = v
    BY <1>2, <1>6, <2>1, <2>5 DEF Leads
  <2>9. ASSUME NEW k \in 1..N
        PROVE  g[k] = Foresee(g[k - 1], r[k]) /\ Hit(g[k - 1], r[k])
    <3>0. k - 1 \in 0..N /\ k \in 0..N
      BY <1>2
    <3>1. CASE k = i
      <4>1. g[k - 1] = f[i - 1]
        BY <1>2, <2>5, <3>1
      <4>2. Hit(f[i], b)
        BY <1>1, <1>2, <1>6 DEF Hits
      <4> QED BY <1>3, <2>4, <2>5, <3>1, <4>1, <4>2
    <3>2. CASE k = i + 1
      <4>1. g[k - 1] = Foresee(f[i - 1], b) /\ g[k] = f[i + 1]
        BY <1>2, <2>5, <3>2
      <4>2. Hit(f[i - 1], a)
        BY <1>1, <1>2, <1>6 DEF Hits
      <4> QED BY <1>3, <2>4, <3>2, <4>1, <4>2
    <3>3. CASE k \notin {i, i + 1}
      <4>1. g[k - 1] = f[k - 1] /\ g[k] = f[k] /\ r[k] = queue[k]
        BY <1>2, <1>3, <2>5, <3>0, <3>3
      <4> QED BY <1>1, <1>6, <4>1 DEF Leads, Hits
    <3> QED BY <3>1, <3>2, <3>3
  <2>10. IsChain(g, r, v) /\ Hits(g, r)
    BY <1>3, <2>7, <2>8, <2>9 DEF IsChain, Leads, Hits
  <2>11. g[N] = f[N]
    <3>1. CASE N = i + 1
      BY <1>2, <2>5, <3>1
    <3>2. CASE N # i + 1
      BY <1>2, <2>5, <3>2
    <3> QED BY <3>1, <3>2
  <2>12. PICK e : e = g[N]
    OBVIOUS
  <2>13. KnowsAll(e)' /\ ForksKept(e)'
    BY <1>6, <1>7, <2>11, <2>12
  <2>14. Foretold(g)'
    BY <1>1, <1>3, <2>10, <2>12, <2>13 DEF Foretold
  <2> QED BY <2>14
<1> QED BY <1>9, <1>10
-----------------------------------------------------------------------------
(***************************************************************************)
(* A filter that knows a process resolves its paths and descriptors as the *)
(* kernel does.                                                            *)
(***************************************************************************)
\* The event names raw, from dirfd, in its argument x.
Argument(p, ev, x, dirfd, raw) ==
    /\ dirfd \in Fd \cup {AT_FDCWD} /\ raw \in Raw /\ ev.path[x] = raw
    /\ \/ BaseFdArg(ev.id, x) = -1 /\ dirfd = AT_FDCWD
       \/ BaseFdArg(ev.id, x) \in 0..5 /\ ev.fd[BaseFdArg(ev.id, x)] = dirfd
    /\ ev.at = cwd[p]

\* A known process's path arguments resolve to what the kernel's walk finds.
LEMMA ResolveKnown ==
    ASSUME KernelOK, NEW p \in Pid, NEW m, Knows(m, fdTable[p], cwd[p], lost[p]), NEW ev, NEW x,
           NEW dirfd, NEW raw, Argument(p, ev, x, dirfd, raw), ~Misled(p, dirfd, raw),
           UsesCwd(ev, x) => m.cwd # NoPath
    PROVE  ResolvePathAt(m, ev, x) = Named(p, dirfd, raw)
<1>1. raw.comps \in Seq(Names \cup {".."}) /\ raw.abs \in BOOLEAN /\ raw # NoPath /\ ev.path[x] = raw
  BY TreeAssumption DEF Argument
<1>2. CASE raw.abs
  <2>1. <<>> \in Seq(Names)
    OBVIOUS
  <2>2. Join(<<>>, raw.comps) = Walk(<<>>, raw.comps)
    BY <1>1, <2>1, JoinIsWalk
  <2> QED BY <1>1, <1>2, <2>2 DEF ResolvePathAt, Named
<1>3. CASE ~raw.abs
  <2> DEFINE base == IF dirfd = AT_FDCWD THEN cwd[p] ELSE fdTable[p][dirfd]
  <2>1. UsesCwd(ev, x) <=> dirfd = AT_FDCWD
    BY <1>1, <1>3 DEF UsesCwd, Argument
  <2>2. ASSUME dirfd = AT_FDCWD PROVE Base(m, ev, x) = base
    <3>1. m.cwd = cwd[p]
      BY <2>1, <2>2 DEF Knows
    <3> QED BY <2>1, <2>2, <3>1 DEF Base
  <2>3. ASSUME dirfd # AT_FDCWD PROVE Base(m, ev, x) = base
    <3>1. dirfd \in Fd \ lost[p]
      BY <1>3, <2>3 DEF Argument, Misled
    <3>2. BaseFdArg(ev.id, x) \in 0..5 /\ ev.fd[BaseFdArg(ev.id, x)] = dirfd
      BY <2>3 DEF Argument
    <3>3. Base(m, ev, x) = FdPath(m, dirfd)
      BY <2>1, <2>3, <3>2 DEF Base
    <3> QED BY <2>3, <3>1, <3>3 DEF FdPath, Knows
  <2>4. Base(m, ev, x) = base
    BY <2>2, <2>3
  <2>5. base \in Seq(Names) \cup {NoPath}
    BY PidAssumption DEF KernelOK, AbsPath, Argument
  <2>6. base # NoPath => Join(base, raw.comps) = Walk(base, raw.comps)
    BY <1>1, <2>5, JoinIsWalk
  <2> HIDE DEF base
  <2> QED BY <1>1, <1>3, <2>4, <2>6 DEF ResolvePathAt, Named, base
<1> QED BY <1>2, <1>3

\* Remembering the directory a call was made in keeps a process known.
LEMMA CacheKnown ==
    ASSUME NEW s, Synced(s), NEW table, NEW dir, dir # NoPath, NEW unsure,
           Knows(s, table, dir, unsure), NEW ev, ev.at = dir, NEW x, NEW m, m = CacheCwd(s, ev, x, ev.at)
    PROVE  /\ Synced(m) /\ Knows(m, table, dir, unsure)
           /\ UsesCwd(ev, x) \/ s.cwd # NoPath => m.cwd # NoPath
BY CacheEffect DEF Knows

\* So does matching its paths.
LEMMA MatchedKnown ==
    ASSUME NEW s, Synced(s), NEW table, NEW dir, dir # NoPath, NEW unsure,
           Knows(s, table, dir, unsure), NEW ev, ev.at = dir, NEW m, m = Matched(s, ev)
    PROVE  Synced(m) /\ Knows(m, table, dir, unsure)
<1> DEFINE first == CacheCwd(s, ev, PathArgs(ev.id)[1], ev.at)
<1>1. Synced(first) /\ Knows(first, table, dir, unsure)
  BY CacheKnown
<1>2. m = s \/ m = first \/ m = CacheCwd(first, ev, PathArgs(ev.id)[2], ev.at)
  BY DEF Matched, AfterMatch
<1> HIDE DEF first
<1> QED BY <1>1, <1>2, CacheKnown

\* A call with one path matches if the path it names is traced.
LEMMA MatchOne ==
    ASSUME KernelOK, NEW p \in Pid, cwd[p] # NoPath, NEW s, Synced(s),
           Knows(s, fdTable[p], cwd[p], lost[p]), NEW ev, UserAllows(ev.id), NEW x,
           PathArgs(ev.id) = <<x>>, NEW dirfd, NEW raw, Argument(p, ev, x, dirfd, raw),
           ~Misled(p, dirfd, raw)
    PROVE  MatchesPath(Matched(s, ev), ev) <=> Named(p, dirfd, raw) \in TracePaths
<1>1. PICK m : m = CacheCwd(s, ev, x, ev.at)
  OBVIOUS
<1>2. Knows(m, fdTable[p], cwd[p], lost[p]) /\ (UsesCwd(ev, x) => m.cwd # NoPath)
  BY <1>1, CacheKnown DEF Argument
<1>3. ResolvePathAt(m, ev, x) = Named(p, dirfd, raw)
  BY <1>2, ResolveKnown
<1> QED BY <1>1, <1>3, OneArg

\* A call with two matches if one of them is.
LEMMA MatchTwo ==
    ASSUME KernelOK, NEW p \in Pid, cwd[p] # NoPath, NEW s, Synced(s),
           Knows(s, fdTable[p], cwd[p], lost[p]), NEW ev, UserAllows(ev.id), NEW x, NEW y,
           PathArgs(ev.id) = <<x, y>>, NEW dirfd, NEW old, Argument(p, ev, x, dirfd, old),
           ~Misled(p, dirfd, old), NEW newdirfd, NEW new, Argument(p, ev, y, newdirfd, new),
           ~Misled(p, newdirfd, new)
    PROVE  MatchesPath(Matched(s, ev), ev) <=>
              Named(p, dirfd, old) \in TracePaths \/ Named(p, newdirfd, new) \in TracePaths
<1>1. PICK one, two : one = CacheCwd(s, ev, x, ev.at) /\ two = CacheCwd(one, ev, y, ev.at)
  OBVIOUS
<1>2. Synced(one) /\ Knows(one, fdTable[p], cwd[p], lost[p]) /\ (UsesCwd(ev, x) => one.cwd # NoPath)
  BY <1>1, CacheKnown DEF Argument
<1>3. /\ Knows(two, fdTable[p], cwd[p], lost[p])
      /\ UsesCwd(ev, y) => two.cwd # NoPath
      /\ UsesCwd(ev, x) => two.cwd # NoPath
  BY <1>1, <1>2, CacheKnown DEF Argument
<1>4. /\ ResolvePathAt(one, ev, x) = Named(p, dirfd, old)
      /\ ResolvePathAt(two, ev, x) = Named(p, dirfd, old)
      /\ ResolvePathAt(two, ev, y) = Named(p, newdirfd, new)
  BY <1>2, <1>3, ResolveKnown
<1>5. Len(PathArgs(ev.id)) = 2 /\ PathArgs(ev.id)[1] = x /\ PathArgs(ev.id)[2] = y
      /\ PathArgs(ev.id) # <<>>
  OBVIOUS
<1>6. Matched(s, ev) = IF MatchesPathAt(one, ev, x) THEN one ELSE two
  BY <1>1, <1>5 DEF Matched, AfterMatch
<1>7. \A m : MatchesPath(m, ev) <=> MatchesPathAt(m, ev, x) \/ MatchesPathAt(m, ev, y)
  BY <1>5 DEF MatchesPath
<1> QED BY <1>4, <1>6, <1>7 DEF MatchesPathAt

\* The descriptors among the arguments that are looked at are those of the call.
Looks(ev, fds) ==
    \A n \in Fd : n \in fds <=> \E i \in EventFdArgs(ev.id) : ev.fd[i] = n

\* What is printed, once the path arguments are matched.
LEMMA PrintedKnown ==
    ASSUME NEW p \in Pid, cwd[p] # NoPath, NEW s, Synced(s),
           Knows(s, fdTable[p], cwd[p], lost[p]), NEW ev, ev.at = cwd[p],
           \A i \in 0..5 : ev.fd[i] \notin lost[p],
           NEW fds \in SUBSET (Fd \cup {AT_FDCWD}), Looks(ev, fds), NEW paths,
           ev.hit = Touches(p, fds, paths),
           UserAllows(ev.id) =>
              (MatchesPath(Matched(s, ev), ev) <=> \E path \in paths : path \in TracePaths)
    PROVE  Printed(s, ev)
<1>1. PICK m : m = Matched(s, ev)
  OBVIOUS
<1>2. Synced(m) /\ Knows(m, fdTable[p], cwd[p], lost[p])
  BY <1>1, MatchedKnown
<1>3. AT_FDCWD \notin Fd
  BY PidAssumption DEF AT_FDCWD
<1>4. HasTrackedFDArg(m, ev) <=> \E n \in Fd \cap fds : fdTable[p][n] \in TracePaths
  <2>1. HasTrackedFDArg(m, ev) <=> \E i \in EventFdArgs(ev.id) : FdPath(m, ev.fd[i]) \in TracePaths
    BY <1>2, TrackedArg
  <2>2. \A i \in EventFdArgs(ev.id) :
           FdPath(m, ev.fd[i]) = IF ev.fd[i] \in Fd THEN fdTable[p][ev.fd[i]] ELSE NoPath
    BY <1>2, EventFdArgsType DEF FdPath, Knows
  <2> QED BY <2>1, <2>2, PathAssumption DEF Looks
<1>5. ev.hit <=> (\E path \in paths : path \in TracePaths)
                    \/ \E n \in Fd \cap fds : fdTable[p][n] \in TracePaths
  BY <1>3 DEF Touches
<1>6. ev.hit \in BOOLEAN
  BY DEF Touches
<1> QED BY <1>1, <1>4, <1>5, <1>6 DEF Printed, ShouldPrint
-----------------------------------------------------------------------------
(***************************************************************************)
(* What the calls have in common.                                          *)
(***************************************************************************)
\* A step that adds at most an event of p leaves the events where they are, if
\* it moves no other process the filter is right about, and p only by an event
\* that says so.
LEMMA PlaceStep ==
    ASSUME TypeInv, SamePlace, StillThere, NEW p \in Pid, confused \subseteq confused', live' \subseteq live,
           \A r \in live' \ (confused' \cup {p}) : cwd'[r] = cwd[r],
           \/ queue' = queue /\ cwd'[p] = cwd[p]
           \/ \E ev : /\ queue' = Append(queue, ev) /\ ev.pid = p /\ ev.at = cwd[p] /\ p \in live
                      /\ cwd'[p] = cwd[p] \/ Moves(ev)
    PROVE  SamePlace' /\ StillThere'
<1>0. Len(queue) \in Nat
  BY TypeQueue
<1>1. CASE queue' = queue /\ cwd'[p] = cwd[p]
  <2>1. SamePlace'
    BY <1>1 DEF SamePlace, Moves
  <2>2. StillThere'
    BY <1>1 DEF StillThere, Moves
  <2> QED BY <2>1, <2>2
<1>2. ASSUME NEW ev, queue' = Append(queue, ev), ev.pid = p, ev.at = cwd[p], p \in live,
             cwd'[p] = cwd[p] \/ Moves(ev)
      PROVE  SamePlace' /\ StillThere'
  <2>1. PICK N : N = Len(queue) /\ N \in Nat
    BY <1>0
  <2>2. PICK r : r = queue'
    OBVIOUS
  <2>3. Len(r) = N + 1 /\ r[N + 1] = ev /\ \A k \in 1..N : r[k] = queue[k]
    BY <1>2, <2>1, <2>2 DEF TypeInv, SyncInv, QueueOK
  <2>4. ASSUME NEW k \in 1..N, r[k].pid = r[k + 1].pid, r[k].pid \notin confused', ~Moves(r[k])
        PROVE  r[k].at = r[k + 1].at
    <3>1. CASE k = N
      <4>1. r[k] = queue[N] /\ queue[N].pid = p /\ p \in live \ confused /\ N \in 1..N
        BY <1>2, <2>3, <2>4, <3>1
      <4>2. queue[N].at = cwd[p]
        BY <2>1, <2>4, <4>1 DEF StillThere
      <4> QED BY <1>2, <2>3, <3>1, <4>1, <4>2
    <3>2. CASE k # N
      <4>1. k \in 1..N - 1 /\ k + 1 \in 1..N
        BY <2>1, <3>2
      <4>2. r[k] = queue[k] /\ r[k + 1] = queue[k + 1]
        BY <2>3, <4>1
      <4> QED BY <2>1, <2>4, <4>1, <4>2 DEF SamePlace
    <3> QED BY <3>1, <3>2
  <2>5. SamePlace'
    <3>1. Len(r) - 1 = N
      BY <2>1, <2>3
    <3> QED BY <2>2, <2>4, <3>1 DEF SamePlace, Moves
  <2>6. ASSUME NEW k \in 1..N + 1, k = N + 1, r[k].pid \in live' \ confused', ~Moves(r[k])
        PROVE  r[k].at = cwd'[r[k].pid]
    BY <1>2, <2>3, <2>6
  <2>7. StillThere'
    BY <2>2, <2>3, <2>6 DEF StillThere, Moves
  <2> QED BY <2>5, <2>7
<1> QED BY <1>1, <1>2

\* The kernel selects the calls the filter needs, whatever -e asks for.
LEMMA Selected ==
    ASSUME NEW id \in SupportIds
    PROVE  KernelSelects(id)
BY TracedAssumption DEF KernelSelects, HandleTraceIds

\* A call whose event is handled as the kernel did it keeps the invariant.
LEMMA CallStep ==
    ASSUME KnowsInv, TypeInv', NEW p \in Pid, p \in live, forking[p] = 0,
           UNCHANGED <<stateByPID, inherited, forking, live>>, confused \subseteq confused',
           OthersStay(p), NEW ev, ev.pid = p, ev.at = cwd[p], ~ev.clone, KernelSelects(ev.id),
           Submit(ev), cwd'[p] = cwd[p] \/ Moves(ev), p \in confused' \/ Heeded(p, ev)
    PROVE  KnowsInv'
<1>1. queue' = Append(queue, ev)
  BY DEF Submit
<1>2. SamePlace' /\ StillThere'
  BY <1>1, PlaceStep DEF KnowsInv, OthersStay
<1>3. WellFormed(ev)
  <2>1. Len(queue') = Len(queue) + 1 /\ queue'[Len(queue) + 1] = ev /\ Len(queue) \in Nat
    BY <1>1 DEF KnowsInv, TypeInv, SyncInv, QueueOK
  <2>2. AllWellFormed(queue')
    BY DEF TypeInv, SyncInv, QueueOK, AllWellFormed
  <2>3. \A k \in 1..Len(queue') : WellFormed(queue'[k])
    BY <2>2, EventsWellFormed
  <2> QED BY <2>1, <2>3
<1>4. PICK f : Foretold(f)
  BY DEF KnowsInv
<1>5. \E g : Foretold(g)'
  BY <1>1, <1>3, <1>4, EventStep DEF KnowsInv
<1> QED BY <1>2, <1>5 DEF KnowsInv

\* So does a step that leaves no event and that the filter loses sight of.
LEMMA SilentCall ==
    ASSUME KnowsInv, TypeInv', NEW p \in Pid, forking[p] = 0,
           UNCHANGED <<stateByPID, inherited, forking, confused, cwd, queue>>,
           live' \subseteq live, live \ {p} \subseteq live',
           \A r \in Pid : lost[r] \subseteq lost'[r],
           \A r \in Pid \ {p} : lost'[r] = lost[r],
           \A r \in Pid : \A fd \in Fd \ lost'[r] : fdTable'[r][fd] = fdTable[r][fd]
    PROVE  KnowsInv'
<1>1. PICK f : Foretold(f)
  BY DEF KnowsInv
<1>2. Foretold(f)'
  BY <1>1, SilentStep DEF KnowsInv
<1>3. SamePlace' /\ StillThere'
  BY PlaceStep DEF KnowsInv
<1> QED BY <1>2, <1>3 DEF KnowsInv

\* A call that the filter does not handle and that changes only what it makes
\* the filter lose sight of, whether it leaves an event or not.
LEMMA UnhandledStep ==
    ASSUME KnowsInv, TypeInv', NEW p \in Pid, p \in live, forking[p] = 0,
           UNCHANGED <<stateByPID, inherited, forking, live, confused, cwd>>,
           \A r \in Pid : lost[r] \subseteq lost'[r],
           \A r \in Pid \ {p} : fdTable'[r] = fdTable[r] /\ lost'[r] = lost[r],
           \A fd \in Fd \ lost'[p] : fdTable'[p][fd] = fdTable[p][fd],
           NEW ev, ev.pid = p, ev.at = cwd[p], ~ev.clone, Submit(ev),
           \A s : Synced(s) => Handled(s, ev) = s,
           \A s : Synced(s) /\ Knows(s, fdTable[p], cwd[p], lost[p]) /\ NoCounts /\ ~ev.doubt
                    => Printed(s, ev)
    PROVE  KnowsInv'
<1>1. CASE KernelSelects(ev.id)
  <2>1. OthersStay(p)
    BY DEF OthersStay, Kin, KnowsInv, TypeInv, HistoryOK
  <2>2. Heeded(p, ev)
    BY DEF Heeded, Knows
  <2> QED BY <1>1, <2>1, <2>2, CallStep
<1>2. CASE ~KernelSelects(ev.id)
  <2>1. queue' = queue
    BY <1>2 DEF Submit
  <2> QED BY <2>1, SilentCall
<1> QED BY <1>1, <1>2

-----------------------------------------------------------------------------
(***************************************************************************)
(* The descriptor arguments of the calls, from their rows.                 *)
(***************************************************************************)
\* A row's descriptor arguments are its calls'.
LEMMA ArgFd ==
    ASSUME NEW row \in syscall_schemas, NEW id \in row.calls, NEW i \in 0..5, i < Len(row.types),
           row.types[i + 1] = ARG_FD
    PROVE  i \in FdArgs(id)
<1>1. \A q \in syscall_schemas : id \in q.calls => q = row
  BY OneRowPerCall
<1>2. id \in Listed /\ RowOf[id] = row
  BY <1>1 DEF Listed, RowOf
<1> QED BY <1>2 DEF FdArgs, ArgTypes

\* The descriptor arguments of the calls that the filter handles.
LEMMA CallFds ==
    /\ 0 \in FdArgs("close") /\ 0 \in FdArgs("dup") /\ 0 \in FdArgs("fcntl") /\ 0 \in FdArgs("fchdir")
    /\ 0 \in FdArgs("dup2") /\ 1 \in FdArgs("dup2")
    /\ 0 \in FdArgs("close_range") /\ 1 \in FdArgs("close_range")
    /\ 0 \in FdArgs("openat") /\ 0 \in FdArgs("newfstatat") /\ 0 \in FdArgs("unlinkat")
    /\ 0 \in FdArgs("renameat") /\ 2 \in FdArgs("renameat")
<1>1. /\ \E row \in FileAndSocketRows :
            "close" \in row.calls /\ "dup" \in row.calls /\ Len(row.types) = 1 /\ row.types[1] = ARG_FD
      /\ \E row \in FileAndSocketRows :
            /\ "dup2" \in row.calls /\ Len(row.types) = 2
            /\ row.types[1] = ARG_FD /\ row.types[2] = ARG_FD
  BY DEF FileAndSocketRows, Row
<1>2. \E row \in ProcessAndPathRows :
            "fcntl" \in row.calls /\ "fchdir" \in row.calls /\ Len(row.types) = 1 /\ row.types[1] = ARG_FD
  BY DEF ProcessAndPathRows, Row
<1>3. /\ \E row \in QueueAndAtRows :
            /\ "openat" \in row.calls /\ "newfstatat" \in row.calls /\ "unlinkat" \in row.calls
            /\ Len(row.types) = 2 /\ row.types[1] = ARG_FD
      /\ \E row \in QueueAndAtRows :
            /\ "renameat" \in row.calls /\ Len(row.types) = 4
            /\ row.types[1] = ARG_FD /\ row.types[3] = ARG_FD
  BY DEF QueueAndAtRows, Row
<1>4. \E row \in RecentRows : /\ "close_range" \in row.calls /\ Len(row.types) = 2
                              /\ row.types[1] = ARG_FD /\ row.types[2] = ARG_FD
  BY DEF RecentRows, Row
<1>5. ASSUME NEW id, NEW i \in 0..5,
             \E row \in syscall_schemas : id \in row.calls /\ i < Len(row.types) /\ row.types[i + 1] = ARG_FD
      PROVE  i \in FdArgs(id)
  BY <1>5, ArgFd
<1>6. /\ FileAndSocketRows \subseteq syscall_schemas /\ ProcessAndPathRows \subseteq syscall_schemas
      /\ QueueAndAtRows \subseteq syscall_schemas /\ RecentRows \subseteq syscall_schemas
  BY DEF syscall_schemas
<1>7. 0 \in FdArgs("close") /\ 0 \in FdArgs("dup")
  BY <1>1, <1>5, <1>6
<1>8. 0 \in FdArgs("fcntl") /\ 0 \in FdArgs("fchdir")
  BY <1>2, <1>5, <1>6
<1>9. 0 \in FdArgs("dup2") /\ 1 \in FdArgs("dup2")
  BY <1>1, <1>5, <1>6
<1>10. 0 \in FdArgs("close_range") /\ 1 \in FdArgs("close_range")
  BY <1>4, <1>5, <1>6
<1>11. 0 \in FdArgs("openat") /\ 0 \in FdArgs("newfstatat") /\ 0 \in FdArgs("unlinkat")
  BY <1>3, <1>5, <1>6
<1>12. 0 \in FdArgs("renameat") /\ 2 \in FdArgs("renameat")
  BY <1>3, <1>5, <1>6
<1> QED BY <1>7, <1>8, <1>9, <1>10, <1>11, <1>12
-----------------------------------------------------------------------------
(***************************************************************************)
(* The calls with one path.                                                *)
(***************************************************************************)
\* Every process is in a directory.
LEMMA Here ==
    ASSUME KernelOK, NEW p \in Pid
    PROVE  cwd[p] \in Seq(Names) /\ cwd[p] \in dirs /\ cwd[p] # NoPath
BY TreeAssumption DEF KernelOK

OnePath(id, x, dirfd, raw, fd, path) ==
    /\ dirfd \in Fd \cup {AT_FDCWD} /\ raw \in Raw
    /\ \/ /\ id \in {"open", "newstat", "chdir", "unlink"} /\ x = 0 /\ dirfd = AT_FDCWD
          /\ fd = NoFds /\ path = [NoPaths EXCEPT ![0] = raw]
       \/ /\ id \in {"openat", "newfstatat", "unlinkat"} /\ x = 1
          /\ fd = [NoFds EXCEPT ![0] = dirfd] /\ path = [NoPaths EXCEPT ![1] = raw]

\* A call with one path is printed if and only if it should be.
LEMMA OnePathCall ==
    ASSUME KernelOK, HistoryOK, NEW p \in Pid, NEW x, NEW dirfd, NEW raw, NEW ev,
           OnePath(ev.id, x, dirfd, raw, ev.fd, ev.path), ev.at = cwd[p],
           ev.doubt <=> \E i \in 0..5 : ev.fd[i] \in lost[p],
           ev.hit = Touches(p, {dirfd}, {Named(p, dirfd, raw)})
    PROVE  /\ PathArgs(ev.id) = <<x>> /\ Argument(p, ev, x, dirfd, raw)
           /\ ~ev.doubt => ~Misled(p, dirfd, raw)
           /\ \A s : Synced(s) /\ Knows(s, fdTable[p], cwd[p], lost[p]) /\ ~ev.doubt
                        => Printed(s, ev)
<1>1. PICK id, fd, path : id = ev.id /\ fd = ev.fd /\ path = ev.path
  OBVIOUS
<1>2. AT_FDCWD \notin Fd /\ lost[p] \subseteq Fd /\ cwd[p] # NoPath
  BY PidAssumption, Here DEF AT_FDCWD, HistoryOK
<1>3. PathArgs(ev.id) = <<x>>
  BY <1>1, PathArgsOf DEF OnePath
<1>4. path[x] = raw
  BY <1>1 DEF OnePath, NoPaths
<1>5. /\ fd[0] = dirfd /\ \A i \in 1..5 : fd[i] = AT_FDCWD
      /\ BaseFdArg(id, x) = IF id \in {"openat", "newfstatat", "unlinkat"} THEN 0 ELSE -1
  <2>1. CASE id \in {"open", "newstat", "chdir", "unlink"}
    BY <1>1, <2>1 DEF OnePath, NoFds, BaseFdArg
  <2>2. CASE id \in {"openat", "newfstatat", "unlinkat"}
    BY <1>1, <2>2 DEF OnePath, NoFds, BaseFdArg
  <2> QED BY <1>1, <2>1, <2>2 DEF OnePath
<1>6. Argument(p, ev, x, dirfd, raw)
  <2>1. CASE id \in {"openat", "newfstatat", "unlinkat"}
    BY <1>1, <1>4, <1>5, <2>1 DEF Argument, OnePath
  <2>2. CASE id \notin {"openat", "newfstatat", "unlinkat"}
    BY <1>1, <1>4, <1>5, <2>2 DEF Argument, OnePath
  <2> QED BY <2>1, <2>2
<1>7. ~ev.doubt => ~Misled(p, dirfd, raw)
  BY <1>1, <1>5 DEF Misled
<1>8. Looks(ev, {dirfd})
  <2>1. dirfd \in Fd => 0 \in EventFdArgs(ev.id)
    BY <1>1, <1>2, CallFds DEF OnePath, EventFdArgs
  <2>2. ASSUME NEW n \in Fd, NEW i \in EventFdArgs(ev.id), ev.fd[i] = n PROVE n = dirfd
    <3>1. i \in 0..5
      BY EventFdArgsType
    <3>2. i = 0
      BY <1>1, <1>2, <1>5, <2>2, <3>1
    <3> QED BY <1>1, <1>5, <2>2, <3>2
  <2> QED BY <1>1, <1>5, <2>1, <2>2 DEF Looks
<1>9. ASSUME NEW s, Synced(s), Knows(s, fdTable[p], cwd[p], lost[p]), ~ev.doubt
      PROVE  Printed(s, ev)
  <2>1. UserAllows(ev.id) => (MatchesPath(Matched(s, ev), ev) <=> Named(p, dirfd, raw) \in TracePaths)
    BY <1>2, <1>3, <1>6, <1>7, <1>9, MatchOne
  <2>2. {dirfd} \in SUBSET (Fd \cup {AT_FDCWD})
    BY DEF OnePath
  <2>3. PICK paths : paths = {Named(p, dirfd, raw)}
    OBVIOUS
  <2>4. \A i \in 0..5 : ev.fd[i] \notin lost[p]
    BY <1>1, <1>9
  <2>5. UserAllows(ev.id) => (MatchesPath(Matched(s, ev), ev) <=> \E q \in paths : q \in TracePaths)
    BY <2>1, <2>3
  <2> QED BY <1>1, <1>2, <1>8, <1>9, <2>2, <2>3, <2>4, <2>5, PrintedKnown
<1> QED BY <1>3, <1>6, <1>7, <1>9

\* A failed call, and one that only looks.
LEMMA LookHeeded ==
    ASSUME KernelOK, NEW p \in Pid, NEW ev, ev.at = cwd[p], ev.ret \in Int,
           ev.ret < 0 \/ ev.id \in {"newstat", "newfstatat"},
           UNCHANGED <<fdTable, cwd, lost>>,
           \A s : Synced(s) /\ Knows(s, fdTable[p], cwd[p], lost[p]) /\ ~ev.doubt => Printed(s, ev)
    PROVE  Heeded(p, ev)
<1>1. ASSUME NEW s PROVE ObserveCall(s, ev, ev.at) = s
  <2>1. CASE ev.ret < 0
    BY <2>1 DEF ObserveCall
  <2>2. CASE ev.id \in {"newstat", "newfstatat"}
    BY <2>2 DEF ObserveCall
  <2> QED BY <2>1, <2>2
<1>2. ASSUME NEW s, Synced(s), Knows(s, fdTable[p], cwd[p], lost[p])
      PROVE  Knows(Handled(s, ev), fdTable'[p], cwd'[p], lost'[p])
  <2>1. Handled(s, ev) = Matched(s, ev)
    BY <1>1 DEF Handled
  <2>2. Knows(Matched(s, ev), fdTable[p], cwd[p], lost[p])
    BY <1>2, Here, MatchedKnown
  <2> QED BY <2>1, <2>2
<1> QED BY <1>2 DEF Heeded

\* A call of p that changes one descriptor of p, or none, leaves the others be.
LEMMA AloneStay ==
    ASSUME TypeInv, NEW p \in Pid, UNCHANGED cwd,
           \A r \in Pid \ {p} : fdTable'[r] = fdTable[r] /\ lost'[r] = lost[r]
    PROVE  OthersStay(p)
BY DEF OthersStay, Kin, TypeInv, HistoryOK

\* open and openat.
LEMMA OpensStep ==
    ASSUME KnowsInv, TypeInv', NEW p \in Pid, NEW id \in {"open", "openat"}, NEW x, NEW dirfd, NEW raw,
           NEW fd, NEW path, OnePath(id, x, dirfd, raw, fd, path), OpensAt(p, id, dirfd, raw, fd, path)
    PROVE  KnowsInv'
<1> DEFINE name == Named(p, dirfd, raw)
<1>0. /\ p \in live /\ forking[p] = 0 /\ TypeInv /\ KernelOK /\ HistoryOK /\ KernelSelects(id)
      /\ UNCHANGED <<stateByPID, inherited, forking, live, confused, cwd>>
  BY Selected DEF OpensAt, CanCall, filterVars, SupportIds, KnowsInv, TypeInv
<1>1. PICK ret, hit, ev :
        /\ hit = Touches(p, {dirfd}, {name}) /\ ev = Event(p, id, ret, fd, path, FALSE, hit) /\ Submit(ev)
        /\ \/ /\ name \in files \cup dirs /\ ret \in Fd
              /\ fdTable' = [fdTable EXCEPT ![p][ret] = name]
              /\ Learns(p, ret, IF raw.abs THEN {} ELSE {dirfd})
           \/ ret = -1 /\ UNCHANGED <<fdTable, lost>>
  BY DEF OpensAt
<1>2. /\ ev.pid = p /\ ev.id = id /\ ev.ret = ret /\ ev.at = cwd[p] /\ ~ev.clone
      /\ ev.fd = fd /\ ev.path = path /\ ev.hit = hit
      /\ ev.doubt <=> \E i \in 0..5 : ev.fd[i] \in lost[p]
  BY <1>1 DEF Event
<1>3. /\ PathArgs(ev.id) = <<x>> /\ Argument(p, ev, x, dirfd, raw)
      /\ ~ev.doubt => ~Misled(p, dirfd, raw)
      /\ \A s : Synced(s) /\ Knows(s, fdTable[p], cwd[p], lost[p]) /\ ~ev.doubt
                        => Printed(s, ev)
  <2>1. OnePath(ev.id, x, dirfd, raw, ev.fd, ev.path)
    BY <1>2
  <2>2. ev.hit = Touches(p, {dirfd}, {Named(p, dirfd, raw)})
    BY <1>1, <1>2
  <2>3. KernelOK /\ HistoryOK /\ ev.at = cwd[p] /\ (ev.doubt <=> \E i \in 0..5 : ev.fd[i] \in lost[p])
    BY <1>0, <1>2
  <2> QED BY <2>1, <2>2, <2>3, OnePathCall
<1>4. CASE ret = -1 /\ UNCHANGED <<fdTable, lost>>
  <2>1. Heeded(p, ev)
    BY <1>0, <1>2, <1>3, <1>4, LookHeeded
  <2>2. OthersStay(p)
    BY <1>0, <1>4, AloneStay
  <2> QED BY <1>0, <1>1, <1>2, <2>1, <2>2, CallStep
<1>5. CASE /\ name \in files \cup dirs /\ ret \in Fd
           /\ fdTable' = [fdTable EXCEPT ![p][ret] = name]
           /\ Learns(p, ret, IF raw.abs THEN {} ELSE {dirfd})
  <2>1. /\ fdTable'[p][ret] = name /\ \A n \in Fd \ {ret} : fdTable'[p][n] = fdTable[p][n]
        /\ lost'[p] = IF Misled(p, dirfd, raw) THEN lost[p] \cup {ret} ELSE lost[p] \ {ret}
        /\ \A r \in Pid \ {p} : fdTable'[r] = fdTable[r] /\ lost'[r] = lost[r]
    BY <1>0, <1>5 DEF Learns, Misled, KernelOK, HistoryOK
  <2>2. OthersStay(p)
    BY <1>0, <2>1, AloneStay
  <2>3. name # NoPath /\ ret >= 0 /\ ret \in Int /\ x = IF id = "open" THEN 0 ELSE 1
    BY <1>0, <1>5, TreeAssumption, PidAssumption DEF KernelOK, OnePath
  <2>4. ASSUME NEW s, Synced(s), Knows(s, fdTable[p], cwd[p], lost[p])
        PROVE  Knows(Handled(s, ev), fdTable'[p], cwd'[p], lost'[p])
    <3>0. cwd[p] # NoPath
      BY <1>0, Here
    <3>1. PICK m, r, h : m = Matched(s, ev) /\ r = CacheCwd(m, ev, x, ev.at) /\ h = Handled(s, ev)
      OBVIOUS
    <3>2. Synced(m) /\ Knows(m, fdTable[p], cwd[p], lost[p])
      BY <1>2, <2>4, <3>0, <3>1, MatchedKnown
    <3>3. Knows(r, fdTable[p], cwd[p], lost[p]) /\ (UsesCwd(ev, x) => r.cwd # NoPath)
      BY <1>2, <3>0, <3>1, <3>2, CacheKnown
    <3>4. ~Misled(p, dirfd, raw) => ResolvePathAt(r, ev, x) = name
      BY <1>0, <1>3, <3>3, ResolveKnown
    <3>5. h = ObserveOpen(m, ev, x, ev.at)
      BY <1>2, <2>3, <3>1 DEF Handled, ObserveCall
    <3>6. /\ h.cwd = r.cwd
          /\ \A n \in Fd : h.fdPaths[n] = IF n = ev.ret /\ ResolvePathAt(r, ev, x) # NoPath
                                          THEN ResolvePathAt(r, ev, x) ELSE m.fdPaths[n]
      BY <1>2, <1>5, <3>1, <3>2, <3>5, OpenEffect
    <3>7. \A n \in Fd \ lost'[p] : h.fdPaths[n] = fdTable'[p][n]
      BY <1>2, <2>1, <2>3, <3>2, <3>4, <3>6 DEF Knows
    <3> QED BY <1>0, <3>1, <3>3, <3>6, <3>7 DEF Knows
  <2>5. Heeded(p, ev)
    BY <1>3, <2>4 DEF Heeded
  <2> QED BY <1>0, <1>1, <1>2, <2>2, <2>5, CallStep
<1> QED BY <1>1, <1>4, <1>5

\* AT_FDCWD is no descriptor.
LEMMA TouchesPath ==
    ASSUME NEW p, NEW paths
    PROVE  Touches(p, {AT_FDCWD}, paths) = Touches(p, {}, paths)
BY DEF Touches

\* The stat calls.
LEMMA LooksStep ==
    ASSUME KnowsInv, TypeInv', NEW p \in Pid, NEW id \in {"newstat", "newfstatat"}, CanCall(p, id),
           NEW x, NEW dirfd, NEW raw, NEW fd, NEW path, OnePath(id, x, dirfd, raw, fd, path), NEW hit,
           hit = Touches(p, {dirfd}, {Named(p, dirfd, raw)}),
           Submit(Event(p, id, 0, fd, path, FALSE, hit)), UNCHANGED <<filterVars, osVars, historyVars>>
    PROVE  KnowsInv'
<1>0. /\ p \in live /\ forking[p] = 0 /\ TypeInv /\ KernelOK /\ HistoryOK /\ KernelSelects(id)
      /\ UNCHANGED <<stateByPID, inherited, forking, live, confused, cwd, fdTable, lost>>
  BY Selected DEF CanCall, filterVars, osVars, historyVars, SupportIds, KnowsInv, TypeInv
<1>1. PICK ev : ev = Event(p, id, 0, fd, path, FALSE, hit) /\ Submit(ev)
  OBVIOUS
<1>2. /\ ev.pid = p /\ ev.id = id /\ ev.ret = 0 /\ ev.at = cwd[p] /\ ~ev.clone
      /\ ev.fd = fd /\ ev.path = path /\ ev.hit = hit
      /\ ev.doubt <=> \E i \in 0..5 : ev.fd[i] \in lost[p]
  BY <1>1 DEF Event
<1>3. \A s : Synced(s) /\ Knows(s, fdTable[p], cwd[p], lost[p]) /\ ~ev.doubt => Printed(s, ev)
  <2>1. OnePath(ev.id, x, dirfd, raw, ev.fd, ev.path)
    BY <1>2
  <2>2. ev.hit = Touches(p, {dirfd}, {Named(p, dirfd, raw)})
    BY <1>2
  <2>3. KernelOK /\ HistoryOK /\ ev.at = cwd[p] /\ (ev.doubt <=> \E i \in 0..5 : ev.fd[i] \in lost[p])
    BY <1>0, <1>2
  <2> QED BY <2>1, <2>2, <2>3, OnePathCall
<1>4. Heeded(p, ev)
  BY <1>0, <1>2, <1>3, LookHeeded
<1>5. OthersStay(p)
  BY <1>0, AloneStay
<1> QED BY <1>0, <1>1, <1>2, <1>4, <1>5, CallStep

\* chdir, to a directory or to none.
LEMMA ChdirStep ==
    ASSUME KnowsInv, TypeInv', NEW p \in Pid, NEW raw \in Raw, Chdir(p, raw)
    PROVE  KnowsInv'
<1> DEFINE name == Named(p, AT_FDCWD, raw)
<1>0. /\ p \in live /\ forking[p] = 0 /\ TypeInv /\ KernelOK /\ HistoryOK /\ KernelSelects("chdir")
      /\ UNCHANGED <<stateByPID, inherited, forking, live, confused, fdTable, lost>>
  BY Selected DEF Chdir, CanCall, filterVars, historyVars, SupportIds, KnowsInv, TypeInv
<1>1. PICK ev, hit, ret, path :
        /\ ret = (IF name \in dirs THEN 0 ELSE -1) /\ path = [NoPaths EXCEPT ![0] = raw]
        /\ hit = Touches(p, {}, {name}) /\ ev = Event(p, "chdir", ret, NoFds, path, FALSE, hit)
        /\ Submit(ev)
  BY DEF Chdir
<1>2. /\ ev.pid = p /\ ev.id = "chdir" /\ ev.ret = ret /\ ev.at = cwd[p] /\ ~ev.clone
      /\ ev.fd = NoFds /\ ev.path = path /\ ev.hit = hit
      /\ ev.doubt <=> \E i \in 0..5 : ev.fd[i] \in lost[p]
  BY <1>1 DEF Event
<1>3. /\ PathArgs(ev.id) = <<0>> /\ Argument(p, ev, 0, AT_FDCWD, raw)
      /\ \A s : Synced(s) /\ Knows(s, fdTable[p], cwd[p], lost[p]) /\ ~ev.doubt
                        => Printed(s, ev)
  <2>1. OnePath(ev.id, 0, AT_FDCWD, raw, ev.fd, ev.path)
    BY <1>1, <1>2 DEF OnePath
  <2>2. ev.hit = Touches(p, {AT_FDCWD}, {Named(p, AT_FDCWD, raw)})
    <3>1. PICK paths : paths = {Named(p, AT_FDCWD, raw)}
      OBVIOUS
    <3>2. Touches(p, {AT_FDCWD}, paths) = Touches(p, {}, paths)
      BY TouchesPath
    <3> QED BY <1>1, <1>2, <3>1, <3>2
  <2>3. KernelOK /\ HistoryOK /\ ev.at = cwd[p] /\ (ev.doubt <=> \E i \in 0..5 : ev.fd[i] \in lost[p])
    BY <1>0, <1>2
  <2> QED BY <2>1, <2>2, <2>3, OnePathCall
<1>4. ~Misled(p, AT_FDCWD, raw)
  BY <1>0, PidAssumption DEF Misled, HistoryOK, AT_FDCWD
<1>5. OthersStay(p)
  BY <1>0 DEF Chdir, OthersStay, Kin, KernelOK, HistoryOK
<1>6. CASE name \notin dirs
  <2>1. Heeded(p, ev)
    <3>1. cwd' = cwd /\ ret = -1
      BY <1>1, <1>6 DEF Chdir
    <3>2. ev.at = cwd[p] /\ ev.ret \in Int /\ ev.ret < 0
      BY <1>2, <3>1
    <3> QED BY <1>0, <1>3, <3>1, <3>2, LookHeeded
  <2> QED BY <1>0, <1>1, <1>2, <1>5, <2>1, CallStep DEF Moves
<1>7. CASE name \in dirs
  <2>1. cwd'[p] = name /\ name # NoPath
    BY <1>0, <1>7, TreeAssumption DEF Chdir, KernelOK
  <2>2. ASSUME NEW s, Synced(s), Knows(s, fdTable[p], cwd[p], lost[p])
        PROVE  Knows(Handled(s, ev), fdTable'[p], cwd'[p], lost'[p])
    <3>0. cwd[p] # NoPath
      BY <1>0, Here
    <3>1. PICK m, r, h : m = Matched(s, ev) /\ r = CacheCwd(m, ev, 0, ev.at) /\ h = Handled(s, ev)
      OBVIOUS
    <3>2. Synced(m) /\ Knows(m, fdTable[p], cwd[p], lost[p])
      BY <1>2, <2>2, <3>0, <3>1, MatchedKnown
    <3>3. Synced(r) /\ Knows(r, fdTable[p], cwd[p], lost[p]) /\ (UsesCwd(ev, 0) => r.cwd # NoPath)
      BY <1>2, <3>0, <3>1, <3>2, CacheKnown
    <3>4. ResolvePathAt(r, ev, 0) = name
      BY <1>0, <1>3, <1>4, <3>3, ResolveKnown
    <3>5. h = [r EXCEPT !.cwd = name]
      <4>1. ev.id = "chdir" /\ ev.ret = 0
        BY <1>1, <1>2, <1>7
      <4>2. ObserveCall(m, ev, ev.at) = ObserveChdir(m, ev, ev.at)
        BY <4>1 DEF ObserveCall
      <4>3. ObserveChdir(m, ev, ev.at) = [r EXCEPT !.cwd = name]
        BY <2>1, <3>1, <3>4 DEF ObserveChdir
      <4> QED BY <3>1, <4>2, <4>3 DEF Handled
    <3>6. h.cwd = name /\ h.fdPaths = r.fdPaths
      BY <3>3, <3>5 DEF Synced, IsState
    <3> QED BY <1>0, <2>1, <3>1, <3>3, <3>6 DEF Knows
  <2>3. Heeded(p, ev)
    BY <1>3, <2>2 DEF Heeded
  <2> QED BY <1>0, <1>1, <1>2, <1>5, <2>3, CallStep DEF Moves
<1> QED BY <1>6, <1>7

\* unlink and unlinkat: the name goes from every descriptor.
LEMMA UnlinksStep ==
    ASSUME KnowsInv, TypeInv', NEW p \in Pid, NEW id \in {"unlink", "unlinkat"}, NEW x, NEW dirfd, NEW raw,
           NEW fd, NEW path, OnePath(id, x, dirfd, raw, fd, path), Unlinks(p, id, dirfd, raw, fd, path)
    PROVE  KnowsInv'
<1> DEFINE name == Named(p, dirfd, raw)
<1>0. /\ p \in live /\ forking[p] = 0 /\ TypeInv /\ KernelOK /\ HistoryOK /\ KernelSelects(id)
      /\ UNCHANGED <<stateByPID, inherited, forking, live, cwd, lost>>
  BY Selected DEF Unlinks, CanCall, filterVars, SupportIds, KnowsInv, TypeInv
<1>1. PICK ev, hit : /\ hit = Touches(p, {dirfd}, {name})
                     /\ ev = Event(p, id, 0, fd, path, FALSE, hit) /\ Submit(ev)
  BY DEF Unlinks
<1>2. /\ ev.pid = p /\ ev.id = id /\ ev.ret = 0 /\ ev.at = cwd[p] /\ ~ev.clone
      /\ ev.fd = fd /\ ev.path = path /\ ev.hit = hit
      /\ ev.doubt <=> \E i \in 0..5 : ev.fd[i] \in lost[p]
  BY <1>1 DEF Event
<1>3. /\ PathArgs(ev.id) = <<x>> /\ Argument(p, ev, x, dirfd, raw)
      /\ \A s : Synced(s) /\ Knows(s, fdTable[p], cwd[p], lost[p]) /\ ~ev.doubt
                        => Printed(s, ev)
  <2>1. OnePath(ev.id, x, dirfd, raw, ev.fd, ev.path)
    BY <1>2
  <2>2. ev.hit = Touches(p, {dirfd}, {Named(p, dirfd, raw)})
    BY <1>1, <1>2
  <2>3. KernelOK /\ HistoryOK /\ ev.at = cwd[p] /\ (ev.doubt <=> \E i \in 0..5 : ev.fd[i] \in lost[p])
    BY <1>0, <1>2
  <2> QED BY <2>1, <2>2, <2>3, OnePathCall
<1>4. /\ confused \subseteq confused'
      /\ \A r \in live \ (confused' \cup {p}) : fdTable'[r] = fdTable[r]
      /\ Misled(p, dirfd, raw) => p \in confused'
      /\ \A r \in Pid : \A n \in Fd : fdTable'[r][n] = IF fdTable[r][n] = name THEN NoPath
                                                       ELSE fdTable[r][n]
      /\ name \in files
  BY DEF Unlinks
<1>5. OthersStay(p)
  BY <1>0, <1>4 DEF OthersStay, Kin
<1>6. ASSUME ~Misled(p, dirfd, raw) PROVE Heeded(p, ev)
  <2>1. name # NoPath /\ x = IF id = "unlink" THEN 0 ELSE 1
    BY <1>0, <1>4, TreeAssumption DEF KernelOK, OnePath
  <2>2. ASSUME NEW s, Synced(s), Knows(s, fdTable[p], cwd[p], lost[p])
        PROVE  Knows(Handled(s, ev), fdTable'[p], cwd'[p], lost'[p])
    <3>0. cwd[p] # NoPath
      BY <1>0, Here
    <3>1. PICK m, r, h : m = Matched(s, ev) /\ r = CacheCwd(m, ev, x, ev.at) /\ h = Handled(s, ev)
      OBVIOUS
    <3>2. Synced(m) /\ Knows(m, fdTable[p], cwd[p], lost[p])
      BY <1>2, <2>2, <3>0, <3>1, MatchedKnown
    <3>3. Synced(r) /\ Knows(r, fdTable[p], cwd[p], lost[p]) /\ (UsesCwd(ev, x) => r.cwd # NoPath)
      BY <1>2, <3>0, <3>1, <3>2, CacheKnown
    <3>4. ResolvePathAt(r, ev, x) = name
      BY <1>0, <1>3, <1>6, <3>3, ResolveKnown
    <3>5. h = DropPIDPaths(r, name)
      BY <1>2, <2>1, <3>1, <3>4 DEF Handled, ObserveCall, ObserveUnlink
    <3>6. h.cwd = r.cwd /\ \A n \in Fd : h.fdPaths[n] = IF r.fdPaths[n] = name THEN NoPath ELSE r.fdPaths[n]
      BY <3>5 DEF DropPIDPaths
    <3> QED BY <1>0, <1>4, <3>1, <3>3, <3>6 DEF Knows
  <2> QED BY <1>3, <2>2 DEF Heeded
<1> QED BY <1>0, <1>1, <1>2, <1>4, <1>5, <1>6, CallStep
-----------------------------------------------------------------------------
(***************************************************************************)
(* The calls without a path.                                               *)
(***************************************************************************)
\* A call without a path is printed if and only if a descriptor is traced.
LEMMA NoPathCall ==
    ASSUME KernelOK, NEW p \in Pid, NEW ev, PathArgs(ev.id) = <<>>, ev.at = cwd[p],
           ev.doubt <=> \E i \in 0..5 : ev.fd[i] \in lost[p],
           NEW fds \in SUBSET (Fd \cup {AT_FDCWD}), Looks(ev, fds), ev.hit = Touches(p, fds, {})
    PROVE  /\ \A s : Matched(s, ev) = s
           /\ \A s : Synced(s) /\ Knows(s, fdTable[p], cwd[p], lost[p]) /\ ~ev.doubt
                        => Printed(s, ev)
<1>1. \A s : Matched(s, ev) = s
  BY DEF Matched, AfterMatch
<1>2. ASSUME NEW s, Synced(s), Knows(s, fdTable[p], cwd[p], lost[p]), ~ev.doubt
      PROVE  Printed(s, ev)
  <2>1. \A m : ~MatchesPath(m, ev)
    BY DEF MatchesPath
  <2>2. PICK paths : paths = {}
    OBVIOUS
  <2>3. \A i \in 0..5 : ev.fd[i] \notin lost[p]
    BY <1>2
  <2>4. UserAllows(ev.id) => (MatchesPath(Matched(s, ev), ev) <=> \E q \in paths : q \in TracePaths)
    BY <2>1, <2>2
  <2> QED BY <1>2, <2>2, <2>3, <2>4, Here, PrintedKnown
<1> QED BY <1>1, <1>2

\* What observe has no handler for changes nothing.
LEMMA NotObserved ==
    ASSUME NEW ev, ev.id \notin SupportIds, NEW s
    PROVE  Handled(s, ev) = s
<1>1. PathArgs(ev.id) = <<>>
  BY PathArgsOf DEF SupportIds
<1>2. Matched(s, ev) = s
  BY <1>1 DEF Matched, AfterMatch
<1>3. ObserveCall(s, ev, ev.at) = s
  BY DEF ObserveCall, SupportIds
<1> QED BY <1>2, <1>3 DEF Handled

\* A call of the table that has descriptors and no handler.
LEMMA UseStep ==
    ASSUME KnowsInv, TypeInv', NEW p \in Pid, NEW id \in UseIds,
           NEW arg \in [RealFdArgs(id) \cup NumberArgs(id) -> Fd], Use(p, id, arg)
    PROVE  KnowsInv'
<1>0. /\ p \in live /\ forking[p] = 0 /\ TypeInv /\ KernelOK /\ HistoryOK /\ id \in program
      /\ UNCHANGED <<stateByPID, inherited, forking, live, confused, cwd, fdTable, lost>>
  BY DEF Use, CanCall, filterVars, osVars, historyVars, KnowsInv, TypeInv
<1>1. PICK used, ret, fd, hit, ev :
        /\ used = {arg[i] : i \in RealFdArgs(id)} /\ hit = Touches(p, used, {})
        /\ fd = [i \in 0..5 |-> IF i \in DOMAIN arg THEN arg[i] ELSE AT_FDCWD]
        /\ ev = Event(p, id, ret, fd, NoPaths, FALSE, hit) /\ Submit(ev)
  BY DEF Use
<1>2. /\ ev.pid = p /\ ev.id = id /\ ev.at = cwd[p] /\ ~ev.clone
      /\ ev.fd = fd /\ ev.hit = hit
      /\ ev.doubt <=> \E i \in 0..5 : ev.fd[i] \in lost[p]
  BY <1>1 DEF Event
<1>3. ev.id \notin SupportIds /\ PathArgs(ev.id) = <<>>
  BY <1>2, UseId
<1>4. ASSUME NoCounts PROVE Looks(ev, used)
  <2>1. id \notin {"poll", "ppoll", "pidfd_getfd"}
    BY <1>0, <1>4 DEF NoCounts, HistoryOK
  <2>2. NumberArgs(id) = {}
    BY <2>1 DEF NumberArgs
  <2>3. DOMAIN arg = RealFdArgs(id)
    BY <2>2
  <2>4. EventFdArgs(ev.id) = FdArgs(id)
    BY <1>2, <1>3 DEF EventFdArgs, SupportIds
  <2>5. RealFdArgs(id) \subseteq FdArgs(id) /\ FdArgs(id) \subseteq 0..5
    BY DEF RealFdArgs, FdArgs
  <2>6. AT_FDCWD \notin Fd
    BY PidAssumption DEF AT_FDCWD
  <2>7. ASSUME NEW n \in Fd, n \in used PROVE \E i \in EventFdArgs(ev.id) : ev.fd[i] = n
    <3>1. PICK i \in RealFdArgs(id) : arg[i] = n
      BY <1>1, <2>7
    <3>2. i \in EventFdArgs(ev.id) /\ i \in 0..5 /\ i \in DOMAIN arg
      BY <2>3, <2>4, <2>5, <3>1
    <3> QED BY <1>1, <1>2, <3>1, <3>2
  <2>8. ASSUME NEW n \in Fd, NEW i \in EventFdArgs(ev.id), ev.fd[i] = n PROVE n \in used
    <3>1. i \in 0..5 /\ fd[i] = n
      BY <1>2, <2>4, <2>5, <2>8
    <3>2. i \in DOMAIN arg /\ arg[i] = n
      BY <1>1, <2>6, <3>1
    <3> QED BY <1>1, <2>3, <3>2
  <2> QED BY <2>7, <2>8 DEF Looks
<1>5. used \in SUBSET (Fd \cup {AT_FDCWD})
  BY <1>1
<1>6. ASSUME NEW s, Synced(s), Knows(s, fdTable[p], cwd[p], lost[p]), NoCounts, ~ev.doubt
      PROVE  Printed(s, ev)
  <2>1. Looks(ev, used)
    BY <1>4, <1>6
  <2>2. ev.hit = Touches(p, used, {})
    BY <1>1, <1>2
  <2> QED BY <1>0, <1>2, <1>3, <1>5, <1>6, <2>1, <2>2, NoPathCall
<1>7. \A s : Synced(s) => Handled(s, ev) = s
  BY <1>3, NotObserved
<1>8. \A r \in Pid : lost[r] \subseteq lost'[r]
  BY <1>0
<1> QED BY <1>0, <1>1, <1>2, <1>6, <1>7, <1>8, UnhandledStep

\* Descriptors are closed by a call that observe has no handler for.
LEMMA ClosesStep ==
    ASSUME KnowsInv, TypeInv', NEW p \in Pid, NEW id, id \notin SupportIds, NEW fds,
           NEW fd, NEW used \in SUBSET Fd, ClosesUnobserved(p, id, fds, fd, used),
           NEW ev, ev = Event(p, id, 0, fd, NoPaths, FALSE, Touches(p, used, {})), Looks(ev, used)
    PROVE  KnowsInv'
<1>0. /\ p \in live /\ forking[p] = 0 /\ TypeInv /\ KernelOK /\ HistoryOK
      /\ UNCHANGED <<stateByPID, inherited, forking, live, confused, cwd>>
  BY DEF ClosesUnobserved, CanCall, filterVars, KnowsInv, TypeInv
<1>1. /\ ev.pid = p /\ ev.id = id /\ ev.at = cwd[p] /\ ~ev.clone
      /\ ev.fd = fd /\ ev.hit = Touches(p, used, {})
      /\ ev.doubt <=> \E i \in 0..5 : ev.fd[i] \in lost[p]
  BY DEF Event
<1>2. /\ lost' = [lost EXCEPT ![p] = @ \cup {n \in fds : fdTable[p][n] # NoPath}]
      /\ fdTable' = [fdTable EXCEPT ![p] = [n \in Fd |-> IF n \in fds THEN NoPath ELSE @[n]]]
      /\ Submit(ev)
  BY DEF ClosesUnobserved, Misses
<1>3. /\ lost'[p] = lost[p] \cup {n \in fds : fdTable[p][n] # NoPath}
      /\ \A n \in Fd : fdTable'[p][n] = IF n \in fds THEN NoPath ELSE fdTable[p][n]
      /\ \A r \in Pid \ {p} : fdTable'[r] = fdTable[r] /\ lost'[r] = lost[r]
  BY <1>0, <1>2 DEF KernelOK, HistoryOK
<1>4. /\ \A r \in Pid : lost[r] \subseteq lost'[r]
      /\ \A n \in Fd \ lost'[p] : fdTable'[p][n] = fdTable[p][n]
  BY <1>3
<1>5. PathArgs(ev.id) = <<>>
  BY <1>1, PathArgsOf DEF SupportIds
<1>6. \A s : Synced(s) => Handled(s, ev) = s
  BY <1>1, NotObserved
<1>7. used \in SUBSET (Fd \cup {AT_FDCWD})
  OBVIOUS
<1>8. \A s : Synced(s) /\ Knows(s, fdTable[p], cwd[p], lost[p]) /\ ~ev.doubt
                => Printed(s, ev)
  BY <1>0, <1>1, <1>5, <1>7, NoPathCall
<1> QED BY <1>0, <1>1, <1>2, <1>3, <1>4, <1>6, <1>8, UnhandledStep

\* close_range.
LEMMA CloseRangeStep ==
    ASSUME KnowsInv, TypeInv', NEW p \in Pid, NEW first \in Fd, NEW last \in Fd, CloseRange(p, first, last)
    PROVE  KnowsInv'
<1>1. PICK fd, used, fds, ev :
        /\ fd = [NoFds EXCEPT ![0] = first, ![1] = last] /\ used = {first, last}
        /\ fds = Fd \cap first..last
        /\ ev = Event(p, "close_range", 0, fd, NoPaths, FALSE, Touches(p, used, {}))
  OBVIOUS
<1>2. fd[0] = first /\ fd[1] = last /\ \A i \in 2..5 : fd[i] = AT_FDCWD
  BY <1>1 DEF NoFds
<1>3. ev.id = "close_range" /\ ev.fd = fd
  BY <1>1 DEF Event
<1>4. EventFdArgs(ev.id) = FdArgs("close_range") /\ EventFdArgs(ev.id) \subseteq 0..5
  BY <1>3, EventFdArgsType DEF EventFdArgs
<1>5. 0 \in EventFdArgs(ev.id) /\ 1 \in EventFdArgs(ev.id)
  BY <1>4, CallFds
<1>6. Looks(ev, used)
  <2>1. AT_FDCWD \notin Fd
    BY PidAssumption DEF AT_FDCWD
  <2>2. \A i \in 0..5 : i = 0 \/ i = 1 \/ i \in 2..5
    OBVIOUS
  <2>3. ASSUME NEW n \in Fd, n \in used PROVE \E i \in EventFdArgs(ev.id) : ev.fd[i] = n
    BY <1>1, <1>2, <1>3, <1>5, <2>3
  <2>4. ASSUME NEW n \in Fd, NEW i \in EventFdArgs(ev.id), ev.fd[i] = n PROVE n \in used
    <3>1. i \in 0..5
      BY <1>4
    <3> QED BY <1>1, <1>2, <1>3, <2>1, <2>2, <2>4, <3>1
  <2> QED BY <2>3, <2>4 DEF Looks
<1>7. ClosesUnobserved(p, "close_range", fds, fd, used)
  BY <1>1 DEF CloseRange
<1>8. "close_range" \notin SupportIds /\ used \in SUBSET Fd
  BY <1>1 DEF SupportIds
<1> QED BY <1>1, <1>6, <1>7, <1>8, ClosesStep

\* execve, which closes what is marked close-on-exec.
LEMMA ExecveStep ==
    ASSUME KnowsInv, TypeInv', NEW p \in Pid, NEW marked \in SUBSET Fd, Execve(p, marked)
    PROVE  KnowsInv'
<1>1. PICK fd, used, ev :
        fd = NoFds /\ used = {} /\ ev = Event(p, "execve", 0, fd, NoPaths, FALSE, Touches(p, used, {}))
  OBVIOUS
<1>2. ev.fd = NoFds /\ EventFdArgs(ev.id) \subseteq 0..5
  BY <1>1, EventFdArgsType DEF Event
<1>3. Looks(ev, used)
  <2>1. ASSUME NEW i \in EventFdArgs(ev.id) PROVE ev.fd[i] \notin Fd
    <3>1. i \in 0..5
      BY <1>2
    <3>2. ev.fd[i] = AT_FDCWD
      BY <1>2, <3>1 DEF NoFds
    <3> QED BY <3>2, PidAssumption DEF AT_FDCWD
  <2> QED BY <1>1, <2>1 DEF Looks
<1>4. ClosesUnobserved(p, "execve", marked, fd, used)
  BY <1>1 DEF Execve
<1>5. "execve" \notin SupportIds /\ used \in SUBSET Fd
  BY <1>1 DEF SupportIds
<1> QED BY <1>1, <1>3, <1>4, <1>5, ClosesStep

\* The descriptors that are looked at, of a call with two.
LEMMA LooksTwo ==
    ASSUME NEW ev, NEW a, NEW b, NEW y \in {1, 2}, ev.fd = [NoFds EXCEPT ![0] = a, ![y] = b],
           0 \in EventFdArgs(ev.id), y \in EventFdArgs(ev.id)
    PROVE  Looks(ev, {a, b})
<1>1. ev.fd[0] = a /\ ev.fd[y] = b /\ \A i \in 0..5 : i = 0 \/ i = y \/ ev.fd[i] = AT_FDCWD
  BY DEF NoFds
<1>2. AT_FDCWD \notin Fd /\ EventFdArgs(ev.id) \subseteq 0..5
  BY PidAssumption, EventFdArgsType DEF AT_FDCWD
<1>3. ASSUME NEW n \in Fd, NEW i \in EventFdArgs(ev.id), ev.fd[i] = n PROVE n \in {a, b}
  BY <1>1, <1>2, <1>3
<1> QED BY <1>1, <1>3 DEF Looks

\* The same of a call with one.
LEMMA LooksOne ==
    ASSUME NEW ev, NEW a, ev.fd = [NoFds EXCEPT ![0] = a], 0 \in EventFdArgs(ev.id)
    PROVE  Looks(ev, {a})
<1>1. ev.fd[0] = a /\ \A i \in 0..5 : i = 0 \/ ev.fd[i] = AT_FDCWD
  BY DEF NoFds
<1>2. AT_FDCWD \notin Fd /\ EventFdArgs(ev.id) \subseteq 0..5
  BY PidAssumption, EventFdArgsType DEF AT_FDCWD
<1>3. ASSUME NEW n \in Fd, NEW i \in EventFdArgs(ev.id), ev.fd[i] = n PROVE n = a
  BY <1>1, <1>2, <1>3
<1> QED BY <1>1, <1>3 DEF Looks

\* A call on descriptors that changes one of them.
LEMMA DescriptorStep ==
    ASSUME KnowsInv, TypeInv', NEW p \in Pid, p \in live, forking[p] = 0,
           UNCHANGED <<stateByPID, inherited, forking, live, confused, cwd>>,
           \A r \in Pid \ {p} : fdTable'[r] = fdTable[r] /\ lost'[r] = lost[r],
           NEW ev, ev.pid = p, ev.at = cwd[p], ~ev.clone, Submit(ev),
           ev.doubt <=> \E i \in 0..5 : ev.fd[i] \in lost[p],
           ev.id \in SupportIds, PathArgs(ev.id) = <<>>,
           NEW fds \in SUBSET Fd, Looks(ev, fds), ev.hit = Touches(p, fds, {}),
           \A s : Synced(s) /\ Knows(s, fdTable[p], cwd[p], lost[p]) =>
                    Knows(ObserveCall(s, ev, ev.at), fdTable'[p], cwd[p], lost'[p])
    PROVE  KnowsInv'
<1>1. TypeInv /\ KernelOK /\ fds \in SUBSET (Fd \cup {AT_FDCWD}) /\ KernelSelects(ev.id)
  BY Selected DEF KnowsInv, TypeInv
<1>2. /\ \A s : Matched(s, ev) = s
      /\ \A s : Synced(s) /\ Knows(s, fdTable[p], cwd[p], lost[p]) /\ ~ev.doubt
                   => Printed(s, ev)
  BY <1>1, NoPathCall
<1>3. Heeded(p, ev)
  BY <1>2 DEF Heeded, Handled
<1>4. OthersStay(p)
  BY <1>1, AloneStay
<1> QED BY <1>1, <1>3, <1>4, CallStep

\* close.
LEMMA CloseStep ==
    ASSUME KnowsInv, TypeInv', NEW p \in Pid, NEW fd \in Fd, Close(p, fd)
    PROVE  KnowsInv'
<1>0. /\ p \in live /\ forking[p] = 0 /\ KernelOK /\ HistoryOK
      /\ UNCHANGED <<stateByPID, inherited, forking, live, confused, cwd>>
  BY DEF Close, CanCall, filterVars, KnowsInv, TypeInv
<1>1. PICK ev, fds : /\ fds = {fd}
                     /\ ev = Event(p, "close", 0, [NoFds EXCEPT ![0] = fd], NoPaths, FALSE,
                                   Touches(p, fds, {}))
                     /\ Submit(ev)
  BY DEF Close
<1>2. /\ ev.pid = p /\ ev.id = "close" /\ ev.ret = 0 /\ ev.at = cwd[p] /\ ~ev.clone
      /\ ev.fd = [NoFds EXCEPT ![0] = fd] /\ ev.hit = Touches(p, fds, {})
      /\ ev.doubt <=> \E i \in 0..5 : ev.fd[i] \in lost[p]
  BY <1>1 DEF Event
<1>3. /\ lost'[p] = lost[p] \ {fd}
      /\ \A n \in Fd : fdTable'[p][n] = IF n = fd THEN NoPath ELSE fdTable[p][n]
      /\ \A r \in Pid \ {p} : fdTable'[r] = fdTable[r] /\ lost'[r] = lost[r]
  BY <1>0 DEF Close, Learns, KernelOK, HistoryOK
<1>4. Looks(ev, fds)
  <2>1. 0 \in EventFdArgs(ev.id)
    BY <1>2, CallFds DEF EventFdArgs
  <2> QED BY <1>1, <1>2, <2>1, LooksOne
<1>5. ASSUME NEW s, Synced(s), Knows(s, fdTable[p], cwd[p], lost[p])
      PROVE  Knows(ObserveCall(s, ev, ev.at), fdTable'[p], cwd[p], lost'[p])
  <2>1. ev.fd[0] = fd
    BY <1>2 DEF NoFds
  <2>2. ObserveCall(s, ev, ev.at) = ClearFD(s, fd)
    BY <1>2, <2>1 DEF ObserveCall, ObserveClose
  <2> QED BY <1>3, <1>5, <2>2, ClearEffect DEF Knows
<1>6. PathArgs(ev.id) = <<>> /\ ev.id \in SupportIds /\ fds \in SUBSET Fd
  BY <1>1, <1>2, PathArgsOf DEF SupportIds
<1> QED BY <1>0, <1>1, <1>2, <1>3, <1>4, <1>5, <1>6, DescriptorStep

\* What the filter is sure of, once it has learnt of a descriptor from another.
LEMMA LearnsFrom ==
    ASSUME HistoryOK, NEW p \in Pid, NEW new \in Fd, NEW fd, Learns(p, new, {fd})
    PROVE  /\ lost'[p] = IF fd \in lost[p] THEN lost[p] \cup {new} ELSE lost[p] \ {new}
           /\ \A r \in Pid \ {p} : lost'[r] = lost[r]
BY DEF Learns, HistoryOK

\* dup: the new descriptor is known if the old one is.
LEMMA DupStep ==
    ASSUME KnowsInv, TypeInv', NEW p \in Pid, NEW fd \in Fd, NEW new \in Fd, Dup(p, fd, new)
    PROVE  KnowsInv'
<1>0. /\ p \in live /\ forking[p] = 0 /\ KernelOK /\ HistoryOK /\ fdTable[p][fd] # NoPath
      /\ UNCHANGED <<stateByPID, inherited, forking, live, confused, cwd>>
  BY DEF Dup, CanCall, filterVars, KnowsInv, TypeInv
<1>1. PICK ev, fds : /\ fds = {fd}
                     /\ ev = Event(p, "dup", new, [NoFds EXCEPT ![0] = fd], NoPaths, FALSE,
                                   Touches(p, fds, {}))
                     /\ Submit(ev)
  BY DEF Dup
<1>2. /\ ev.pid = p /\ ev.id = "dup" /\ ev.ret = new /\ ev.at = cwd[p] /\ ~ev.clone
      /\ ev.fd = [NoFds EXCEPT ![0] = fd] /\ ev.hit = Touches(p, fds, {})
      /\ ev.doubt <=> \E i \in 0..5 : ev.fd[i] \in lost[p]
  BY <1>1 DEF Event
<1>3. /\ lost'[p] = IF fd \in lost[p] THEN lost[p] \cup {new} ELSE lost[p] \ {new}
      /\ \A n \in Fd : fdTable'[p][n] = IF n = new THEN fdTable[p][fd] ELSE fdTable[p][n]
      /\ \A r \in Pid \ {p} : fdTable'[r] = fdTable[r] /\ lost'[r] = lost[r]
  BY <1>0, LearnsFrom DEF Dup, KernelOK
<1>4. Looks(ev, fds)
  <2>1. 0 \in EventFdArgs(ev.id)
    BY <1>2, CallFds DEF EventFdArgs
  <2> QED BY <1>1, <1>2, <2>1, LooksOne
<1>5. ASSUME NEW s, Synced(s), Knows(s, fdTable[p], cwd[p], lost[p])
      PROVE  Knows(ObserveCall(s, ev, ev.at), fdTable'[p], cwd[p], lost'[p])
  <2>1. ev.fd[0] = fd /\ ev.ret >= 0
    BY <1>2, PidAssumption DEF NoFds
  <2>2. PICK h : h = ObserveDupRet(s, ev)
    OBVIOUS
  <2>3. ObserveCall(s, ev, ev.at) = h
    BY <1>2, <2>1, <2>2 DEF ObserveCall
  <2>4. h.cwd = s.cwd /\ \A n \in Fd : h.fdPaths[n] = IF n = new /\ s.fdPaths[fd] # NoPath THEN s.fdPaths[fd]
                                                       ELSE s.fdPaths[n]
    <3>1. ev.ret \in Fd /\ FdPath(s, ev.fd[0]) = s.fdPaths[fd]
      BY <1>2, <2>1 DEF FdPath
    <3>2. PICK path : path = FdPath(s, ev.fd[0])
      OBVIOUS
    <3>3. /\ h.cwd = s.cwd
          /\ \A n \in Fd : h.fdPaths[n] = IF n = ev.ret /\ path # NoPath THEN path ELSE s.fdPaths[n]
      BY <1>5, <2>2, <3>1, <3>2, DupEffect
    <3> QED BY <1>2, <3>1, <3>2, <3>3
  <2> QED BY <1>0, <1>3, <1>5, <2>3, <2>4 DEF Knows
<1>6. PathArgs(ev.id) = <<>> /\ ev.id \in SupportIds /\ fds \in SUBSET Fd
  BY <1>1, <1>2, PathArgsOf DEF SupportIds
<1> QED BY <1>0, <1>1, <1>2, <1>3, <1>4, <1>5, <1>6, DescriptorStep

\* F_DUPFD: the filter learns of the duplicates of traced files alone.
LEMMA FcntlDupStep ==
    ASSUME KnowsInv, TypeInv', NEW p \in Pid, NEW fd \in Fd, NEW new \in Fd, FcntlDup(p, fd, new)
    PROVE  KnowsInv'
<1>0. /\ p \in live /\ forking[p] = 0 /\ KernelOK /\ HistoryOK /\ fdTable[p][fd] # NoPath
      /\ UNCHANGED <<stateByPID, inherited, forking, live, confused, cwd>>
  BY DEF FcntlDup, CanCall, filterVars, KnowsInv, TypeInv
<1>1. PICK ev, fds : /\ fds = {fd}
                     /\ ev = Event(p, "fcntl_dupfd", new, [NoFds EXCEPT ![0] = fd], NoPaths, FALSE,
                                   Touches(p, fds, {}))
                     /\ Submit(ev)
  BY DEF FcntlDup
<1>2. /\ ev.pid = p /\ ev.id = "fcntl_dupfd" /\ ev.ret = new /\ ev.at = cwd[p] /\ ~ev.clone
      /\ ev.fd = [NoFds EXCEPT ![0] = fd] /\ ev.hit = Touches(p, fds, {})
      /\ ev.doubt <=> \E i \in 0..5 : ev.fd[i] \in lost[p]
  BY <1>1 DEF Event
<1>3. /\ lost'[p] = IF fdTable[p][fd] \in TracePaths /\ fd \notin lost[p] THEN lost[p] \ {new}
                    ELSE lost[p] \cup {new}
      /\ \A r \in Pid \ {p} : lost'[r] = lost[r]
  <2>1. CASE fdTable[p][fd] \in TracePaths
    BY <1>0, <2>1, LearnsFrom DEF FcntlDup
  <2>2. CASE fdTable[p][fd] \notin TracePaths
    BY <1>0, <2>2 DEF FcntlDup, Misses, HistoryOK
  <2> QED BY <2>1, <2>2
<1>4. /\ \A n \in Fd : fdTable'[p][n] = IF n = new THEN fdTable[p][fd] ELSE fdTable[p][n]
      /\ \A r \in Pid \ {p} : fdTable'[r] = fdTable[r]
  BY <1>0 DEF FcntlDup, KernelOK
<1>5. Looks(ev, fds)
  <2>1. 0 \in EventFdArgs(ev.id)
    BY <1>2, CallFds DEF EventFdArgs
  <2> QED BY <1>1, <1>2, <2>1, LooksOne
<1>6. ASSUME NEW s, Synced(s), Knows(s, fdTable[p], cwd[p], lost[p])
      PROVE  Knows(ObserveCall(s, ev, ev.at), fdTable'[p], cwd[p], lost'[p])
  <2>1. ev.fd[0] = fd /\ ev.ret >= 0
    BY <1>2, PidAssumption DEF NoFds
  <2>2. PICK h : h = ObserveFcntl(s, ev)
    OBVIOUS
  <2>3. ObserveCall(s, ev, ev.at) = h
    BY <1>2, <2>1, <2>2 DEF ObserveCall
  <2>4. /\ h.cwd = s.cwd
        /\ \A n \in Fd : h.fdPaths[n] = IF n = new /\ s.fdPaths[fd] \in TracePaths THEN s.fdPaths[fd]
                                         ELSE s.fdPaths[n]
    <3>1. ev.ret \in Fd /\ FdPath(s, ev.fd[0]) = s.fdPaths[fd]
      BY <1>2, <2>1 DEF FdPath
    <3>2. PICK path : path = FdPath(s, ev.fd[0])
      OBVIOUS
    <3>3. /\ h.cwd = s.cwd
          /\ \A n \in Fd : h.fdPaths[n] = IF n = ev.ret /\ path \in TracePaths THEN path ELSE s.fdPaths[n]
      BY <1>6, <2>2, <3>1, <3>2, DupEffect
    <3> QED BY <1>2, <3>1, <3>2, <3>3
  <2> QED BY <1>0, <1>3, <1>4, <1>6, <2>3, <2>4 DEF Knows
<1>7. PathArgs(ev.id) = <<>> /\ ev.id \in SupportIds /\ fds \in SUBSET Fd
  BY <1>1, <1>2, PathArgsOf DEF SupportIds
<1> QED BY <1>0, <1>1, <1>2, <1>3, <1>4, <1>5, <1>6, <1>7, DescriptorStep

\* dup2, on a descriptor that may be open.
LEMMA DupPairStep ==
    ASSUME KnowsInv, TypeInv', NEW p \in Pid, NEW fd \in Fd, NEW new \in Fd, Dup2(p, fd, new)
    PROVE  KnowsInv'
<1>0. /\ p \in live /\ forking[p] = 0 /\ KernelOK /\ HistoryOK /\ fdTable[p][fd] # NoPath
      /\ UNCHANGED <<stateByPID, inherited, forking, live, confused, cwd>>
  BY DEF Dup2, CanCall, filterVars, KnowsInv, TypeInv
<1>1. PICK ev, fds : /\ fds = {fd, new}
                     /\ ev = Event(p, "dup2", new, [NoFds EXCEPT ![0] = fd, ![1] = new], NoPaths, FALSE,
                                   Touches(p, fds, {}))
                     /\ Submit(ev)
  BY DEF Dup2
<1>2. /\ ev.pid = p /\ ev.id = "dup2" /\ ev.ret = new /\ ev.at = cwd[p] /\ ~ev.clone
      /\ ev.fd = [NoFds EXCEPT ![0] = fd, ![1] = new] /\ ev.hit = Touches(p, fds, {})
      /\ ev.doubt <=> \E i \in 0..5 : ev.fd[i] \in lost[p]
  BY <1>1 DEF Event
<1>3. /\ lost'[p] = IF fd \in lost[p] THEN lost[p] \cup {new} ELSE lost[p] \ {new}
      /\ \A n \in Fd : fdTable'[p][n] = IF n = new THEN fdTable[p][fd] ELSE fdTable[p][n]
      /\ \A r \in Pid \ {p} : fdTable'[r] = fdTable[r] /\ lost'[r] = lost[r]
  BY <1>0, LearnsFrom DEF Dup2, KernelOK
<1>4. Looks(ev, fds)
  <2>1. 0 \in EventFdArgs(ev.id) /\ 1 \in EventFdArgs(ev.id)
    BY <1>2, CallFds DEF EventFdArgs
  <2> QED BY <1>1, <1>2, <2>1, LooksTwo
<1>5. ASSUME NEW s, Synced(s), Knows(s, fdTable[p], cwd[p], lost[p])
      PROVE  Knows(ObserveCall(s, ev, ev.at), fdTable'[p], cwd[p], lost'[p])
  <2>1. ev.fd[0] = fd /\ ev.fd[1] = new /\ ev.ret >= 0
    BY <1>2, PidAssumption DEF NoFds
  <2>2. PICK h : h = ObserveDupPair(s, ev)
    OBVIOUS
  <2>3. ObserveCall(s, ev, ev.at) = h
    BY <1>2, <2>1, <2>2 DEF ObserveCall
  <2>4. h.cwd = s.cwd /\ \A n \in Fd : h.fdPaths[n] = IF n = new THEN s.fdPaths[fd] ELSE s.fdPaths[n]
    BY <1>5, <2>1, <2>2, DupPairEffect DEF FdPath
  <2> QED BY <1>0, <1>3, <1>5, <2>3, <2>4 DEF Knows
<1>6. PathArgs(ev.id) = <<>> /\ ev.id \in SupportIds /\ fds \in SUBSET Fd
  BY <1>1, <1>2, PathArgsOf DEF SupportIds
<1> QED BY <1>0, <1>1, <1>2, <1>3, <1>4, <1>5, <1>6, DescriptorStep

\* fchdir: through a lost descriptor it loses the process.
LEMMA FchdirStep ==
    ASSUME KnowsInv, TypeInv', NEW p \in Pid, NEW fd \in Fd, Fchdir(p, fd)
    PROVE  KnowsInv'
<1>0. /\ p \in live /\ forking[p] = 0 /\ TypeInv /\ KernelOK /\ HistoryOK /\ fdTable[p][fd] # NoPath
      /\ UNCHANGED <<stateByPID, inherited, forking, live, fdTable, lost>>
  BY TreeAssumption DEF Fchdir, CanCall, filterVars, KnowsInv, TypeInv, KernelOK
<1>1. PICK ev, fds : /\ fds = {fd}
                     /\ ev = Event(p, "fchdir", 0, [NoFds EXCEPT ![0] = fd], NoPaths, FALSE,
                                   Touches(p, fds, {}))
                     /\ Submit(ev)
  BY DEF Fchdir
<1>2. /\ ev.pid = p /\ ev.id = "fchdir" /\ ev.ret = 0 /\ ev.at = cwd[p] /\ ~ev.clone
      /\ ev.fd = [NoFds EXCEPT ![0] = fd] /\ ev.hit = Touches(p, fds, {})
      /\ ev.doubt <=> \E i \in 0..5 : ev.fd[i] \in lost[p]
  BY <1>1 DEF Event
<1>3. /\ confused' = IF fd \in lost[p] THEN confused \cup {p} ELSE confused
      /\ cwd'[p] = fdTable[p][fd]
      /\ \A r \in Pid \ {p} : cwd'[r] = cwd[r]
  BY <1>0 DEF Fchdir, KernelOK
<1>4. Looks(ev, fds)
  <2>1. 0 \in EventFdArgs(ev.id)
    BY <1>2, CallFds DEF EventFdArgs
  <2> QED BY <1>1, <1>2, <2>1, LooksOne
<1>5. PathArgs(ev.id) = <<>> /\ KernelSelects(ev.id) /\ fds \in SUBSET (Fd \cup {AT_FDCWD}) /\ Moves(ev)
  BY <1>1, <1>2, PathArgsOf, Selected DEF SupportIds, Moves
<1>6. ASSUME fd \notin lost[p] PROVE Heeded(p, ev)
  <2>1. /\ \A s : Matched(s, ev) = s
        /\ \A s : Synced(s) /\ Knows(s, fdTable[p], cwd[p], lost[p]) /\ ~ev.doubt
                     => Printed(s, ev)
    <3>1. /\ KernelOK /\ PathArgs(ev.id) = <<>> /\ ev.at = cwd[p] /\ ev.hit = Touches(p, fds, {})
          /\ ev.doubt <=> \E i \in 0..5 : ev.fd[i] \in lost[p]
          /\ fds \in SUBSET (Fd \cup {AT_FDCWD}) /\ Looks(ev, fds)
      BY <1>0, <1>2, <1>4, <1>5
    <3> QED BY <3>1, NoPathCall
  <2>2. ASSUME NEW s, Synced(s), Knows(s, fdTable[p], cwd[p], lost[p])
        PROVE  Knows(Handled(s, ev), fdTable'[p], cwd'[p], lost'[p])
    <3>1. ev.fd[0] = fd
      BY <1>2 DEF NoFds
    <3>2. FdPath(s, fd) = fdTable[p][fd]
      BY <1>6, <2>2 DEF FdPath, Knows
    <3>3. ObserveCall(s, ev, ev.at) = [s EXCEPT !.cwd = fdTable[p][fd]]
      BY <1>0, <1>2, <3>1, <3>2 DEF ObserveCall, ObserveFchdir
    <3>4. Handled(s, ev) = [s EXCEPT !.cwd = fdTable[p][fd]]
      BY <2>1, <3>3 DEF Handled
    <3> QED BY <1>0, <1>3, <2>2, <3>4 DEF Knows, Synced, IsState
  <2> QED BY <2>1, <2>2 DEF Heeded
<1>7. OthersStay(p)
  BY <1>0, <1>3 DEF OthersStay, Kin, HistoryOK
<1>8. confused \subseteq confused' /\ (p \in confused' \/ Heeded(p, ev))
  BY <1>3, <1>6
<1> QED BY <1>0, <1>1, <1>2, <1>5, <1>7, <1>8, CallStep

\* An open and a close whose events the ring buffer had no room for.
LEMMA LostStep ==
    ASSUME KnowsInv, TypeInv', NEW p \in Pid, NEW fd \in Fd,
           CloseLost(p, fd) \/ \E raw \in Raw : OpenLost(p, raw, fd)
    PROVE  KnowsInv'
<1>0. /\ forking[p] = 0 /\ KernelOK /\ HistoryOK
      /\ UNCHANGED <<stateByPID, inherited, forking, live, confused, cwd, queue>>
      /\ Misses(p, {fd})
  BY DEF CloseLost, OpenLost, Drop, CanCall, filterVars, KnowsInv, TypeInv
<1>1. PICK path : fdTable' = [fdTable EXCEPT ![p][fd] = path]
  BY DEF CloseLost, OpenLost
<1>2. /\ lost'[p] = lost[p] \cup {fd}
      /\ \A r \in Pid \ {p} : lost'[r] = lost[r] /\ fdTable'[r] = fdTable[r]
      /\ \A n \in Fd \ {fd} : fdTable'[p][n] = fdTable[p][n]
  BY <1>0, <1>1 DEF Misses, KernelOK, HistoryOK
<1>3. /\ \A r \in Pid : lost[r] \subseteq lost'[r]
      /\ \A r \in Pid : \A n \in Fd \ lost'[r] : fdTable'[r][n] = fdTable[r][n]
  BY <1>2
<1>4. live' \subseteq live /\ live \ {p} \subseteq live'
  BY <1>0
<1> QED BY <1>0, <1>2, <1>3, <1>4, SilentCall

\* A process exits.
LEMMA ExitCall ==
    ASSUME KnowsInv, TypeInv', NEW p \in Pid, Exit(p)
    PROVE  KnowsInv'
<1>1. /\ forking[p] = 0 /\ live' = live \ {p}
      /\ UNCHANGED <<stateByPID, inherited, forking, confused, cwd, queue, lost, fdTable>>
  BY DEF Exit, CanCall, filterVars, historyVars
<1>2. /\ \A r \in Pid : lost[r] \subseteq lost'[r]
      /\ \A r \in Pid : \A n \in Fd \ lost'[r] : fdTable'[r][n] = fdTable[r][n]
      /\ live' \subseteq live /\ live \ {p} \subseteq live'
      /\ \A r \in Pid \ {p} : lost'[r] = lost[r]
  BY <1>1
<1> QED BY <1>1, <1>2, SilentCall
-----------------------------------------------------------------------------
(***************************************************************************)
(* The renames.                                                            *)
(***************************************************************************)
\* The kernel's renaming of a path is the filter's rewriting of its prefix.
LEMMA MovedIsRewritten ==
    ASSUME NEW from \in Seq(Names), NEW to \in Seq(Names), ~IsPrefix(from, to),
           NEW path \in AbsPath, path # to
    PROVE  Moved(path, from, to) = RewritePathPrefix(path, from, to)
<1>0. NoPath \notin Seq(Names)
  BY TreeAssumption
<1>1. from # <<>>
  BY DEF IsPrefix
<1>2. CASE path = NoPath
  BY <1>2 DEF Moved, RewritePathPrefix
<1>3. CASE path = from
  <2>1. IsPrefix(from, from)
    BY DEF IsPrefix
  <2>2. SubSeq(path, Len(from) + 1, Len(path)) = <<>>
    BY <1>3
  <2>3. to \o <<>> = to
    OBVIOUS
  <2>4. path # NoPath
    BY <1>0, <1>3
  <2> QED BY <1>3, <2>1, <2>2, <2>3, <2>4 DEF Moved, RewritePathPrefix
<1>4. CASE path # from /\ path # NoPath
  BY <1>1, <1>4 DEF Moved, RewritePathPrefix, IsBelow, IsStrictPrefix
<1> QED BY <1>2, <1>3, <1>4

TwoPaths(id, x, y, dirfd, old, newdirfd, new, fd, path) ==
    /\ dirfd \in Fd \cup {AT_FDCWD} /\ newdirfd \in Fd \cup {AT_FDCWD} /\ old \in Raw /\ new \in Raw
    /\ \/ /\ id = "rename" /\ x = 0 /\ y = 1 /\ dirfd = AT_FDCWD /\ newdirfd = AT_FDCWD
          /\ fd = NoFds /\ path = [NoPaths EXCEPT ![0] = old, ![1] = new]
       \/ /\ id = "renameat" /\ x = 1 /\ y = 3
          /\ fd = [NoFds EXCEPT ![0] = dirfd, ![2] = newdirfd]
          /\ path = [NoPaths EXCEPT ![1] = old, ![3] = new]

\* The descriptors that renameat looks at.
LEMMA TwoPathLooks ==
    ASSUME NEW ev, NEW x, NEW y, NEW dirfd, NEW old, NEW newdirfd, NEW new,
           TwoPaths(ev.id, x, y, dirfd, old, newdirfd, new, ev.fd, ev.path)
    PROVE  Looks(ev, {dirfd, newdirfd})
<1>1. CASE ev.id = "rename"
  <2>1. dirfd = AT_FDCWD /\ newdirfd = AT_FDCWD /\ ev.fd = NoFds
    BY <1>1 DEF TwoPaths
  <2>2. AT_FDCWD \notin Fd
    BY PidAssumption DEF AT_FDCWD
  <2>3. \A i \in EventFdArgs(ev.id) : ev.fd[i] = AT_FDCWD
    BY <2>1, EventFdArgsType DEF NoFds
  <2> QED BY <2>1, <2>2, <2>3 DEF Looks
<1>2. CASE ev.id = "renameat"
  <2>1. ev.fd = [NoFds EXCEPT ![0] = dirfd, ![2] = newdirfd]
    BY <1>2 DEF TwoPaths
  <2>2. 0 \in EventFdArgs(ev.id) /\ 2 \in EventFdArgs(ev.id)
    BY <1>2, CallFds DEF EventFdArgs
  <2> QED BY <2>1, <2>2, LooksTwo
<1> QED BY <1>1, <1>2 DEF TwoPaths

\* A rename is printed if and only if one of its names is traced.
LEMMA TwoPathCall ==
    ASSUME KernelOK, HistoryOK, NEW p \in Pid, NEW x, NEW y, NEW dirfd, NEW old, NEW newdirfd, NEW new,
           NEW ev, TwoPaths(ev.id, x, y, dirfd, old, newdirfd, new, ev.fd, ev.path), ev.at = cwd[p],
           ev.doubt <=> \E i \in 0..5 : ev.fd[i] \in lost[p],
           ev.hit = Touches(p, {dirfd, newdirfd}, {Named(p, dirfd, old), Named(p, newdirfd, new)})
    PROVE  /\ PathArgs(ev.id) = <<x, y>>
           /\ Argument(p, ev, x, dirfd, old) /\ Argument(p, ev, y, newdirfd, new)
           /\ \A s : Synced(s) /\ Knows(s, fdTable[p], cwd[p], lost[p]) /\ ~ev.doubt
                        => Printed(s, ev)
<1>1. PICK id, fd, path : id = ev.id /\ fd = ev.fd /\ path = ev.path
  OBVIOUS
<1>2. AT_FDCWD \notin Fd /\ lost[p] \subseteq Fd /\ cwd[p] # NoPath
  BY PidAssumption, Here DEF AT_FDCWD, HistoryOK
<1>3. PathArgs(ev.id) = <<x, y>>
  BY <1>1, PathArgsOf DEF TwoPaths
<1>4. path[x] = old /\ path[y] = new
  <2>1. CASE id = "rename"
    BY <1>1, <2>1 DEF TwoPaths, NoPaths
  <2>2. CASE id = "renameat"
    BY <1>1, <2>2 DEF TwoPaths, NoPaths
  <2> QED BY <1>1, <2>1, <2>2 DEF TwoPaths
<1>5. \/ /\ id = "renameat" /\ fd[0] = dirfd /\ fd[2] = newdirfd
         /\ BaseFdArg(id, x) = 0 /\ BaseFdArg(id, y) = 2
      \/ /\ id = "rename" /\ dirfd = AT_FDCWD /\ newdirfd = AT_FDCWD
         /\ BaseFdArg(id, x) = -1 /\ BaseFdArg(id, y) = -1
  <2>1. CASE id = "rename"
    BY <1>1, <2>1 DEF TwoPaths, BaseFdArg
  <2>2. CASE id = "renameat"
    BY <1>1, <2>2 DEF TwoPaths, NoFds, BaseFdArg
  <2> QED BY <1>1, <2>1, <2>2 DEF TwoPaths
<1>6. Argument(p, ev, x, dirfd, old) /\ Argument(p, ev, y, newdirfd, new)
  BY <1>1, <1>4, <1>5 DEF Argument, TwoPaths
<1>7. ~ev.doubt => ~Misled(p, dirfd, old) /\ ~Misled(p, newdirfd, new)
  BY <1>1, <1>2, <1>5 DEF Misled
<1>8. Looks(ev, {dirfd, newdirfd})
  BY TwoPathLooks
<1>9. ASSUME NEW s, Synced(s), Knows(s, fdTable[p], cwd[p], lost[p]), ~ev.doubt
      PROVE  Printed(s, ev)
  <2>1. UserAllows(ev.id) =>
           (MatchesPath(Matched(s, ev), ev) <=>
              Named(p, dirfd, old) \in TracePaths \/ Named(p, newdirfd, new) \in TracePaths)
    BY <1>2, <1>3, <1>6, <1>7, <1>9, MatchTwo
  <2>2. {dirfd, newdirfd} \in SUBSET (Fd \cup {AT_FDCWD})
    BY DEF TwoPaths
  <2>3. PICK paths : paths = {Named(p, dirfd, old), Named(p, newdirfd, new)}
    OBVIOUS
  <2>4. \A i \in 0..5 : ev.fd[i] \notin lost[p]
    BY <1>1, <1>9
  <2>5. UserAllows(ev.id) => (MatchesPath(Matched(s, ev), ev) <=> \E q \in paths : q \in TracePaths)
    BY <2>1, <2>3
  <2> QED BY <1>1, <1>2, <1>8, <1>9, <2>2, <2>3, <2>4, <2>5, PrintedKnown
<1> QED BY <1>3, <1>6, <1>9

\* What the filter's rename does to a state that knows the process.
LEMMA RenameKnown ==
    ASSUME NEW s, Synced(s), NEW table \in [Fd -> AbsPath], NEW dir \in Seq(Names), NEW unsure,
           Knows(s, table, dir, unsure), NEW from \in Seq(Names), NEW to \in Seq(Names),
           ~IsPrefix(from, to), dir # to, \A n \in Fd : table[n] # to,
           NEW table2, \A n \in Fd : table2[n] = Moved(table[n], from, to), NEW h,
           h = RewritePIDPaths(s, from, to)
    PROVE  Knows(h, table2, Moved(dir, from, to), unsure)
<1>1. /\ h.cwd = RewritePathPrefix(s.cwd, from, to)
      /\ \A n \in Fd : h.fdPaths[n] = RewritePathPrefix(s.fdPaths[n], from, to)
  BY DEF RewritePIDPaths
<1>2. \A n \in Fd : Moved(table[n], from, to) = RewritePathPrefix(table[n], from, to)
  BY MovedIsRewritten
<1>3. Moved(dir, from, to) = RewritePathPrefix(dir, from, to)
  BY MovedIsRewritten DEF AbsPath
<1>4. RewritePathPrefix(NoPath, from, to) = NoPath
  BY DEF RewritePathPrefix
<1>5. \A n \in Fd \ unsure : h.fdPaths[n] = table2[n]
  BY <1>1, <1>2 DEF Knows
<1>6. h.cwd \in {NoPath, Moved(dir, from, to)}
  BY <1>1, <1>3, <1>4 DEF Knows
<1> QED BY <1>5, <1>6 DEF Knows

\* rewritePIDPaths runs with the names the kernel used.
LEMMA RenameHandled ==
    ASSUME KernelOK, NEW p \in Pid, NEW ev, ev.id \in {"rename", "renameat"}, ev.ret = 0,
           ev.at = cwd[p], NEW x, NEW y, PathArgs(ev.id) = <<x, y>>,
           NEW dirfd, NEW old, Argument(p, ev, x, dirfd, old), ~Misled(p, dirfd, old),
           NEW newdirfd, NEW new, Argument(p, ev, y, newdirfd, new), ~Misled(p, newdirfd, new),
           Named(p, dirfd, old) # NoPath, Named(p, newdirfd, new) # NoPath,
           NEW s, Synced(s), Knows(s, fdTable[p], cwd[p], lost[p])
    PROVE  \E m : /\ Synced(m) /\ Knows(m, fdTable[p], cwd[p], lost[p])
                  /\ Handled(s, ev) = RewritePIDPaths(m, Named(p, dirfd, old), Named(p, newdirfd, new))
<1>0. cwd[p] # NoPath
  BY Here
<1>1. PICK m, one, two, from, to, h :
        /\ m = Matched(s, ev) /\ one = CacheCwd(m, ev, x, ev.at) /\ two = CacheCwd(one, ev, y, ev.at)
        /\ from = Named(p, dirfd, old) /\ to = Named(p, newdirfd, new) /\ h = Handled(s, ev)
  OBVIOUS
<1>2. Synced(m) /\ Knows(m, fdTable[p], cwd[p], lost[p])
  BY <1>0, <1>1, MatchedKnown
<1>3. Synced(one) /\ Knows(one, fdTable[p], cwd[p], lost[p]) /\ (UsesCwd(ev, x) => one.cwd # NoPath)
  BY <1>0, <1>1, <1>2, CacheKnown
<1>4. Synced(two) /\ Knows(two, fdTable[p], cwd[p], lost[p]) /\ (UsesCwd(ev, y) => two.cwd # NoPath)
  BY <1>0, <1>1, <1>3, CacheKnown
<1>5. ResolvePathAt(one, ev, x) = from
  BY <1>1, <1>3, ResolveKnown
<1>6. ResolvePathAt(two, ev, y) = to
  BY <1>1, <1>4, ResolveKnown
<1>7. (ev.id = "rename" /\ x = 0 /\ y = 1) \/ (ev.id = "renameat" /\ x = 1 /\ y = 3)
  BY PathArgsOf
<1>8. ObserveCall(m, ev, ev.at) = ObserveRename(m, ev, x, y, ev.at)
  BY <1>7 DEF ObserveCall
<1>9. ObserveRename(m, ev, x, y, ev.at) = RewritePIDPaths(two, from, to)
  BY <1>1, <1>5, <1>6 DEF ObserveRename
<1> QED BY <1>1, <1>4, <1>8, <1>9 DEF Handled

\* rename and renameat: the kernel renames for everybody, the filter for p.
LEMMA RenamesStep ==
    ASSUME KnowsInv, TypeInv', NEW p \in Pid, NEW id \in {"rename", "renameat"}, NEW x, NEW y,
           NEW dirfd, NEW old, NEW newdirfd, NEW new, NEW fd, NEW path,
           TwoPaths(id, x, y, dirfd, old, newdirfd, new, fd, path),
           Renames(p, id, dirfd, old, newdirfd, new, fd, path)
    PROVE  KnowsInv'
<1>0. /\ p \in live /\ forking[p] = 0 /\ TypeInv /\ KernelOK /\ HistoryOK /\ KernelSelects(id)
      /\ UNCHANGED <<stateByPID, inherited, forking, live, lost>>
  BY Selected DEF Renames, CanCall, filterVars, SupportIds, KnowsInv, TypeInv
<1>1. PICK from, to : from = Named(p, dirfd, old) /\ to = Named(p, newdirfd, new)
  OBVIOUS
<1>2. /\ from \in files \cup dirs /\ to # NoPath /\ ~IsPrefix(from, to) /\ to \notin dirs
      /\ fdTable' = [q \in Pid |-> [n \in Fd |-> Moved(fdTable[q][n], from, to)]]
      /\ cwd' = [q \in Pid |-> Moved(cwd[q], from, to)]
      /\ confused' = confused \cup {q \in live \ {p} : fdTable'[q] # fdTable[q] \/ cwd'[q] # cwd[q]}
                              \cup {q \in {p} : \/ \E n \in Fd : fdTable[q][n] = to
                                                \/ Misled(q, dirfd, old) \/ Misled(q, newdirfd, new)}
  BY <1>1 DEF Renames
<1>3. PICK hit, ev : /\ hit = Touches(p, {dirfd, newdirfd}, {from, to})
                     /\ ev = Event(p, id, 0, fd, path, FALSE, hit) /\ Submit(ev)
  BY <1>1 DEF Renames
<1>4. /\ ev.pid = p /\ ev.id = id /\ ev.ret = 0 /\ ev.at = cwd[p] /\ ~ev.clone
      /\ ev.fd = fd /\ ev.path = path /\ ev.hit = hit
      /\ ev.doubt <=> \E i \in 0..5 : ev.fd[i] \in lost[p]
  BY <1>3 DEF Event
<1>5. /\ PathArgs(ev.id) = <<x, y>>
      /\ Argument(p, ev, x, dirfd, old) /\ Argument(p, ev, y, newdirfd, new)
      /\ \A s : Synced(s) /\ Knows(s, fdTable[p], cwd[p], lost[p]) /\ ~ev.doubt
                   => Printed(s, ev)
  <2>1. TwoPaths(ev.id, x, y, dirfd, old, newdirfd, new, ev.fd, ev.path)
    BY <1>4
  <2>2. ev.hit = Touches(p, {dirfd, newdirfd}, {Named(p, dirfd, old), Named(p, newdirfd, new)})
    BY <1>1, <1>3, <1>4
  <2>3. KernelOK /\ HistoryOK /\ ev.at = cwd[p] /\ (ev.doubt <=> \E i \in 0..5 : ev.fd[i] \in lost[p])
    BY <1>0, <1>4
  <2> QED BY <2>1, <2>2, <2>3, TwoPathCall
<1>6. from \in Seq(Names) /\ to \in Seq(Names) /\ from # NoPath
  <2>1. to \in AbsPath
    BY <1>0, <1>1, NamedTyped DEF TwoPaths
  <2> QED BY <1>0, <1>2, <2>1, TreeAssumption DEF KernelOK, AbsPath
<1>7. ASSUME p \notin confused' PROVE Heeded(p, ev)
  <2>1. /\ \A n \in Fd : fdTable[p][n] # to
        /\ ~Misled(p, dirfd, old) /\ ~Misled(p, newdirfd, new)
    BY <1>2, <1>7
  <2>2. fdTable[p] \in [Fd -> AbsPath] /\ cwd[p] \in Seq(Names) /\ cwd[p] # to
    BY <1>0, <1>2, Here DEF KernelOK
  <2>3. cwd'[p] = Moved(cwd[p], from, to) /\ \A n \in Fd : fdTable'[p][n] = Moved(fdTable[p][n], from, to)
    BY <1>2
  <2>4. ASSUME NEW s, Synced(s), Knows(s, fdTable[p], cwd[p], lost[p])
        PROVE  Knows(Handled(s, ev), fdTable'[p], cwd'[p], lost'[p])
    <3>1. /\ ev.id \in {"rename", "renameat"}
          /\ Named(p, dirfd, old) # NoPath /\ Named(p, newdirfd, new) # NoPath
      BY <1>1, <1>2, <1>4, <1>6
    <3>2. PICK m : /\ Synced(m) /\ Knows(m, fdTable[p], cwd[p], lost[p])
                   /\ Handled(s, ev) = RewritePIDPaths(m, Named(p, dirfd, old), Named(p, newdirfd, new))
      BY <1>0, <1>4, <1>5, <2>1, <2>4, <3>1, RenameHandled
    <3>3. PICK h, table, dir, unsure, table2 :
            /\ h = Handled(s, ev) /\ table = fdTable[p] /\ dir = cwd[p] /\ unsure = lost[p]
            /\ table2 = fdTable'[p]
      OBVIOUS
    <3>4. h = RewritePIDPaths(m, from, to) /\ Knows(m, table, dir, unsure)
      BY <1>1, <3>2, <3>3
    <3>5. Knows(h, table2, Moved(dir, from, to), unsure)
      BY <1>2, <1>6, <2>1, <2>2, <2>3, <3>2, <3>3, <3>4, RenameKnown
    <3> QED BY <1>0, <2>3, <3>3, <3>5
  <2> QED BY <1>5, <2>4 DEF Heeded
<1>8. OthersStay(p)
  <2>1. ASSUME NEW q \in Pid, NEW c \in Pid, Kin(q, c) PROVE Kin(q, c)'
    BY <1>0, <1>2, <2>1 DEF Kin, HistoryOK
  <2>2. \A r \in live \ (confused' \cup {p}) :
            fdTable'[r] = fdTable[r] /\ cwd'[r] = cwd[r] /\ lost'[r] = lost[r]
    BY <1>0, <1>2
  <2> QED BY <2>1, <2>2 DEF OthersStay
<1>9. confused \subseteq confused' /\ Moves(ev)
  BY <1>2, <1>4 DEF Moves
<1> QED BY <1>0, <1>3, <1>4, <1>7, <1>8, <1>9, CallStep
-----------------------------------------------------------------------------
(***************************************************************************)
(* The other steps.                                                        *)
(***************************************************************************)
\* The event loop takes an event.
LEMMA HandleCall ==
    ASSUME KnowsInv, TypeInv', HandleEvent
    PROVE  KnowsInv' /\ (NoCounts => PrintsHits)
<1>1. PICK f : Foretold(f)
  BY DEF KnowsInv
<1>2. (\E g : Foretold(g)') /\ (NoCounts => PrintsHits)
  BY <1>1, HandleStep DEF KnowsInv
<1>3. /\ queue # <<>> /\ queue' = Tail(queue) /\ confused \subseteq confused'
      /\ UNCHANGED <<live, cwd>>
  BY DEF HandleEvent, osVars
<1>4. PICK N, r : N = Len(queue) /\ r = queue'
  OBVIOUS
<1>5. N \in Nat /\ N > 0 /\ Len(r) = N - 1 /\ \A k \in 1..N - 1 : r[k] = queue[k + 1]
  BY <1>3, <1>4 DEF KnowsInv, TypeInv, SyncInv, QueueOK
<1>6. SamePlace'
  <2>1. ASSUME NEW k \in 1..Len(r) - 1, r[k].pid = r[k + 1].pid, r[k].pid \notin confused', ~Moves(r[k])
        PROVE  r[k].at = r[k + 1].at
    <3>1. r[k] = queue[k + 1] /\ r[k + 1] = queue[(k + 1) + 1] /\ k + 1 \in 1..N - 1
      BY <1>5, <2>1
    <3> QED BY <1>3, <1>4, <2>1, <3>1 DEF SamePlace, KnowsInv
  <2> QED BY <1>4, <2>1 DEF SamePlace, Moves
<1>7. StillThere'
  <2>1. ASSUME NEW k \in 1..Len(r), k = Len(r), r[k].pid \in live' \ confused', ~Moves(r[k])
        PROVE  r[k].at = cwd'[r[k].pid]
    <3>1. r[k] = queue[N] /\ N \in 1..N
      BY <1>5, <2>1
    <3> QED BY <1>3, <1>4, <2>1, <3>1 DEF StillThere, KnowsInv
  <2> QED BY <1>4, <2>1 DEF StillThere, Moves
<1> QED BY <1>2, <1>6, <1>7 DEF KnowsInv

\* Of two independent events neither moves the process.
LEMMA IndependentStay ==
    ASSUME NEW a, NEW b, Independent(a, b)
    PROVE  ~Moves(a) /\ ~Moves(b)
BY UseId DEF Independent, Moves, SupportIds

\* Two threads of a process reserve in the other order.
LEMMA OvertakeCall ==
    ASSUME KnowsInv, TypeInv', NEW i \in 1..Len(queue), Overtake(i)
    PROVE  KnowsInv'
<1>1. PICK f : Foretold(f)
  BY DEF KnowsInv
<1>2. \E g : Foretold(g)'
  BY <1>1, OvertakeStep DEF KnowsInv
<1>3. PICK N, r, a, b, p : N = Len(queue) /\ r = queue' /\ a = queue[i] /\ b = queue[i + 1] /\ p = a.pid
  OBVIOUS
<1>4. /\ N \in Nat /\ i \in 1..N /\ i + 1 \in 1..N /\ i \in 1..N - 1
      /\ Len(r) = N /\ r[i] = b /\ r[i + 1] = a /\ \A k \in 1..N \ {i, i + 1} : r[k] = queue[k]
  BY <1>3, TypeQueue, Swapped DEF KnowsInv
<1>5. /\ b.pid = p /\ UNCHANGED <<live, cwd>>
      /\ confused' = IF Independent(a, b) THEN confused ELSE confused \cup {p}
  BY <1>3 DEF Overtake, osVars
<1>6. ASSUME NEW k \in 1..N
      PROVE  /\ r[k].pid = queue[k].pid
             /\ r[k].pid \notin confused' => r[k].at = queue[k].at /\ (Moves(r[k]) <=> Moves(queue[k]))
  <2>1. CASE k \notin {i, i + 1}
    BY <1>4, <2>1
  <2>2. CASE k \in {i, i + 1}
    <3>1. {r[k], queue[k]} = {a, b} /\ r[k].pid = p /\ queue[k].pid = p
      BY <1>3, <1>4, <1>5, <2>2
    <3>2. ASSUME p \notin confused' PROVE Independent(a, b) /\ p \notin confused
      BY <1>5, <3>2
    <3>3. ASSUME p \notin confused' PROVE a.at = b.at /\ ~Moves(a) /\ ~Moves(b)
      <4>1. ~Moves(a) /\ ~Moves(b)
        BY <3>2, <3>3, IndependentStay
      <4>2. i \in 1..Len(queue) - 1
        BY <1>3, <1>4
      <4> QED BY <1>3, <1>5, <3>2, <3>3, <4>1, <4>2 DEF SamePlace, KnowsInv
    <3>4. (r[k] = a \/ r[k] = b) /\ (queue[k] = a \/ queue[k] = b)
      BY <3>1
    <3> QED BY <3>1, <3>3, <3>4
  <2> QED BY <2>1, <2>2
<1>7. SamePlace'
  <2>1. ASSUME NEW k \in 1..N - 1, r[k].pid = r[k + 1].pid, r[k].pid \notin confused', ~Moves(r[k])
        PROVE  r[k].at = r[k + 1].at
    <3>1. k \in 1..N /\ k + 1 \in 1..N
      BY <1>4
    <3>2. queue[k].pid = queue[k + 1].pid /\ queue[k].pid \notin confused /\ ~Moves(queue[k])
      BY <1>5, <1>6, <2>1, <3>1
    <3>3. queue[k].at = queue[k + 1].at
      BY <1>3, <3>2 DEF SamePlace, KnowsInv
    <3>4. r[k].at = queue[k].at /\ r[k + 1].at = queue[k + 1].at
      BY <1>6, <2>1, <3>1
    <3> QED BY <3>3, <3>4
  <2> QED BY <1>3, <1>4, <2>1 DEF SamePlace, Moves
<1>8. StillThere'
  <2>1. ASSUME NEW k \in 1..N, k = N, r[k].pid \in live' \ confused', ~Moves(r[k])
        PROVE  r[k].at = cwd'[r[k].pid]
    <3>1. queue[k].pid \in live \ confused /\ ~Moves(queue[k]) /\ r[k].at = queue[k].at
          /\ r[k].pid = queue[k].pid
      BY <1>5, <1>6, <2>1
    <3> QED BY <1>3, <1>5, <2>1, <3>1 DEF StillThere, KnowsInv
  <2> QED BY <1>3, <1>4, <2>1 DEF StillThere, Moves
<1> QED BY <1>2, <1>7, <1>8 DEF KnowsInv

\* A fork, until its event is reserved.
LEMMA ForkCall ==
    ASSUME KnowsInv, TypeInv', NEW p \in Pid, NEW child \in Pid, Fork(p, child)
    PROVE  KnowsInv'
<1>1. PICK f : Foretold(f)
  BY DEF KnowsInv
<1>2. \E g : Foretold(g)'
  BY <1>1, ForkStep DEF KnowsInv
<1>3. /\ live' = live \cup {child} /\ queue' = queue
      /\ confused' = IF p \in confused \/ Awaited(child) THEN confused \cup {child}
                                                        ELSE confused \ {child}
      /\ cwd' = [cwd EXCEPT ![child] = cwd[p]]
  BY DEF Fork
<1>4. ASSUME NEW k \in 1..Len(queue), queue[k].pid \notin confused'
      PROVE  queue[k].pid # child /\ queue[k].pid \notin confused
  <2>1. queue[k].pid # child
    BY <1>3, <1>4 DEF Awaited
  <2> QED BY <1>3, <1>4, <2>1
<1>5. Len(queue) \in Nat
  BY TypeQueue DEF KnowsInv
<1>6. SamePlace'
  <2>1. ASSUME NEW k \in 1..Len(queue) - 1, queue[k].pid = queue[k + 1].pid, queue[k].pid \notin confused',
               ~Moves(queue[k])
        PROVE  queue[k].at = queue[k + 1].at
    <3>1. queue[k].pid \notin confused
      BY <1>4, <1>5, <2>1
    <3> QED BY <2>1, <3>1 DEF SamePlace, KnowsInv
  <2> QED BY <1>3, <2>1 DEF SamePlace, Moves
<1>7. StillThere'
  <2>1. ASSUME NEW k \in 1..Len(queue), k = Len(queue), queue[k].pid \in live' \ confused', ~Moves(queue[k])
        PROVE  queue[k].at = cwd'[queue[k].pid]
    <3>1. queue[k].pid # child /\ queue[k].pid \in live \ confused /\ queue[k].pid \in Pid
      BY <1>3, <1>4, <2>1, TypeQueue DEF KnowsInv
    <3>2. queue[k].at = cwd[queue[k].pid]
      BY <2>1, <3>1 DEF StillThere, KnowsInv
    <3>3. cwd'[queue[k].pid] = cwd[queue[k].pid]
      BY <1>3, <3>1 DEF KnowsInv, TypeInv, KernelOK
    <3> QED BY <3>2, <3>3
  <2> QED BY <1>3, <2>1 DEF StillThere, Moves
<1> QED BY <1>2, <1>6, <1>7 DEF KnowsInv

\* A fork, once its event is.
LEMMA ForkReturnCall ==
    ASSUME KnowsInv, TypeInv', NEW p \in Pid, ForkReturn(p)
    PROVE  KnowsInv'
<1>1. PICK f : Foretold(f)
  BY DEF KnowsInv
<1>2. \E g : Foretold(g)'
  BY <1>1, ForkReturnStep DEF KnowsInv
<1>3. p \in live
  BY <1>1 DEF ForkReturn, Foretold, ForksKept, ForkKept
<1>4. UNCHANGED <<live, cwd, confused>>
  BY DEF ForkReturn, historyVars
<1>5. PICK ev : ev = Event(p, "fork", forking[p], NoFds, NoPaths, TRUE, FALSE) /\ Submit(ev)
  BY DEF ForkReturn
<1>6. ev.pid = p /\ ev.id = "fork" /\ ev.at = cwd[p]
  BY <1>5 DEF Event
<1>7. queue' = Append(queue, ev)
  <2>1. KernelSelects("fork")
    BY TracedAssumption DEF KernelSelects, HandleTraceIds, ForkSupportIds
  <2> QED BY <1>5, <1>6, <2>1 DEF Submit
<1>8. SamePlace' /\ StillThere'
  <2>1. /\ confused \subseteq confused' /\ live' \subseteq live
        /\ \A r \in live' \ (confused' \cup {p}) : cwd'[r] = cwd[r]
        /\ cwd'[p] = cwd[p]
    BY <1>4
  <2> QED BY <1>3, <1>6, <1>7, <2>1, PlaceStep DEF KnowsInv
<1> QED BY <1>2, <1>8 DEF KnowsInv

\* Every call a process can make keeps the invariant.
LEMMA ProcessCall ==
    ASSUME KnowsInv, TypeInv', NEW p \in Pid, Process(p)
    PROVE  KnowsInv'
<1>1. ASSUME NEW raw \in Raw, Open(p, raw) \/ Stat(p, raw) \/ Chdir(p, raw) \/ Unlink(p, raw)
      PROVE  KnowsInv'
  <2>1. PICK path : path = [NoPaths EXCEPT ![0] = raw]
    OBVIOUS
  <2>2. \A id \in {"open", "newstat", "chdir", "unlink"} : OnePath(id, 0, AT_FDCWD, raw, NoFds, path)
    BY <2>1 DEF OnePath
  <2>3. CASE Open(p, raw)
    BY <2>1, <2>2, <2>3, OpensStep DEF Open
  <2>4. CASE Stat(p, raw)
    <3>1. PICK paths, hit : paths = {Named(p, AT_FDCWD, raw)} /\ hit = Touches(p, {}, paths)
      OBVIOUS
    <3>2. hit = Touches(p, {AT_FDCWD}, {Named(p, AT_FDCWD, raw)})
      BY <3>1, TouchesPath
    <3>3. /\ CanCall(p, "newstat") /\ Submit(Event(p, "newstat", 0, NoFds, path, FALSE, hit))
          /\ UNCHANGED <<filterVars, osVars, historyVars>>
      BY <2>1, <2>4, <3>1 DEF Stat
    <3>4. OnePath("newstat", 0, AT_FDCWD, raw, NoFds, path)
      BY <2>2
    <3> QED BY <3>2, <3>3, <3>4, LooksStep
  <2>5. CASE Chdir(p, raw)
    BY <2>5, ChdirStep
  <2>6. CASE Unlink(p, raw)
    BY <2>1, <2>2, <2>6, UnlinksStep DEF Unlink
  <2> QED BY <1>1, <2>3, <2>4, <2>5, <2>6
<1>2. ASSUME NEW raw \in Raw, NEW new \in Fd, OpenLost(p, raw, new) PROVE KnowsInv'
  BY <1>2, LostStep
<1>3. ASSUME NEW raw \in Raw, NEW dirfd \in Fd \cup {AT_FDCWD},
             OpenAt(p, dirfd, raw) \/ StatAt(p, dirfd, raw) \/ UnlinkAt(p, dirfd, raw)
      PROVE  KnowsInv'
  <2>1. PICK path, fd : path = [NoPaths EXCEPT ![1] = raw] /\ fd = [NoFds EXCEPT ![0] = dirfd]
    OBVIOUS
  <2>2. \A id \in {"openat", "newfstatat", "unlinkat"} : OnePath(id, 1, dirfd, raw, fd, path)
    BY <2>1 DEF OnePath
  <2>3. CASE OpenAt(p, dirfd, raw)
    BY <2>1, <2>2, <2>3, OpensStep DEF OpenAt
  <2>4. CASE StatAt(p, dirfd, raw)
    <3>1. PICK hit : hit = Touches(p, {dirfd}, {Named(p, dirfd, raw)})
      OBVIOUS
    <3>2. /\ CanCall(p, "newfstatat") /\ Submit(Event(p, "newfstatat", 0, fd, path, FALSE, hit))
          /\ UNCHANGED <<filterVars, osVars, historyVars>>
      BY <2>1, <2>4, <3>1 DEF StatAt
    <3>3. OnePath("newfstatat", 1, dirfd, raw, fd, path)
      BY <2>2
    <3> QED BY <3>1, <3>2, <3>3, LooksStep
  <2>5. CASE UnlinkAt(p, dirfd, raw)
    BY <2>1, <2>2, <2>5, UnlinksStep DEF UnlinkAt
  <2> QED BY <1>3, <2>3, <2>4, <2>5
<1>4. ASSUME NEW old \in Raw, NEW new \in Raw, Rename(p, old, new) PROVE KnowsInv'
  <2>1. PICK path : path = [NoPaths EXCEPT ![0] = old, ![1] = new]
    OBVIOUS
  <2>2. TwoPaths("rename", 0, 1, AT_FDCWD, old, AT_FDCWD, new, NoFds, path)
    BY <2>1 DEF TwoPaths
  <2> QED BY <1>4, <2>1, <2>2, RenamesStep DEF Rename
<1>5. ASSUME NEW old \in Raw, NEW new \in Raw, NEW dirfd \in Fd \cup {AT_FDCWD},
             NEW newdirfd \in Fd \cup {AT_FDCWD}, RenameAt(p, dirfd, old, newdirfd, new)
      PROVE  KnowsInv'
  <2>1. PICK path, fd : /\ path = [NoPaths EXCEPT ![1] = old, ![3] = new]
                        /\ fd = [NoFds EXCEPT ![0] = dirfd, ![2] = newdirfd]
    OBVIOUS
  <2>2. TwoPaths("renameat", 1, 3, dirfd, old, newdirfd, new, fd, path)
    BY <2>1 DEF TwoPaths
  <2> QED BY <1>5, <2>1, <2>2, RenamesStep DEF RenameAt
<1>6. ASSUME NEW id \in UseIds, NEW arg \in [RealFdArgs(id) \cup NumberArgs(id) -> Fd], Use(p, id, arg)
      PROVE  KnowsInv'
  BY <1>6, UseStep
<1>7. ASSUME NEW fd \in Fd, Close(p, fd) \/ CloseLost(p, fd) \/ Fchdir(p, fd) PROVE KnowsInv'
  BY <1>7, CloseStep, LostStep, FchdirStep
<1>8. ASSUME NEW first \in Fd, NEW last \in Fd, CloseRange(p, first, last) PROVE KnowsInv'
  BY <1>8, CloseRangeStep
<1>9. ASSUME NEW marked \in SUBSET Fd, Execve(p, marked) PROVE KnowsInv'
  BY <1>9, ExecveStep
<1>10. ASSUME NEW fd \in Fd, NEW new \in Fd, Dup(p, fd, new) \/ Dup2(p, fd, new) \/ FcntlDup(p, fd, new)
       PROVE  KnowsInv'
  BY <1>10, DupStep, DupPairStep, FcntlDupStep
<1>11. ASSUME NEW child \in Pid, Fork(p, child) PROVE KnowsInv'
  BY <1>11, ForkCall
<1>12. ForkReturn(p) => KnowsInv'
  BY ForkReturnCall
<1>13. Exit(p) => KnowsInv'
  BY ExitCall
<1> QED BY <1>1, <1>2, <1>3, <1>4, <1>5, <1>6, <1>7, <1>8, <1>9, <1>10, <1>11, <1>12, <1>13 DEF Process
-----------------------------------------------------------------------------
(***************************************************************************)
(* The invariant holds.                                                    *)
(***************************************************************************)
\* It holds when litrace starts.
LEMMA KnowsInit == Init => KnowsInv
<1> SUFFICES ASSUME Init PROVE KnowsInv
  OBVIOUS
<1>1. TypeInv /\ Len(queue) = 0 /\ queue = <<>>
  BY TypeInvInit DEF Init
<1>2. SamePlace /\ StillThere
  BY <1>1 DEF SamePlace, StillThere
<1>3. PICK t, f : t = Now /\ f = [k \in 0..0 |-> t]
  OBVIOUS
<1>4. f[0] = t /\ t.inh = {First} /\ t.conf = {} /\ t.st = [p \in Pid |-> Empty]
  BY <1>3 DEF Now, Forecast, Init, InitFilter
<1>5. IsChain(f, queue, Now) /\ Hits(f, queue)
  <2>1. IsForecast(t)
    BY <1>1, <1>3, NowForecast
  <2> QED BY <1>1, <1>3, <1>4, <2>1 DEF IsChain, Leads, Hits
<1>6. KnowsAll(t)
  BY <1>4, FirstAssumption DEF KnowsAll, Knows, Trusted, Empty, Init
<1>7. ForksKept(t)
  BY DEF ForksKept, Init
<1>8. Foretold(f)
  BY <1>1, <1>4, <1>5, <1>6, <1>7 DEF Foretold
<1> QED BY <1>1, <1>2, <1>8 DEF KnowsInv

\* It holds after every step.
LEMMA KnowsStep == KnowsInv /\ [Next]_vars => KnowsInv'
<1> SUFFICES ASSUME KnowsInv, [Next]_vars PROVE KnowsInv'
  OBVIOUS
<1>1. TypeInv'
  BY TypeInvStep DEF KnowsInv
<1>2. CASE UNCHANGED vars
  <2>1. PICK f : Foretold(f)
    BY DEF KnowsInv
  <2>2. PICK t : t = f[Len(queue)]
    OBVIOUS
  <2>3. /\ UNCHANGED <<stateByPID, live, fdTable, cwd, forking, queue, inherited, confused, lost>>
    BY <1>2 DEF vars
  <2>4. KnowsAll(t)' /\ ForksKept(t)'
    BY <2>1, <2>2, <2>3 DEF Foretold, KnowsAll, ForksKept, ForkKept, Kin
  <2>5. Foretold(f)'
    BY <2>1, <2>2, <2>3, <2>4 DEF Foretold, Now
  <2>6. SamePlace' /\ StillThere'
    BY <2>3 DEF KnowsInv, SamePlace, StillThere, Moves
  <2> QED BY <1>1, <2>5, <2>6 DEF KnowsInv
<1>3. CASE HandleEvent
  BY <1>1, <1>3, HandleCall
<1>4. ASSUME NEW i \in 1..Len(queue), Overtake(i) PROVE KnowsInv'
  BY <1>1, <1>4, OvertakeCall
<1>5. ASSUME NEW p \in Pid, Process(p) PROVE KnowsInv'
  BY <1>1, <1>5, ProcessCall
<1> QED BY <1>2, <1>3, <1>4, <1>5 DEF Next

\* What the filter makes of a process does not change while nothing of it is
\* on its way.
LEMMA NothingAwaited ==
    ASSUME NEW f, NEW q, NEW t, NEW n \in Nat, Leads(f, q, t, n), NEW p \in Pid,
           \A k \in 1..n : WellFormed(q[k]) /\ q[k].pid # p /\ p \notin ChildPID(q[k]),
           p \in Trusted(t)
    PROVE  \A k \in 0..n : p \in Trusted(f[k]) /\ f[k].st[p] = t.st[p]
<1> DEFINE T == {k \in 0..n : ~(p \in Trusted(f[k]) /\ f[k].st[p] = t.st[p])}
<1> SUFFICES ASSUME T # {} PROVE FALSE
  OBVIOUS
<1>0. T \subseteq Nat
  OBVIOUS
<1>1. PICK k \in T : \A i \in T : k <= i
  BY <1>0, LeastNat
<1>2. k # 0
  BY DEF Leads
<1>3. k - 1 \in 0..n /\ k \in 1..n /\ k - 1 \notin T
  BY <1>1, <1>2
<1>4. PICK e, u, ev : e = f[k - 1] /\ u = f[k] /\ ev = q[k]
  OBVIOUS
<1>5. p \in e.inh /\ p \notin e.conf /\ e.st[p] = t.st[p]
  BY <1>3, <1>4 DEF Trusted
<1>6. u = Foresee(e, ev) /\ IsForecast(e) /\ WellFormed(ev) /\ ev.pid # p /\ p \notin ChildPID(ev)
  BY <1>3, <1>4 DEF Leads
<1>7. p \in u.inh /\ p \notin u.conf /\ u.st[p] = e.st[p]
  BY <1>5, <1>6 DEF Foresee, Forecast, Observe
<1> QED BY <1>4, <1>5, <1>7 DEF Trusted

\* Once the filter has caught up with a process, its stateByPID entry has the
\* paths of the process's descriptors, but for those it lost sight of, and its
\* working directory or none: for any number of processes and descriptors and
\* any sequence of calls, each handled by observe at any time after it.
THEOREM Known == Spec => []FilterKnows
<1>1. KnowsInv => FilterKnows
  <2> SUFFICES ASSUME KnowsInv, NEW p \in live \ confused, p \in inherited, ~Awaited(p)
               PROVE  Knows(stateByPID[p], fdTable[p], cwd[p], lost[p])
    BY DEF FilterKnows, Knows
  <2>1. PICK f : Foretold(f)
    BY DEF KnowsInv
  <2>2. PICK N, t, q : N = Len(queue) /\ t = Now /\ q = queue
    OBVIOUS
  <2>3. N \in Nat /\ N \in 0..N /\ Leads(f, q, t, N) /\ KnowsAll(f[N])
    BY <2>1, <2>2, TypeQueue DEF Foretold, IsChain, KnowsInv
  <2>4. p \in Pid /\ p \in Trusted(t) /\ t.st[p] = stateByPID[p]
    BY <2>2 DEF Now, Forecast, Trusted, KnowsInv, TypeInv, HistoryOK
  <2>5. \A k \in 1..N : WellFormed(q[k]) /\ q[k].pid # p /\ p \notin ChildPID(q[k])
    BY <2>2, TypeQueue DEF Awaited, KnowsInv
  <2>6. p \in Trusted(f[N]) /\ f[N].st[p] = t.st[p]
    BY <2>3, <2>4, <2>5, NothingAwaited
  <2>7. Knows(f[N].st[p], fdTable[p], cwd[p], lost[p])
    BY <2>3, <2>6 DEF KnowsAll
  <2> QED BY <2>4, <2>6, <2>7
<1> QED BY <1>1, KnowsInit, KnowsStep, PTL DEF Spec

\* A step that handles no event leaves the queue as long as it was, or longer.
LEMMA StepKeepsQueue ==
    ASSUME KnowsInv, [Next]_vars, ~HandleEvent, queue # <<>>
    PROVE  queue' # Tail(queue)
<1>0. PICK rest : rest = Tail(queue)
  OBVIOUS
<1>1. Len(queue) \in Nat /\ Len(queue) > 0 /\ Len(rest) = Len(queue) - 1
  BY <1>0 DEF KnowsInv, TypeInv, SyncInv, QueueOK
<1>2. CASE UNCHANGED vars
  <2>1. queue' = queue
    BY <1>2 DEF vars
  <2>2. rest # queue
    BY <1>1
  <2> QED BY <1>0, <2>1, <2>2
<1>3. ASSUME NEW i \in 1..Len(queue), Overtake(i) PROVE queue' # Tail(queue)
  <2>1. TypeInv'
    BY TypeInvStep DEF KnowsInv
  <2>2. Len(queue') = Len(queue)
    BY <1>3, <2>1, Swapped DEF KnowsInv
  <2>3. rest # queue'
    BY <1>1, <2>2
  <2> QED BY <1>0, <2>3
<1>4. ASSUME NEW p \in Pid, Process(p) PROVE queue' # Tail(queue)
  <2>1. queue' = queue \/ \E ev : queue' = Append(queue, ev)
    <3> DEFINE Goes == queue' = queue \/ \E ev : Submit(ev)
    <3>1. ASSUME NEW raw \in Raw, Open(p, raw) \/ Stat(p, raw) \/ Chdir(p, raw) \/ Unlink(p, raw) PROVE Goes
      BY <3>1 DEF Open, OpensAt, Stat, Chdir, Unlink, Unlinks
    <3>2. ASSUME NEW raw \in Raw, NEW new \in Fd, OpenLost(p, raw, new) PROVE Goes
      BY <3>2 DEF OpenLost, Drop
    <3>3. ASSUME NEW raw \in Raw, NEW dirfd \in Fd \cup {AT_FDCWD},
                 OpenAt(p, dirfd, raw) \/ StatAt(p, dirfd, raw) \/ UnlinkAt(p, dirfd, raw)
          PROVE  Goes
      BY <3>3 DEF OpenAt, OpensAt, StatAt, UnlinkAt, Unlinks
    <3>4. ASSUME NEW old \in Raw, NEW new \in Raw, Rename(p, old, new) PROVE Goes
      BY <3>4 DEF Rename, Renames
    <3>5. ASSUME NEW old \in Raw, NEW new \in Raw, NEW dirfd \in Fd \cup {AT_FDCWD},
                 NEW newdirfd \in Fd \cup {AT_FDCWD}, RenameAt(p, dirfd, old, newdirfd, new)
          PROVE  Goes
      BY <3>5 DEF RenameAt, Renames
    <3>6. ASSUME NEW id \in UseIds, NEW arg \in [RealFdArgs(id) \cup NumberArgs(id) -> Fd], Use(p, id, arg)
          PROVE  Goes
      BY <3>6 DEF Use
    <3>7. ASSUME NEW fd \in Fd, Close(p, fd) \/ CloseLost(p, fd) \/ Fchdir(p, fd) PROVE Goes
      BY <3>7 DEF Close, CloseLost, Drop, Fchdir
    <3>8. ASSUME NEW first \in Fd, NEW last \in Fd, CloseRange(p, first, last) PROVE Goes
      BY <3>8 DEF CloseRange, ClosesUnobserved
    <3>9. ASSUME NEW marked \in SUBSET Fd, Execve(p, marked) PROVE Goes
      BY <3>9 DEF Execve, ClosesUnobserved
    <3>10. ASSUME NEW fd \in Fd, NEW new \in Fd, Dup(p, fd, new) \/ Dup2(p, fd, new) \/ FcntlDup(p, fd, new)
           PROVE  Goes
      BY <3>10 DEF Dup, Dup2, FcntlDup
    <3>11. (\E child \in Pid : Fork(p, child)) \/ ForkReturn(p) \/ Exit(p) => Goes
      BY DEF Fork, ForkReturn, Exit
    <3> HIDE DEF Goes
    <3>12. Goes
      BY <1>4, <3>1, <3>2, <3>3, <3>4, <3>5, <3>6, <3>7, <3>8, <3>9, <3>10, <3>11 DEF Process
    <3> QED BY <3>12 DEF Goes, Submit
  <2>2. queue' = queue \/ Len(queue') = Len(queue) + 1
    BY <2>1 DEF KnowsInv, TypeInv, SyncInv, QueueOK
  <2>3. rest # queue'
    BY <1>1, <2>2
  <2> QED BY <1>0, <2>3
<1> QED BY <1>2, <1>3, <1>4 DEF Next

\* shouldOutput prints an event of a process the filter is right about, on
\* descriptors it is right about, if and only if -e asks for its call and the
\* call touched a traced path.  The programs are those that make none of poll,
\* ppoll and pidfd_getfd: their ARG_FD type is that of a count or of another
\* process's descriptor, which hasTrackedFDArg takes for a descriptor.
THEOREM Exact ==
    ASSUME NoCounts
    PROVE  Spec => OutputExact
<1>1. KnowsInv /\ [Next]_vars => [PrintsHits]_vars
  <2> SUFFICES ASSUME KnowsInv, [Next]_vars PROVE PrintsHits
    OBVIOUS
  <2>1. TypeInv'
    BY TypeInvStep DEF KnowsInv
  <2>2. CASE HandleEvent
    BY <2>1, <2>2, HandleCall
  <2>3. CASE ~HandleEvent
    BY <2>3, StepKeepsQueue DEF PrintsHits
  <2> QED BY <2>2, <2>3
<1> QED BY <1>1, KnowsInit, KnowsStep, PTL DEF Spec, OutputExact
=============================================================================
