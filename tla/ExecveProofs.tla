---------------------------- MODULE ExecveProofs ----------------------------
(***************************************************************************)
(* What is shown of an execve: append_execve_var_argv lays the argv out as *)
(* strings that each end with a NUL, formatVarArgv takes them apart at the *)
(* NULs again, and the two agree for any argv and any sizes.               *)
(***************************************************************************)
EXTENDS VarShownProofs, FiniteSetTheorems

(***************************************************************************)
(* formatVarArgv: the pieces of a payload that consists of strings, each   *)
(* with its NUL, by the positions where they end.                          *)
(***************************************************************************)
Ends(b) == {j \in 1..Len(b) : b[j] = 0 \/ j = Len(b)}
Rank(b, j) == Cardinality({l \in Ends(b) : l <= j})
EndOf(b, k) == CHOOSE j \in Ends(b) : Rank(b, j) = k
Count(b) == Cardinality(Ends(b))
PieceFrom(b, k) == IF k = 1 THEN 1 ELSE EndOf(b, k - 1) + 1
PieceTo(b, k) == IF b[EndOf(b, k)] = 0 THEN EndOf(b, k) - 1 ELSE EndOf(b, k)
PieceOf(b, k) == SubSeq(b, PieceFrom(b, k), PieceTo(b, k))

LEMMA PiecesAre ==
    ASSUME NEW b
    PROVE  Pieces(b) = [k \in 1..Count(b) |-> PieceOf(b, k)]
  BY DEF Pieces, PieceOf, PieceFrom, PieceTo, EndOf, Rank, Count, Ends

\* Every piece ends somewhere, the last one with the last byte.
Ended(b) ==
    /\ b \in Seq(Nat)
    /\ Count(b) = 0 => Len(b) = 0
    /\ Count(b) > 0 => EndOf(b, Count(b)) = Len(b)
    /\ \A k \in 1..Count(b) : EndOf(b, k) \in Ends(b) /\ b[EndOf(b, k)] = 0

\* c is b with one more string and its NUL.
Grows(b, c, s) ==
    /\ c \in Seq(Nat) /\ s \in Seq(Nat \ {0})
    /\ Len(c) = Len(b) + Len(s) + 1
    /\ \A j \in 1..Len(b) : c[j] = b[j]
    /\ \A j \in 1..Len(s) : c[Len(b) + j] = s[j]
    /\ c[Len(c)] = 0

LEMMA EmptyEnded ==
    ASSUME NEW b \in Seq(Nat), Len(b) = 0
    PROVE  Ended(b) /\ Count(b) = 0
<1>1. Ends(b) = {}
  BY DEF Ends
<1>2. Count(b) = 0
  BY <1>1, FS_EmptySet DEF Count
<1> QED
  BY <1>2 DEF Ended

LEMMA EndsFinite ==
    ASSUME NEW b \in Seq(Nat), NEW j
    PROVE  /\ IsFiniteSet(Ends(b)) /\ Count(b) \in Nat
           /\ Rank(b, j) \in Nat /\ Rank(b, j) <= Count(b)
<1> DEFINE R == {l \in Ends(b) : l <= j}
<1>1. IsFiniteSet(1..Len(b)) /\ Ends(b) \in SUBSET (1..Len(b))
  BY FS_Interval DEF Ends
<1>2. IsFiniteSet(Ends(b))
  BY <1>1, FS_Subset
<1>3. R \in SUBSET Ends(b)
  OBVIOUS
<1> HIDE DEF R
<1>4. IsFiniteSet(R) /\ Cardinality(R) <= Cardinality(Ends(b))
  BY <1>2, <1>3, FS_Subset
<1>5. Cardinality(R) \in Nat /\ Cardinality(Ends(b)) \in Nat
  BY <1>2, <1>4, FS_CardinalityType
<1> QED
  BY <1>2, <1>4, <1>5 DEF R, Rank, Count

\* One more end, after all the others.
LEMMA EndsGrow ==
    ASSUME NEW b, NEW c, NEW s, Ended(b), Grows(b, c, s)
    PROVE  /\ Ends(c) = Ends(b) \cup {Len(c)} /\ Len(c) \notin Ends(b)
           /\ \A j \in Ends(b) : j \in 1..Len(b) /\ j < Len(c)
           /\ Count(c) = Count(b) + 1
           /\ \A j \in Ends(b) : Rank(c, j) = Rank(b, j)
           /\ Rank(c, Len(c)) = Count(c)
<1>1. b \in Seq(Nat) /\ c \in Seq(Nat) /\ s \in Seq(Nat \ {0}) /\ Len(c) = Len(b) + Len(s) + 1
  BY DEF Ended, Grows
<1>2. Len(b) \in Nat /\ Len(s) \in Nat /\ Len(c) \in Nat
  BY <1>1
<1>3. Len(b) > 0 => b[Len(b)] = 0
  <2> SUFFICES ASSUME Len(b) > 0 PROVE b[Len(b)] = 0
    OBVIOUS
  <2>1. Count(b) \in Nat
    BY <1>1, EndsFinite
  <2>2. Count(b) \in 1..Count(b) /\ Count(b) > 0
    BY <2>1 DEF Ended
  <2> QED
    BY <2>2 DEF Ended
<1>4. \A j \in 1..Len(b) : c[j] = b[j]
  BY DEF Grows
<1>5. \A j \in 1..Len(c) : (Len(b) < j /\ j < Len(c)) => c[j] # 0
  <2> SUFFICES ASSUME NEW j \in 1..Len(c), Len(b) < j, j < Len(c) PROVE c[j] # 0
    OBVIOUS
  <2>1. j - Len(b) \in 1..Len(s) /\ Len(b) + (j - Len(b)) = j
    BY <1>1, <1>2
  <2>2. c[j] = s[j - Len(b)]
    BY <2>1 DEF Grows
  <2> QED
    BY <1>1, <2>1, <2>2
<1>6. c[Len(c)] = 0 /\ Len(c) \in 1..Len(c)
  BY <1>1, <1>2 DEF Grows
<1>7. ASSUME NEW j
      PROVE  j \in Ends(c) <=> j \in Ends(b) \cup {Len(c)}
  <2>1. CASE j \in 1..Len(b)
    BY <1>1, <1>2, <1>3, <1>4, <2>1 DEF Ends
  <2>2. CASE j \notin 1..Len(b)
    <3>1. j \notin Ends(b)
      BY <2>2 DEF Ends
    <3>2. j \in Ends(c) => j = Len(c)
      <4> SUFFICES ASSUME j \in Ends(c), j # Len(c) PROVE FALSE
        OBVIOUS
      <4>1. j \in 1..Len(c) /\ c[j] = 0
        BY DEF Ends
      <4>2. Len(b) < j /\ j < Len(c)
        BY <1>2, <2>2, <4>1
      <4> QED
        BY <1>5, <4>1, <4>2
    <3>3. Len(c) \in Ends(c)
      BY <1>6 DEF Ends
    <3> QED
      BY <3>1, <3>2, <3>3
  <2> QED
    BY <2>1, <2>2
<1>8. Ends(c) = Ends(b) \cup {Len(c)}
  BY <1>7
<1>9. \A j \in Ends(b) : j \in 1..Len(b) /\ j < Len(c)
  BY <1>1, <1>2 DEF Ends
<1>10. Len(c) \notin Ends(b)
  BY <1>1, <1>2 DEF Ends
<1>11. Count(c) = Count(b) + 1
  BY <1>1, <1>8, <1>10, EndsFinite, FS_AddElement DEF Count
<1>12. ASSUME NEW j \in Ends(b)
       PROVE  Rank(c, j) = Rank(b, j)
  <2>1. ~(Len(c) <= j)
    BY <1>2, <1>9
  <2>2. {l \in Ends(c) : l <= j} = {l \in Ends(b) : l <= j}
    BY <1>8, <2>1
  <2> QED
    BY <2>2 DEF Rank
<1>13. Rank(c, Len(c)) = Count(c)
  <2>1. \A l \in Ends(c) : l <= Len(c)
    BY <1>2 DEF Ends
  <2>2. {l \in Ends(c) : l <= Len(c)} = Ends(c)
    BY <2>1
  <2> QED
    BY <2>2 DEF Rank, Count
<1> QED
  BY <1>8, <1>9, <1>10, <1>11, <1>12, <1>13
\* Subsequences, element by element.
LEMMA SubSeqIs ==
    ASSUME NEW c, NEW s \in Seq(Nat \ {0}), NEW m \in Nat, NEW n \in Nat, n - m + 1 = Len(s),
           \A j \in 1..Len(s) : c[m + j - 1] = s[j]
    PROVE  SubSeq(c, m, n) = s
<1> DEFINE t == SubSeq(c, m, n)
<1>1. \A i \in m..n : c[i] \in Nat \ {0}
  <2> SUFFICES ASSUME NEW i \in m..n PROVE c[i] \in Nat \ {0}
    OBVIOUS
  <2>1. i - m + 1 \in 1..Len(s) /\ m + (i - m + 1) - 1 = i
    OBVIOUS
  <2>2. c[i] = s[i - m + 1]
    BY <2>1
  <2> QED
    BY <2>1, <2>2
<1>2. /\ t \in Seq(Nat \ {0}) /\ Len(t) = IF m <= n THEN n - m + 1 ELSE 0
      /\ \A i \in 1..(n - m + 1) : t[i] = c[m + i - 1]
  BY <1>1, SubSeqProperties
<1> HIDE DEF t
<1>3. Len(t) = Len(s)
  BY <1>2
<1>4. \A i \in 1..Len(t) : t[i] = s[i]
  BY <1>2, <1>3
<1> QED
  BY <1>2, <1>3, <1>4, SeqEqual DEF t

LEMMA SameSubSeq ==
    ASSUME NEW b, NEW c, NEW m \in Nat, NEW n \in Nat,
           \A j \in m..n : c[j] = b[j] /\ b[j] \in Nat
    PROVE  SubSeq(c, m, n) = SubSeq(b, m, n)
<1> DEFINE t == SubSeq(c, m, n)
           u == SubSeq(b, m, n)
<1>1. /\ t \in Seq(Nat) /\ Len(t) = IF m <= n THEN n - m + 1 ELSE 0
      /\ \A i \in 1..(n - m + 1) : t[i] = c[m + i - 1]
  BY SubSeqProperties
<1>2. /\ u \in Seq(Nat) /\ Len(u) = IF m <= n THEN n - m + 1 ELSE 0
      /\ \A i \in 1..(n - m + 1) : u[i] = b[m + i - 1]
  BY SubSeqProperties
<1> HIDE DEF t, u
<1>3. \A i \in 1..(n - m + 1) : m + i - 1 \in m..n
  OBVIOUS
<1>4. Len(t) = Len(u) /\ \A i \in 1..Len(t) : t[i] = u[i]
  BY <1>1, <1>2, <1>3
<1> QED
  BY <1>1, <1>2, <1>4, SeqEqual DEF t, u
\* The pieces so far are found again, and the new string comes last.
LEMMA PiecesGrow ==
    ASSUME NEW b, NEW c, NEW s, Ended(b), Grows(b, c, s)
    PROVE  /\ Ended(c) /\ Count(c) = Count(b) + 1
           /\ \A k \in 1..Count(b) : PieceOf(c, k) = PieceOf(b, k)
           /\ PieceOf(c, Count(c)) = s
<1>1. b \in Seq(Nat) /\ c \in Seq(Nat) /\ s \in Seq(Nat \ {0}) /\ Len(c) = Len(b) + Len(s) + 1
  BY DEF Ended, Grows
<1>2. Len(b) \in Nat /\ Len(s) \in Nat /\ Len(c) \in Nat /\ Count(b) \in Nat
  <2>1. Count(b) \in Nat
    BY <1>1, EndsFinite
  <2> QED
    BY <1>1, <2>1
<1>3. /\ Ends(c) = Ends(b) \cup {Len(c)} /\ Len(c) \notin Ends(b)
      /\ \A j \in Ends(b) : j \in 1..Len(b) /\ j < Len(c)
      /\ Count(c) = Count(b) + 1
      /\ \A j \in Ends(b) : Rank(c, j) = Rank(b, j)
      /\ Rank(c, Len(c)) = Count(c)
  BY EndsGrow
<1>4. ASSUME NEW k \in 1..Count(b)
      PROVE  /\ EndOf(c, k) = EndOf(b, k) /\ EndOf(b, k) \in 1..Len(b)
             /\ b[EndOf(b, k)] = 0 /\ c[EndOf(b, k)] = 0
  <2>1. \A j : (j \in Ends(c) /\ Rank(c, j) = k) <=> (j \in Ends(b) /\ Rank(b, j) = k)
    BY <1>2, <1>3
  <2>2. EndOf(c, k) = EndOf(b, k)
    BY <2>1 DEF EndOf
  <2>3. EndOf(b, k) \in 1..Len(b) /\ b[EndOf(b, k)] = 0
    BY <1>3 DEF Ended
  <2> QED
    BY <2>2, <2>3 DEF Grows
<1>5. EndOf(c, Count(c)) = Len(c)
  <2>1. \A j \in Ends(b) : Rank(b, j) <= Count(b) /\ Rank(b, j) \in Nat
    BY <1>1, EndsFinite
  <2>2. \A j : (j \in Ends(c) /\ Rank(c, j) = Count(c)) <=> j = Len(c)
    BY <1>2, <1>3, <2>1
  <2> QED
    BY <2>2 DEF EndOf
<1>6. c[Len(c)] = 0 /\ Len(c) \in Ends(c)
  BY <1>3 DEF Grows
<1>7. Ended(c)
  <2>1. ASSUME NEW k \in 1..Count(c)
        PROVE  EndOf(c, k) \in Ends(c) /\ c[EndOf(c, k)] = 0
    <3>1. CASE k = Count(c)
      BY <1>5, <1>6, <3>1
    <3>2. CASE k # Count(c)
      <4>1. k \in 1..Count(b)
        BY <1>2, <1>3, <3>2
      <4> QED
        BY <1>3, <1>4, <4>1 DEF Ended
    <3> QED
      BY <3>1, <3>2
  <2>2. Count(c) # 0
    BY <1>2, <1>3
  <2> QED
    BY <1>1, <1>5, <2>1, <2>2 DEF Ended
<1>8. ASSUME NEW k \in 1..Count(b)
      PROVE  PieceOf(c, k) = PieceOf(b, k)
  <2> DEFINE m == PieceFrom(b, k)
             n == PieceTo(b, k)
  <2>1. PieceFrom(c, k) = m /\ m \in Nat /\ m >= 1
    <3>1. CASE k = 1
      BY <3>1 DEF PieceFrom
    <3>2. CASE k # 1
      <4>1. k - 1 \in 1..Count(b)
        BY <1>2, <3>2
      <4> QED
        BY <1>2, <1>4, <3>2, <4>1 DEF PieceFrom
    <3> QED
      BY <3>1, <3>2
  <2>2. PieceTo(c, k) = n /\ n \in Nat /\ n <= Len(b)
    BY <1>2, <1>4 DEF PieceTo
  <2> HIDE DEF m, n
  <2>3. \A j \in m..n : c[j] = b[j] /\ b[j] \in Nat
    <3> SUFFICES ASSUME NEW j \in m..n PROVE c[j] = b[j] /\ b[j] \in Nat
      OBVIOUS
    <3>1. j \in 1..Len(b)
      BY <1>2, <2>1, <2>2
    <3> QED
      BY <1>1, <3>1 DEF Grows
  <2>4. SubSeq(c, m, n) = SubSeq(b, m, n)
    BY <2>1, <2>2, <2>3, SameSubSeq
  <2> QED
    BY <2>1, <2>2, <2>4 DEF PieceOf, m, n
<1>9. PieceOf(c, Count(c)) = s
  <2> DEFINE m == Len(b) + 1
             n == Len(c) - 1
  <2>1. PieceFrom(c, Count(c)) = m
    <3>1. CASE Count(b) = 0
      BY <1>2, <1>3, <3>1 DEF Ended, PieceFrom
    <3>2. CASE Count(b) # 0
      <4>1. Count(c) # 1 /\ Count(c) - 1 = Count(b) /\ Count(b) \in 1..Count(b) /\ Count(b) > 0
        BY <1>2, <1>3, <3>2
      <4>2. EndOf(b, Count(b)) = Len(b)
        BY <4>1 DEF Ended
      <4> QED
        BY <1>4, <4>1, <4>2 DEF PieceFrom
    <3> QED
      BY <3>1, <3>2
  <2>2. PieceTo(c, Count(c)) = n
    BY <1>5, <1>6 DEF PieceTo
  <2>3. m \in Nat /\ n \in Nat /\ n - m + 1 = Len(s) /\ m >= 1
    BY <1>1, <1>2
  <2>4. \A j \in 1..Len(s) : c[m + j - 1] = s[j]
    <3> SUFFICES ASSUME NEW j \in 1..Len(s) PROVE c[m + j - 1] = s[j]
      OBVIOUS
    <3>1. m + j - 1 = Len(b) + j
      BY <1>2
    <3> QED
      BY <3>1 DEF Grows
  <2> HIDE DEF m, n
  <2>5. SubSeq(c, m, n) = s
    BY <1>1, <2>3, <2>4, SubSeqIs
  <2> QED
    BY <2>1, <2>2, <2>5 DEF PieceOf
<1> QED
  BY <1>3, <1>7, <1>8, <1>9

(***************************************************************************)
(* append_execve_var_argv: storing one string more behind the others.      *)
(***************************************************************************)
StateIndexes == 0..(MAX_EXECVE_STATE_PAYLOAD - 1)
BytesFrom(payload, start, length) == [j \in 1..length |-> payload[start + j - 1]]

LEMMA BytesFromTyped ==
    ASSUME NEW payload \in [StateIndexes -> Nat], NEW start \in Nat, NEW length \in Nat,
           start + length <= MAX_EXECVE_STATE_PAYLOAD
    PROVE  LET b == BytesFrom(payload, start, length)
           IN b \in Seq(Nat) /\ Len(b) = length /\ \A j \in 1..length : b[j] = payload[start + j - 1]
<1> DEFINE b == BytesFrom(payload, start, length)
<1>1. ASSUME NEW j \in 1..length
      PROVE  payload[start + j - 1] \in Nat
  <2>1. start + j - 1 \in StateIndexes
    BY ExecveAssumption, SlotAssumption DEF StateIndexes
  <2> QED
    BY <2>1
<1>2. b \in [1..length -> Nat] /\ \A j \in 1..length : b[j] = payload[start + j - 1]
  BY <1>1 DEF BytesFrom
<1> HIDE DEF b
<1>3. b \in Seq(Nat) /\ Len(b) = length
  BY <1>2, ByteSequence
<1> QED
  BY <1>2, <1>3 DEF b

\* A string as bpf_probe_read_user_str leaves it: its beginning and a NUL.
LEMMA CopiedString ==
    ASSUME NEW ptr \in Seq(Nat), NEW size \in Nat \ {0}
    PROVE  LET copied == Copied(ptr, size)
               s == SubSeq(ptr, 1, copied - 1)
               bytes == Append(s, 0)
           IN /\ copied \in 1..size /\ copied - 1 <= Len(ptr)
              /\ s \in Seq(Nat) /\ Len(s) = copied - 1
              /\ \A j \in 1..(copied - 1) : s[j] = ptr[j]
              /\ bytes \in Seq(Nat) /\ Len(bytes) = copied /\ bytes[copied] = 0
              /\ \A j \in 1..(copied - 1) : bytes[j] = s[j]
              /\ copied # size => copied - 1 = Len(ptr)
<1> DEFINE copied == Copied(ptr, size)
           s == SubSeq(ptr, 1, copied - 1)
           bytes == Append(s, 0)
<1>1. copied \in 1..size /\ copied - 1 <= Len(ptr) /\ (copied # size => copied - 1 = Len(ptr))
  BY DEF Copied, AtMost
<1> HIDE DEF copied
<1>2. s \in Seq(Nat) /\ Len(s) = copied - 1 /\ \A j \in 1..(copied - 1) : s[j] = ptr[j]
  BY <1>1
<1> HIDE DEF s
<1>3. /\ bytes \in Seq(Nat) /\ Len(bytes) = copied /\ bytes[copied] = 0
      /\ \A j \in 1..(copied - 1) : bytes[j] = s[j]
  BY <1>1, <1>2
<1> QED
  BY <1>1, <1>2, <1>3 DEF copied, s

LEMMA StoredState ==
    ASSUME NEW payload \in [StateIndexes -> Nat], NEW at \in Nat, NEW bytes \in Seq(Nat)
    PROVE  Store(payload, at, bytes) \in [StateIndexes -> Nat]
<1>1. ASSUME NEW j \in StateIndexes
      PROVE  (IF at <= j /\ j < at + Len(bytes) THEN bytes[j - at + 1] ELSE payload[j]) \in Nat
  <2>1. CASE at <= j /\ j < at + Len(bytes)
    <3>1. j - at + 1 \in 1..Len(bytes)
      BY <2>1 DEF StateIndexes
    <3> QED
      BY <2>1, <3>1
  <2>2. CASE ~(at <= j /\ j < at + Len(bytes))
    BY <2>2
  <2> QED
    BY <2>1, <2>2
<1> QED
  BY <1>1 DEF Store

LEMMA StoredGrows ==
    ASSUME NEW payload \in [StateIndexes -> Nat], NEW start \in Nat, NEW cursor \in Nat,
           start <= cursor, NEW ptr \in Seq(Nat \ {0}),
           cursor <= MAX_EXECVE_STATE_PAYLOAD - MAX_EXECVE_ARG_STR
    PROVE  LET stored == StoreStr(payload, cursor, ptr, MAX_EXECVE_ARG_STR)
               copied == Copied(ptr, MAX_EXECVE_ARG_STR)
               s == SubSeq(ptr, 1, copied - 1)
           IN /\ stored \in [StateIndexes -> Nat]
              /\ \A j \in StateIndexes : j < cursor => stored[j] = payload[j]
              /\ Grows(BytesFrom(payload, start, cursor - start),
                       BytesFrom(stored, start, (cursor + copied) - start), s)
              /\ IsPrefix(s, ptr) /\ (copied # MAX_EXECVE_ARG_STR => s = ptr)
<1> DEFINE copied == Copied(ptr, MAX_EXECVE_ARG_STR)
           s == SubSeq(ptr, 1, copied - 1)
           bytes == Append(s, 0)
           stored == StoreStr(payload, cursor, ptr, MAX_EXECVE_ARG_STR)
           b == BytesFrom(payload, start, cursor - start)
           c == BytesFrom(stored, start, (cursor + copied) - start)
<1>0. MAX_EXECVE_ARG_STR \in Nat \ {0} /\ MAX_EXECVE_STATE_PAYLOAD \in Nat
  BY ExecveAssumption, SlotAssumption
<1>1. ptr \in Seq(Nat) /\ Len(ptr) \in Nat
  OBVIOUS
<1>2. /\ copied \in 1..MAX_EXECVE_ARG_STR /\ copied - 1 <= Len(ptr)
      /\ s \in Seq(Nat) /\ Len(s) = copied - 1
      /\ \A j \in 1..(copied - 1) : s[j] = ptr[j]
      /\ bytes \in Seq(Nat) /\ Len(bytes) = copied /\ bytes[copied] = 0
      /\ \A j \in 1..(copied - 1) : bytes[j] = s[j]
      /\ copied # MAX_EXECVE_ARG_STR => copied - 1 = Len(ptr)
  BY <1>0, <1>1, CopiedString
<1>3. stored = Store(payload, cursor, bytes)
  BY DEF StoreStr
<1> HIDE DEF copied, bytes, stored
<1>4. stored \in [StateIndexes -> Nat]
  BY <1>2, <1>3, StoredState
<1>5. s \in Seq(Nat \ {0})
  BY <1>1, <1>2
<1> HIDE DEF s
<1>6. copied # MAX_EXECVE_ARG_STR => s = ptr
  <2> SUFFICES ASSUME copied # MAX_EXECVE_ARG_STR PROVE s = ptr
    OBVIOUS
  <2>1. Len(s) = Len(ptr) /\ \A j \in 1..Len(s) : s[j] = ptr[j]
    BY <1>2
  <2> QED
    BY <1>1, <1>2, <2>1, SeqEqual
<1>7. IsPrefix(s, ptr)
  <2>1. SubSeq(s, 1, Len(s)) = s
    BY <1>2, SubSeqFull
  <2>2. s = SubSeq(ptr, 1, Len(s))
    BY <1>2 DEF s
  <2> QED
    BY <1>2, <2>1, <2>2 DEF IsPrefix
<1>8. \A j \in StateIndexes : j < cursor => stored[j] = payload[j]
  <2> SUFFICES ASSUME NEW j \in StateIndexes, j < cursor PROVE stored[j] = payload[j]
    OBVIOUS
  <2>1. j \in DOMAIN payload /\ ~(cursor <= j)
    BY DEF StateIndexes
  <2> QED
    BY <1>3, <2>1, StoreAt
<1>9. ASSUME NEW j \in 1..copied
      PROVE  stored[cursor + j - 1] = bytes[j]
  <2>1. cursor + j - 1 \in StateIndexes
    BY <1>0, <1>2 DEF StateIndexes
  <2>2. cursor <= cursor + j - 1 /\ cursor + j - 1 < cursor + Len(bytes) /\ (cursor + j - 1) - cursor + 1 = j
    BY <1>2
  <2> QED
    BY <1>3, <2>1, <2>2, StoreAt
<1>10. b \in Seq(Nat) /\ Len(b) = cursor - start /\ \A j \in 1..(cursor - start) : b[j] = payload[start + j - 1]
  <2>1. cursor - start \in Nat /\ start + (cursor - start) <= MAX_EXECVE_STATE_PAYLOAD
    BY <1>0
  <2> QED
    BY <2>1, BytesFromTyped
<1>11. /\ c \in Seq(Nat) /\ Len(c) = (cursor + copied) - start
       /\ \A j \in 1..((cursor + copied) - start) : c[j] = stored[start + j - 1]
  <2>1. /\ (cursor + copied) - start \in Nat
        /\ start + ((cursor + copied) - start) <= MAX_EXECVE_STATE_PAYLOAD
    BY <1>0, <1>2
  <2> QED
    BY <1>4, <2>1, BytesFromTyped
<1> HIDE DEF b, c
<1>12. Grows(b, c, s)
  <2>1. Len(c) = Len(b) + Len(s) + 1
    BY <1>2, <1>10, <1>11
  <2>2. ASSUME NEW j \in 1..Len(b)
        PROVE  c[j] = b[j]
    <3>1. start + j - 1 \in StateIndexes /\ start + j - 1 < cursor
      BY <1>0, <1>10 DEF StateIndexes
    <3>2. j \in 1..(cursor - start) /\ j \in 1..((cursor + copied) - start)
      BY <1>2, <1>10
    <3> QED
      BY <1>8, <1>10, <1>11, <3>1, <3>2
  <2>3. ASSUME NEW j \in 1..copied
        PROVE  c[Len(b) + j] = bytes[j]
    <3>1. Len(b) + j \in 1..((cursor + copied) - start) /\ start + (Len(b) + j) - 1 = cursor + j - 1
      BY <1>2, <1>10
    <3> QED
      BY <1>9, <1>11, <3>1
  <2>4. ASSUME NEW j \in 1..Len(s)
        PROVE  c[Len(b) + j] = s[j]
    <3>1. j \in 1..copied /\ j \in 1..(copied - 1)
      BY <1>2
    <3> QED
      BY <1>2, <2>3, <3>1
  <2>5. c[Len(c)] = 0
    <3>1. copied \in 1..copied /\ Len(c) = Len(b) + copied
      BY <1>2, <1>10, <1>11
    <3> QED
      BY <1>2, <2>3, <3>1
  <2> QED
    BY <1>5, <1>11, <2>1, <2>2, <2>4, <2>5 DEF Grows
<1> QED
  BY <1>4, <1>6, <1>7, <1>8, <1>12 DEF b, c, s, stored, copied

(***************************************************************************)
(* The invariant of an execve.  What a snapshot or an event s shows of a   *)
(* path v: nothing of a null or unreadable one, or the beginning, all of   *)
(* it unless flagged.                                                      *)
(***************************************************************************)
ShowsPath(s, v) ==
    LET d == s.desc[1]
        t == VarPayloadSlice(s, d)
    IN /\ d.arg_index = 0 /\ d.offset = 0 /\ d.length \in Nat /\ d.length <= s.payload_len
       /\ \/ v = Null /\ d.flags = {"null"}
          \/ v = Bad /\ v # Null /\ d.flags = {"read_error"}
          \/ /\ v \notin {Null, Bad} /\ d.flags \in {{}, {"truncated"}} /\ IsPrefix(t, v)
             /\ d.flags = {} => t = v

\* The first n cells are laid out in b, the last one perhaps cut.
Laid(b, cells, n, cut) ==
    /\ Ended(b) /\ Count(b) = n /\ n <= Len(cells)
    /\ \A k \in 1..n :
          /\ cells[k] \in Seq(Nat \ {0}) /\ cells[k] \notin {Bad, BadCell}
          /\ IF k = n /\ cut THEN IsPrefix(PieceOf(b, k), cells[k]) ELSE PieceOf(b, k) = cells[k]

\* What it shows of an argv.
ShowsCells(s, cells) ==
    LET d == s.desc[2]
    IN /\ d.arg_index = 1 /\ d.offset \in Nat /\ d.length \in Nat
       /\ d.offset + d.length <= s.payload_len
       /\ \/ cells = Null /\ d.flags = {"null"}
          \/ /\ cells # Null /\ "null" \notin d.flags
             /\ ShowsArgv(Shown(Pieces(VarPayloadSlice(s, d)), d, "read_error" \in d.flags), cells)

ShowsExecve(s) ==
    Len(s.desc) = 2 /\ ShowsPath(s, call.mem[0]) /\ ShowsCells(s, call.mem[1])

SoFar(payload, cursor, cut, n) ==
    Laid(BytesFrom(payload, loop.start, cursor - loop.start), call.mem[1], n, cut)

ExecveInv ==
    call.id = "execve" =>
        /\ snapshot.payload \in [StateIndexes -> Nat]
        /\ pc \notin {"submitted", "lost"} => DOMAIN event.payload = PayloadIndexes
        /\ pc \in {"argv", "loop"} => ShowsPath(snapshot, call.mem[0])
        /\ pc = "loop" => call.mem[1] # Null /\ SoFar(snapshot.payload, loop.cursor, FALSE, loop.i - 1)
        /\ pc \in {"kernel", "exit"} => ShowsExecve(snapshot)
        /\ pc = "submitted" => ShowsExecve(event)
        /\ pc = "lost" => /\ Len(event.desc) = 2 /\ event.payload_len = 0
                          /\ event.desc[1] = Desc(0, {"read_error"}, 0, 0)
                          /\ event.desc[2] = Desc(1, {"read_error"}, 0, 0)

LEMMA PiecesLen ==
    ASSUME NEW b, NEW n \in Nat, Count(b) = n
    PROVE  Len(Pieces(b)) = n /\ \A k \in 1..n : Pieces(b)[k] = PieceOf(b, k)
<1> DEFINE S == {PieceOf(b, k) : k \in 1..n}
<1>1. Pieces(b) = [k \in 1..n |-> PieceOf(b, k)]
  BY PiecesAre
<1>2. Pieces(b) \in [1..n -> S]
  BY <1>1
<1> HIDE DEF S
<1>3. Pieces(b) \in Seq(S) /\ Len(Pieces(b)) = n
  BY <1>2
<1> QED
  BY <1>1, <1>3

LEMMA PrefixOfItself ==
    ASSUME NEW S, NEW s \in Seq(S)
    PROVE  IsPrefix(s, s)
  BY DEF IsPrefix

\* Flags that say what is missing from the cells laid out.
Flagged(flags, cells, n) ==
    /\ flags \in {{}, {"truncated"}, {"read_error"}}
    /\ flags = {} => n = Len(cells)
    /\ flags = {"read_error"} => n < Len(cells) /\ cells[n + 1] \in {Bad, BadCell}

LEMMA LaidShown ==
    ASSUME NEW b, NEW cells, cells # Null, NEW n \in Nat, NEW cut \in BOOLEAN, NEW d,
           Laid(b, cells, n, cut), Flagged(d.flags, cells, n), cut => "truncated" \in d.flags
    PROVE  ShowsArgv(Shown(Pieces(b), d, "read_error" \in d.flags), cells)
<1> DEFINE shown == Shown(Pieces(b), d, "read_error" \in d.flags)
<1>1. /\ shown.what = "text" /\ shown.texts = Pieces(b)
      /\ shown.cut = ("truncated" \in d.flags) /\ shown.error = ("read_error" \in d.flags)
  BY DEF Shown
<1> HIDE DEF shown
<1>2. Len(shown.texts) = n /\ \A k \in 1..n : shown.texts[k] = PieceOf(b, k)
  BY <1>1, PiecesLen DEF Laid
<1>3. ASSUME NEW k \in 1..n
      PROVE  /\ cells[k] \notin {Bad, BadCell}
             /\ IF k = n /\ shown.cut THEN IsPrefix(shown.texts[k], cells[k])
                                      ELSE shown.texts[k] = cells[k]
  <2>1. /\ cells[k] \in Seq(Nat \ {0}) /\ cells[k] \notin {Bad, BadCell}
        /\ IF k = n /\ cut THEN IsPrefix(PieceOf(b, k), cells[k]) ELSE PieceOf(b, k) = cells[k]
    BY DEF Laid
  <2>2. IsPrefix(cells[k], cells[k])
    BY <2>1, PrefixOfItself
  <2>3. shown.texts[k] = PieceOf(b, k) /\ (cut => shown.cut)
    BY <1>1, <1>2
  <2> QED
    BY <2>1, <2>2, <2>3
<1>4. (~shown.cut /\ ~shown.error) => n = Len(cells)
  BY <1>1 DEF Flagged
<1>5. shown.error => n < Len(cells) /\ cells[n + 1] \in {Bad, BadCell}
  BY <1>1 DEF Flagged
<1>6. n <= Len(cells)
  BY DEF Laid
<1>7. ShowsArgv(shown, cells)
  BY <1>1, <1>2, <1>3, <1>4, <1>5, <1>6 DEF ShowsArgv
<1> QED
  BY <1>7 DEF shown

LEMMA SliceSame ==
    ASSUME NEW e, NEW f, NEW d,
           \A j \in 1..d.length : f.payload[d.offset + j - 1] = e.payload[d.offset + j - 1]
    PROVE  VarPayloadSlice(f, d) = VarPayloadSlice(e, d)
  BY DEF VarPayloadSlice

\* The path is shown as long as its bytes are left alone.
LEMMA SamePath ==
    ASSUME NEW e, NEW f, NEW v, ShowsPath(e, v), e.payload_len \in Int, f.payload_len \in Int,
           f.desc[1] = e.desc[1], f.payload_len >= e.payload_len,
           \A j \in 0..(e.payload_len - 1) : f.payload[j] = e.payload[j]
    PROVE  ShowsPath(f, v)
<1> DEFINE d == e.desc[1]
<1>1. d.offset = 0 /\ d.length \in Nat /\ d.length <= e.payload_len
  BY DEF ShowsPath
<1> HIDE DEF d
<1>2. ASSUME NEW j \in 1..d.length
      PROVE  f.payload[d.offset + j - 1] = e.payload[d.offset + j - 1]
  <2>1. d.offset + j - 1 \in 0..(e.payload_len - 1)
    BY <1>1
  <2> QED
    BY <2>1
<1>3. VarPayloadSlice(f, d) = VarPayloadSlice(e, d) /\ d.length <= f.payload_len
  BY <1>1, <1>2, SliceSame
<1> QED
  BY <1>1, <1>3 DEF ShowsPath, d

\* And so is the argv.
LEMMA SameCells ==
    ASSUME NEW e, NEW f, NEW cells, ShowsCells(e, cells), e.payload_len \in Int,
           f.desc[2] = e.desc[2], f.payload_len = e.payload_len,
           \A j \in 0..(e.payload_len - 1) : f.payload[j] = e.payload[j]
    PROVE  ShowsCells(f, cells)
<1> DEFINE d == e.desc[2]
<1>1. d.offset \in Nat /\ d.length \in Nat /\ d.offset + d.length <= e.payload_len
  BY DEF ShowsCells
<1> HIDE DEF d
<1>2. ASSUME NEW j \in 1..d.length
      PROVE  f.payload[d.offset + j - 1] = e.payload[d.offset + j - 1]
  <2>1. d.offset + j - 1 \in 0..(e.payload_len - 1)
    BY <1>1
  <2> QED
    BY <2>1
<1>3. VarPayloadSlice(f, d) = VarPayloadSlice(e, d)
  BY <1>2, SliceSame
<1> QED
  BY <1>1, <1>3 DEF ShowsCells, d

LEMMA ExecveInit == Init => ExecveInv
<1> SUFFICES ASSUME Init, call.id = "execve" PROVE ExecveInv
  BY DEF ExecveInv
<1>1. pc = "path"
  BY DEF Init
<1>2. /\ event.payload = [j \in 0..(MAX_VAR_PAYLOAD - 1) |-> 0]
      /\ snapshot.payload = [j \in 0..(MAX_EXECVE_STATE_PAYLOAD - 1) |-> 0]
  BY DEF Init, Nothing
<1>3. snapshot.payload \in [StateIndexes -> Nat] /\ DOMAIN event.payload = PayloadIndexes
  BY <1>2 DEF StateIndexes, PayloadIndexes
<1> QED
  BY <1>1, <1>3 DEF ExecveInv

\* The path is captured first, at the start of the payload.
LEMMA ExecvePath ==
    ASSUME IInv, ExecveInv, AppendExecveVarString
    PROVE  ExecveInv'
<1> DEFINE ptr == memory[0]
           copied == Copied(ptr, MAX_EXECVE_ARG_STR)
           flags == IF copied = MAX_EXECVE_ARG_STR THEN {"truncated"} ELSE {}
<1>1. /\ pc = "path" /\ pc' = "argv" /\ call' = call /\ event' = event /\ call.id = "execve"
      /\ Bare(snapshot) /\ memory = call.mem /\ call \in Calls
  BY DEF AppendExecveVarString, IInv, SnapshotInv, MemoryInv
<1>2. snapshot.payload \in [StateIndexes -> Nat] /\ DOMAIN event.payload = PayloadIndexes
  BY <1>1 DEF ExecveInv
<1>3. ptr \in Pointers /\ ptr = call.mem[0]
  BY <1>1, CallsAssumption
<1>4. CASE ptr \in {Null, Bad}
  <2> DEFINE d == Desc(0, IF ptr = Null THEN {"null"} ELSE {"read_error"}, 0, 0)
  <2>1. snapshot' = Noted(snapshot, d)
    BY <1>4 DEF AppendExecveVarString
  <2>2. /\ d.arg_index = 0 /\ d.offset = 0 /\ d.length = 0
        /\ d.flags = IF ptr = Null THEN {"null"} ELSE {"read_error"}
    BY DEF Desc
  <2> HIDE DEF d
  <2>3. /\ snapshot'.desc[1] = d /\ snapshot'.payload = snapshot.payload
        /\ snapshot'.payload_len = 0
    BY <1>1, <2>1 DEF Noted, Bare
  <2>4. ShowsPath(snapshot', ptr)
    BY <1>4, <2>2, <2>3 DEF ShowsPath
  <2> QED
    BY <1>1, <1>2, <1>3, <2>3, <2>4 DEF ExecveInv
<1>5. CASE ptr \notin {Null, Bad}
  <2> DEFINE d == Desc(0, flags, 0, copied - 1)
             bytes == Append(SubSeq(ptr, 1, copied - 1), 0)
  <2>1. ptr \in Seq(Nat) /\ MAX_EXECVE_ARG_STR \in Nat \ {0}
    BY <1>3, <1>5, ExecveAssumption DEF Pointers
  <2>2. /\ snapshot'.desc = Append(snapshot.desc, d) /\ snapshot'.payload_len = copied - 1
        /\ snapshot'.payload = Store(snapshot.payload, 0, bytes)
    BY <1>5 DEF AppendExecveVarString, StoreStr
  <2>3. /\ copied \in 1..MAX_EXECVE_ARG_STR /\ copied - 1 <= Len(ptr)
        /\ bytes \in Seq(Nat) /\ Len(bytes) = copied
        /\ \A j \in 1..(copied - 1) : bytes[j] = ptr[j]
        /\ copied # MAX_EXECVE_ARG_STR => copied - 1 = Len(ptr)
    BY <2>1, CopiedString
  <2>4. d.arg_index = 0 /\ d.offset = 0 /\ d.length = copied - 1 /\ d.flags = flags
    BY DEF Desc
  <2> HIDE DEF d, bytes, copied
  <2>5. snapshot'.desc[1] = d
    BY <1>1, <2>2 DEF Bare
  <2>6. snapshot'.payload \in [StateIndexes -> Nat]
    <3>1. 0 \in Nat
      OBVIOUS
    <3>2. Store(snapshot.payload, 0, bytes) \in [StateIndexes -> Nat]
      BY <1>2, <2>3, <3>1, StoredState
    <3> QED
      BY <2>2, <3>2
  <2>7. ASSUME NEW j \in 1..d.length
        PROVE  snapshot'.payload[d.offset + j - 1] = ptr[j]
    <3>1. d.offset + j - 1 \in StateIndexes
      BY <2>3, <2>4, ExecveAssumption, SlotAssumption DEF StateIndexes
    <3>2. 0 <= d.offset + j - 1 /\ d.offset + j - 1 < 0 + Len(bytes) /\ (d.offset + j - 1) - 0 + 1 = j
      BY <2>3, <2>4
    <3>3. snapshot'.payload[d.offset + j - 1] = bytes[j]
      BY <1>2, <2>2, <3>1, <3>2, StoreAt
    <3> QED
      BY <2>3, <2>4, <3>3
  <2>8. d.length \in Nat /\ d.length <= Len(ptr) /\ (flags = {} => d.length = Len(ptr))
    BY <2>3, <2>4
  <2>9. /\ IsPrefix(VarPayloadSlice(snapshot', d), ptr)
        /\ d.length = Len(ptr) => VarPayloadSlice(snapshot', d) = ptr
    BY <2>1, <2>7, <2>8, SlicePrefix
  <2>10. ShowsPath(snapshot', ptr)
    <3>1. d.length <= snapshot'.payload_len /\ d.flags \in {{}, {"truncated"}}
      BY <2>2, <2>4, <2>8
    <3>2. d.flags = {} => VarPayloadSlice(snapshot', d) = ptr
      BY <2>4, <2>8, <2>9
    <3> HIDE DEF ptr, flags
    <3> QED
      BY <1>5, <2>4, <2>5, <2>8, <2>9, <3>1, <3>2 DEF ShowsPath
  <2> QED
    BY <1>1, <1>2, <1>3, <2>6, <2>10 DEF ExecveInv
<1> QED
  BY <1>4, <1>5

\* The argv is given up at once, or its loop begins behind the path.
LEMMA ExecveStart ==
    ASSUME IInv, ExecveInv, ArgvStart
    PROVE  ExecveInv'
<1>1. /\ pc = "argv" /\ call' = call /\ event' = event /\ call.id = "execve"
      /\ PathOnly(snapshot) /\ memory = call.mem /\ call \in Calls
  BY DEF ArgvStart, IInv, SnapshotInv, MemoryInv
<1>2. /\ snapshot.payload \in [StateIndexes -> Nat] /\ DOMAIN event.payload = PayloadIndexes
      /\ ShowsPath(snapshot, call.mem[0])
  BY <1>1 DEF ExecveInv
<1>3. /\ snapshot.payload_len \in Nat /\ snapshot.payload_len <= MAX_EXECVE_STATE_PAYLOAD
      /\ snapshot.desc \in Seq(DescType) /\ Len(snapshot.desc) = 1
  BY <1>1, ExecveAssumption, SlotAssumption DEF PathOnly
<1>4. ASSUME NEW start \in Nat, start <= MAX_EXECVE_STATE_PAYLOAD
      PROVE  Ended(BytesFrom(snapshot.payload, start, 0)) /\ Count(BytesFrom(snapshot.payload, start, 0)) = 0
  <2>1. start + 0 <= MAX_EXECVE_STATE_PAYLOAD
    BY <1>4
  <2> QED
    BY <1>2, <2>1, BytesFromTyped, EmptyEnded
<1>5. call.mem[1] # Null => Len(call.mem[1]) \in Nat
  BY <1>1, CallsAssumption
<1>6. ASSUME NEW b, Ended(b), Count(b) = 0, call.mem[1] # Null
      PROVE  Laid(b, call.mem[1], 0, FALSE)
  BY <1>5, <1>6 DEF Laid
<1>7. CASE memory[1] = Null \/ snapshot.payload_len >= MAX_EXECVE_STATE_PAYLOAD
  <2> DEFINE flags == IF memory[1] = Null THEN {"null"} ELSE {"truncated"}
             d == Desc(1, flags, snapshot.payload_len, 0)
  <2>1. snapshot' = Noted(snapshot, d) /\ pc' = "kernel"
    BY <1>7 DEF ArgvStart
  <2>2. d.arg_index = 1 /\ d.offset = snapshot.payload_len /\ d.length = 0 /\ d.flags = flags
    BY DEF Desc
  <2>3. d \in DescType
    BY <1>3, DescTyped
  <2> HIDE DEF d
  <2>4. /\ snapshot'.desc = Append(snapshot.desc, d) /\ snapshot'.payload = snapshot.payload
        /\ snapshot'.payload_len = snapshot.payload_len
    BY <2>1 DEF Noted
  <2>5. Len(snapshot'.desc) = 2 /\ snapshot'.desc[1] = snapshot.desc[1] /\ snapshot'.desc[2] = d
    BY <1>3, <2>3, <2>4
  <2>6. ShowsPath(snapshot', call.mem[0])
    BY <1>2, <1>3, <2>4, <2>5, SamePath
  <2>7. ShowsCells(snapshot', call.mem[1])
    <3>1. CASE call.mem[1] = Null
      BY <1>1, <1>3, <2>2, <2>4, <2>5, <3>1 DEF ShowsCells
    <3>2. CASE call.mem[1] # Null
      <4> DEFINE b == VarPayloadSlice(snapshot', d)
      <4>1. b = BytesFrom(snapshot.payload, snapshot.payload_len, 0)
        BY <2>2, <2>4 DEF VarPayloadSlice, BytesFrom
      <4>2. d.flags = {"truncated"}
        BY <1>1, <2>2, <3>2
      <4> HIDE DEF b
      <4>3. Laid(b, call.mem[1], 0, FALSE)
        BY <1>3, <1>4, <1>6, <3>2, <4>1
      <4>4. Flagged(d.flags, call.mem[1], 0)
        BY <4>2 DEF Flagged
      <4>5. ShowsArgv(Shown(Pieces(b), d, "read_error" \in d.flags), call.mem[1])
        BY <3>2, <4>3, <4>4, LaidShown
      <4> QED
        BY <1>3, <2>2, <2>4, <2>5, <3>2, <4>2, <4>5 DEF ShowsCells, b
    <3> QED
      BY <3>1, <3>2
  <2> QED
    BY <1>1, <1>2, <2>1, <2>4, <2>5, <2>6, <2>7 DEF ExecveInv, ShowsExecve
<1>8. CASE ~(memory[1] = Null \/ snapshot.payload_len >= MAX_EXECVE_STATE_PAYLOAD)
  <2>1. /\ pc' = "loop" /\ snapshot' = snapshot /\ loop'.i - 1 = 0
        /\ loop'.start = snapshot.payload_len /\ loop'.cursor = snapshot.payload_len
    BY <1>8 DEF ArgvStart
  <2>2. loop'.cursor - loop'.start = 0
    BY <1>3, <2>1
  <2>3. Laid(BytesFrom(snapshot.payload, snapshot.payload_len, 0), call.mem[1], 0, FALSE)
    BY <1>1, <1>3, <1>4, <1>6, <1>8
  <2>4. SoFar(snapshot.payload, loop.cursor, FALSE, loop.i - 1)'
    BY <1>1, <2>1, <2>2, <2>3 DEF SoFar
  <2> QED
    BY <1>1, <1>2, <1>8, <2>1, <2>4 DEF ExecveInv
<1> QED
  BY <1>7, <1>8

\* Where the loop over the argv stands.
LoopAt ==
    /\ pc = "loop" /\ call.id = "execve" /\ call \in Calls /\ PathOnly(snapshot)
    /\ memory = call.mem /\ call.mem[1] # Null
    /\ call.mem[1] \in Seq({Bad, BadCell} \cup Seq(Nat \ {0}))
    /\ \A k \in 1..Len(call.mem[1]) : call.mem[1][k] # Null
    /\ snapshot.payload \in [StateIndexes -> Nat] /\ DOMAIN event.payload = PayloadIndexes
    /\ ShowsPath(snapshot, call.mem[0])
    /\ loop.start = snapshot.payload_len /\ loop.start \in Nat
    /\ loop.cursor \in Nat /\ loop.start <= loop.cursor /\ loop.cursor <= MAX_EXECVE_STATE_PAYLOAD
    /\ loop.i \in Nat \ {0} /\ loop.i - 1 <= Len(call.mem[1])
    /\ SoFar(snapshot.payload, loop.cursor, FALSE, loop.i - 1)

LEMMA AtLoop ==
    ASSUME IInv, ExecveInv, pc = "loop"
    PROVE  LoopAt
<1>1. /\ call.id = "execve" /\ call \in Calls /\ PathOnly(snapshot) /\ memory = call.mem
      /\ loop.start = snapshot.payload_len
      /\ loop.cursor \in loop.start..MAX_EXECVE_STATE_PAYLOAD
      /\ loop.i \in Nat \ {0}
      /\ memory[1] \in Seq({Bad, BadCell} \cup Seq(Nat \ {0}))
  BY DEF IInv, SnapshotInv, MemoryInv, LoopInv
<1>2. loop.start \in Nat
  BY <1>1, ExecveAssumption DEF PathOnly
<1>3. loop.cursor \in Nat /\ loop.start <= loop.cursor /\ loop.cursor <= MAX_EXECVE_STATE_PAYLOAD
  BY <1>1, <1>2, ExecveAssumption, SlotAssumption
<1>4. /\ snapshot.payload \in [StateIndexes -> Nat] /\ DOMAIN event.payload = PayloadIndexes
      /\ ShowsPath(snapshot, call.mem[0]) /\ call.mem[1] # Null
      /\ SoFar(snapshot.payload, loop.cursor, FALSE, loop.i - 1)
  BY <1>1 DEF ExecveInv
<1>5. loop.i - 1 <= Len(call.mem[1])
  BY <1>4 DEF SoFar, Laid
<1>6. \A k \in 1..Len(call.mem[1]) : call.mem[1][k] # Null
  BY <1>1, <1>4, CallsAssumption
<1> QED
  BY <1>1, <1>2, <1>3, <1>4, <1>5, <1>6 DEF LoopAt

\* The loop ends, with flags that say what is missing.
Ending(flags, cursor, payload, n, cut) ==
    /\ cursor \in Nat /\ payload \in [StateIndexes -> Nat] /\ n \in Nat /\ cut \in BOOLEAN
    /\ loop.start <= cursor
    /\ \A j \in StateIndexes : j < loop.start => payload[j] = snapshot.payload[j]
    /\ SoFar(payload, cursor, cut, n) /\ Flagged(flags, call.mem[1], n)
    /\ cut => "truncated" \in flags

LEMMA ExecveEnds ==
    ASSUME LoopAt, NEW flags, NEW cursor, NEW payload, NEW n, NEW cut,
           Ending(flags, cursor, payload, n, cut), ArgvEnds(flags, cursor, payload),
           call' = call, event' = event
    PROVE  ExecveInv'
<1> DEFINE d == Desc(1, flags, loop.start, cursor - loop.start)
           b == BytesFrom(payload, loop.start, cursor - loop.start)
<1> USE DEF LoopAt, Ending
<1>1. /\ snapshot'.desc = Append(snapshot.desc, d) /\ snapshot'.payload = payload
      /\ snapshot'.payload_len = cursor /\ pc' = "kernel"
  BY DEF ArgvEnds
<1>2. cursor - loop.start \in Nat /\ flags \in SUBSET {"truncated", "read_error", "null"}
  BY DEF Flagged
<1>3. /\ d.arg_index = 1 /\ d.offset = loop.start /\ d.length = cursor - loop.start
      /\ d.flags = flags /\ d \in DescType
  BY <1>2, DescTyped DEF Desc
<1> HIDE DEF d
<1>4. Len(snapshot'.desc) = 2 /\ snapshot'.desc[1] = snapshot.desc[1] /\ snapshot'.desc[2] = d
  <2>1. snapshot.desc \in Seq(DescType) /\ Len(snapshot.desc) = 1
    BY DEF PathOnly
  <2> QED
    BY ONLY <1>1, <1>3, <2>1
<1>5. ShowsPath(snapshot', call.mem[0])
  <2>1. ASSUME NEW j \in 0..(snapshot.payload_len - 1)
        PROVE  snapshot'.payload[j] = snapshot.payload[j]
    <3>1. j \in StateIndexes /\ j < loop.start
      BY ExecveAssumption, SlotAssumption DEF StateIndexes
    <3> QED
      BY <1>1, <3>1
  <2>2. snapshot.payload_len \in Int /\ snapshot'.payload_len \in Int /\ snapshot'.payload_len >= snapshot.payload_len
    BY <1>1
  <2> QED
    BY <1>4, <2>1, <2>2, SamePath
<1>6. VarPayloadSlice(snapshot', d) = b
  BY <1>1, <1>3 DEF VarPayloadSlice, BytesFrom
<1>7. Laid(b, call.mem[1], n, cut)
  BY DEF SoFar
<1> HIDE DEF b
<1>8. ShowsArgv(Shown(Pieces(b), d, "read_error" \in d.flags), call.mem[1])
  BY <1>3, <1>7, LaidShown
<1>9. d.offset \in Nat /\ d.length \in Nat /\ d.offset + d.length <= snapshot'.payload_len
  BY <1>1, <1>2, <1>3
<1>10. "null" \notin d.flags
  BY <1>3 DEF Flagged
<1>11. ShowsCells(snapshot', call.mem[1])
  BY <1>3, <1>4, <1>6, <1>8, <1>9, <1>10 DEF ShowsCells
<1> QED
  BY <1>1, <1>4, <1>5, <1>11 DEF ExecveInv, ShowsExecve

\* The cell the loop is at.
LEMMA CellAt ==
    ASSUME LoopAt
    PROVE  LET cells == call.mem[1]
           IN /\ Cell(loop.i) = Null => loop.i - 1 = Len(cells)
              /\ Cell(loop.i) # Null => /\ loop.i - 1 < Len(cells) /\ loop.i \in 1..Len(cells)
                                       /\ Cell(loop.i) = cells[loop.i]
                                       /\ Cell(loop.i) \in {Bad, BadCell} \cup Seq(Nat \ {0})
<1> DEFINE cells == call.mem[1]
<1>1. /\ Len(cells) \in Nat /\ loop.i \in Nat \ {0} /\ loop.i - 1 <= Len(cells)
      /\ \A k \in 1..Len(cells) : cells[k] # Null /\ cells[k] \in {Bad, BadCell} \cup Seq(Nat \ {0})
      /\ memory[1] = cells
  BY DEF LoopAt
<1> HIDE DEF cells
<1>2. CASE loop.i <= Len(cells)
  <2>1. loop.i \in 1..Len(cells) /\ Cell(loop.i) = cells[loop.i]
    BY <1>1, <1>2 DEF Cell
  <2> QED
    BY <1>1, <2>1 DEF cells
<1>3. CASE ~(loop.i <= Len(cells))
  <2>1. Cell(loop.i) = Null /\ loop.i - 1 = Len(cells)
    BY <1>1, <1>3 DEF Cell
  <2> QED
    BY <2>1 DEF cells
<1> QED
  BY <1>2, <1>3

LEMMA ExecveBreaks ==
    ASSUME IInv, ExecveInv, ArgvBreaks \/ ArgvExhausted
    PROVE  ExecveInv'
<1>1. LoopAt /\ call' = call /\ event' = event
  BY AtLoop DEF ArgvBreaks, ArgvExhausted
<1>2. PICK flags : /\ ArgvEnds(flags, loop.cursor, snapshot.payload)
                   /\ Flagged(flags, call.mem[1], loop.i - 1)
  <2>0. Null # BadCell /\ Null # Bad
    BY PointersAssumption
  <2>1. CASE ArgvBreaks
    <3> DEFINE ptr == Cell(loop.i)
               f == IF ptr = BadCell THEN {"read_error"}
                    ELSE IF ptr = Null THEN {}
                    ELSE IF ~RoomForArg THEN {"truncated"}
                    ELSE {"read_error"}
    <3>1. /\ ArgvEnds(f, loop.cursor, snapshot.payload)
          /\ ptr \in {Null, BadCell, Bad} \/ ~RoomForArg
      BY <2>1 DEF ArgvBreaks
    <3>2. Flagged(f, call.mem[1], loop.i - 1)
      <4>1. loop.i - 1 + 1 = loop.i
        BY <1>1 DEF LoopAt
      <4> QED
        BY <1>1, <2>0, <3>1, <4>1, CellAt DEF Flagged
    <3> HIDE DEF f
    <3> QED
      BY <3>1, <3>2
  <2>2. CASE ArgvExhausted
    <3> DEFINE ptr == Cell(loop.i)
               f == AllSlotsFlags(ptr)
    <3>1. ArgvEnds(f, loop.cursor, snapshot.payload)
      BY <2>2 DEF ArgvExhausted
    <3>2. Flagged(f, call.mem[1], loop.i - 1)
      <4>1. loop.i - 1 + 1 = loop.i
        BY <1>1 DEF LoopAt
      <4> QED
        BY <1>1, <2>0, <3>1, <4>1, CellAt DEF Flagged, AllSlotsFlags
    <3> HIDE DEF f
    <3> QED
      BY <3>1, <3>2
  <2> QED
    BY <2>1, <2>2
<1>3. Ending(flags, loop.cursor, snapshot.payload, loop.i - 1, FALSE)
  <2>1. loop.i - 1 \in Nat
    BY <1>1 DEF LoopAt
  <2>2. /\ loop.cursor \in Nat /\ snapshot.payload \in [StateIndexes -> Nat]
        /\ loop.start <= loop.cursor /\ SoFar(snapshot.payload, loop.cursor, FALSE, loop.i - 1)
    BY <1>1 DEF LoopAt
  <2> QED
    BY <1>2, <2>1, <2>2 DEF Ending
<1> QED
  BY <1>1, <1>2, <1>3, ExecveEnds

\* One cell more is laid out, whole or as a prefix.
LaysOut(s, cell, cut) ==
    /\ cell \in Seq(Nat \ {0}) /\ cell \notin {Bad, BadCell}
    /\ IF cut THEN IsPrefix(s, cell) ELSE s = cell

LEMMA LaidGrows ==
    ASSUME NEW b, NEW c, NEW s, NEW cells, NEW n \in Nat, NEW cut \in BOOLEAN,
           Laid(b, cells, n, FALSE), Grows(b, c, s), n + 1 <= Len(cells),
           LaysOut(s, cells[n + 1], cut)
    PROVE  Laid(c, cells, n + 1, cut)
<1>1. /\ Ended(c) /\ Count(c) = n + 1
      /\ \A k \in 1..n : PieceOf(c, k) = PieceOf(b, k)
      /\ PieceOf(c, n + 1) = s
  <2>1. Ended(b) /\ Count(b) = n
    BY DEF Laid
  <2>2. /\ Ended(c) /\ Count(c) = Count(b) + 1
        /\ \A k \in 1..Count(b) : PieceOf(c, k) = PieceOf(b, k)
        /\ PieceOf(c, Count(c)) = s
    BY <2>1, PiecesGrow
  <2> QED
    BY <2>1, <2>2
<1>2. ASSUME NEW k \in 1..(n + 1)
      PROVE  /\ cells[k] \in Seq(Nat \ {0}) /\ cells[k] \notin {Bad, BadCell}
             /\ IF k = n + 1 /\ cut THEN IsPrefix(PieceOf(c, k), cells[k])
                                    ELSE PieceOf(c, k) = cells[k]
  <2>1. CASE k = n + 1
    BY <1>1, <2>1 DEF LaysOut
  <2>2. CASE k # n + 1
    <3>1. k \in 1..n
      BY <2>2
    <3>2. /\ cells[k] \in Seq(Nat \ {0}) /\ cells[k] \notin {Bad, BadCell}
          /\ PieceOf(b, k) = cells[k]
      BY <3>1 DEF Laid
    <3> QED
      BY <1>1, <2>2, <3>1, <3>2
  <2> QED
    BY <2>1, <2>2
<1> QED
  BY <1>1, <1>2 DEF Laid

LEMMA ExecveCopies ==
    ASSUME IInv, ExecveInv, ArgvCopies
    PROVE  ExecveInv'
<1> DEFINE ptr == Cell(loop.i)
           copied == Copied(ptr, MAX_EXECVE_ARG_STR)
           payload == StoreStr(snapshot.payload, loop.cursor, ptr, MAX_EXECVE_ARG_STR)
           s == SubSeq(ptr, 1, copied - 1)
           n == loop.i - 1
           cells == call.mem[1]
           b == BytesFrom(snapshot.payload, loop.start, loop.cursor - loop.start)
           c == BytesFrom(payload, loop.start, (loop.cursor + copied) - loop.start)
<1>1. /\ LoopAt /\ call' = call /\ event' = event
      /\ ptr \notin {Null, BadCell, Bad}
      /\ loop.cursor <= MAX_EXECVE_STATE_PAYLOAD - MAX_EXECVE_ARG_STR
  BY AtLoop DEF ArgvCopies, RoomForArg
<1>2. ptr = cells[loop.i] /\ ptr \in Seq(Nat \ {0}) /\ loop.i <= Len(cells)
  BY <1>1, CellAt
<1>3. /\ loop.start \in Nat /\ loop.cursor \in Nat /\ loop.start <= loop.cursor
      /\ snapshot.payload \in [StateIndexes -> Nat]
      /\ n \in Nat /\ n + 1 = loop.i
  BY <1>1 DEF LoopAt
<1>4. Laid(b, cells, n, FALSE)
  BY <1>1 DEF LoopAt, SoFar
<1>5. /\ payload \in [StateIndexes -> Nat]
      /\ \A j \in StateIndexes : j < loop.cursor => payload[j] = snapshot.payload[j]
      /\ Grows(b, c, s) /\ IsPrefix(s, ptr) /\ (copied # MAX_EXECVE_ARG_STR => s = ptr)
  BY <1>1, <1>2, <1>3, StoredGrows
<1>6. copied \in 1..MAX_EXECVE_ARG_STR /\ MAX_EXECVE_ARG_STR \in Nat
  <2>1. ptr \in Seq(Nat)
    BY <1>2
  <2> HIDE DEF ptr
  <2> QED
    BY <2>1, CopiedBounds, ExecveAssumption
<1>7. CASE copied = MAX_EXECVE_ARG_STR
  <2>1. ArgvEnds({"truncated"}, loop.cursor + copied, payload)
    BY <1>7 DEF ArgvCopies
  <2> HIDE DEF copied, payload, s, ptr, b, c, cells, n
  <2>2. Laid(c, cells, n + 1, TRUE)
    <3>1. LaysOut(s, cells[n + 1], TRUE) /\ n + 1 <= Len(cells)
      BY <1>1, <1>2, <1>3, <1>5 DEF LaysOut
    <3> QED
      BY <1>3, <1>4, <1>5, <3>1, LaidGrows
  <2>3. SoFar(payload, loop.cursor + copied, TRUE, n + 1)
    BY <2>2 DEF SoFar, c, cells
  <2>4. \A j \in StateIndexes : j < loop.start => payload[j] = snapshot.payload[j]
    BY <1>3, <1>5 DEF StateIndexes
  <2>5. Flagged({"truncated"}, call.mem[1], n + 1)
    BY DEF Flagged
  <2>6. loop.cursor + copied \in Nat /\ loop.start <= loop.cursor + copied /\ n + 1 \in Nat
    BY <1>3, <1>6
  <2>7. Ending({"truncated"}, loop.cursor + copied, payload, n + 1, TRUE)
    BY <1>5, <2>3, <2>4, <2>5, <2>6 DEF Ending
  <2> QED
    BY <1>1, <2>1, <2>7, ExecveEnds
<1>8. CASE copied # MAX_EXECVE_ARG_STR
  <2>1. /\ snapshot'.desc = snapshot.desc /\ snapshot'.payload = payload
        /\ snapshot'.payload_len = snapshot.payload_len /\ pc' = pc
        /\ loop'.i = loop.i + 1 /\ loop'.start = loop.start /\ loop'.cursor = loop.cursor + copied
    BY <1>8 DEF ArgvCopies
  <2> HIDE DEF copied, payload, s, ptr, b, c, cells, n
  <2>2. Laid(c, cells, n + 1, FALSE)
    <3>1. LaysOut(s, cells[n + 1], FALSE) /\ n + 1 <= Len(cells)
      BY <1>1, <1>2, <1>3, <1>5, <1>8 DEF LaysOut
    <3> QED
      BY <1>3, <1>4, <1>5, <3>1, LaidGrows
  <2>3. loop'.i - 1 = n + 1
    BY <1>3, <2>1
  <2>4. SoFar(snapshot.payload, loop.cursor, FALSE, loop.i - 1)'
    BY <1>1, <2>1, <2>2, <2>3 DEF SoFar, c, cells
  <2>5. ShowsPath(snapshot', call.mem[0])
    <3>1. ASSUME NEW j \in 0..(snapshot.payload_len - 1)
          PROVE  snapshot'.payload[j] = snapshot.payload[j]
      <4>1. j \in StateIndexes /\ j < loop.cursor
        BY <1>1, <1>3, ExecveAssumption, SlotAssumption DEF LoopAt, StateIndexes
      <4> QED
        BY <1>5, <2>1, <4>1
    <3>2. snapshot.payload_len \in Int /\ ShowsPath(snapshot, call.mem[0])
      BY <1>1 DEF LoopAt
    <3>3. snapshot'.payload_len \in Int /\ snapshot'.payload_len >= snapshot.payload_len
      BY <2>1, <3>2
    <3> QED
      BY <2>1, <3>1, <3>2, <3>3, SamePath
  <2>6. DOMAIN event.payload = PayloadIndexes /\ pc = "loop" /\ call.mem[1] # Null
    BY <1>1 DEF LoopAt
  <2> QED
    BY <1>1, <1>5, <2>1, <2>4, <2>5, <2>6 DEF ExecveInv
<1> QED
  BY <1>7, <1>8

\* sys_exit copies the snapshot into the event.
LEMMA ExecveExit ==
    ASSUME IInv, ExecveInv, SysExit
    PROVE  ExecveInv'
<1>1. CASE call.id # "execve"
  BY <1>1 DEF SysExit, ExecveInv
<1>2. CASE call.id = "execve"
  <2>1. /\ pc = "exit" /\ pc' = "submitted" /\ call' = call /\ snapshot' = snapshot
        /\ event'.desc = snapshot.desc /\ event'.payload_len = snapshot.payload_len
        /\ event'.payload = [j \in DOMAIN event.payload |->
                                IF j < MAX_EXECVE_STATE_PAYLOAD THEN snapshot.payload[j]
                                ELSE event.payload[j]]
    BY <1>2 DEF SysExit
  <2>2. /\ snapshot.payload \in [StateIndexes -> Nat] /\ DOMAIN event.payload = PayloadIndexes
        /\ ShowsExecve(snapshot)
    BY <1>2, <2>1 DEF ExecveInv
  <2>3. snapshot.payload_len \in 0..MAX_EXECVE_STATE_PAYLOAD /\ snapshot.payload_len \in Int
    BY ExecveAssumption, SlotAssumption DEF IInv, SnapshotInv, Inside
  <2>4. ASSUME NEW j \in 0..(snapshot.payload_len - 1)
        PROVE  event'.payload[j] = snapshot.payload[j]
    <3>1. j \in PayloadIndexes /\ j < MAX_EXECVE_STATE_PAYLOAD
      BY <2>3, ExecveAssumption, SlotAssumption DEF PayloadIndexes
    <3> QED
      BY <2>1, <2>2, <3>1
  <2>5. event'.payload_len \in Int /\ event'.payload_len >= snapshot.payload_len
    BY <2>1, <2>3
  <2>6. ShowsPath(event', call.mem[0])
    BY <2>1, <2>2, <2>3, <2>4, <2>5, SamePath DEF ShowsExecve
  <2>7. ShowsCells(event', call.mem[1])
    BY <2>1, <2>2, <2>3, <2>4, SameCells DEF ShowsExecve
  <2> QED
    BY <2>1, <2>2, <2>6, <2>7 DEF ExecveInv, ShowsExecve
<1> QED
  BY <1>1, <1>2

\* Without a snapshot it notes two errors.
LEMMA ExecveLost ==
    ASSUME IInv, ExecveInv, SysExitWithoutSnapshot
    PROVE  ExecveInv'
<1> DEFINE d == Desc(0, {"read_error"}, 0, 0)
           e == Desc(1, {"read_error"}, 0, 0)
<1>1. /\ pc = "exit_without" /\ pc' = "lost" /\ call' = call /\ snapshot' = snapshot
      /\ event' = Noted(Noted(event, d), e) /\ Bare(event)
  BY DEF SysExitWithoutSnapshot, IInv, EventInv
<1>2. d \in DescType /\ e \in DescType
  BY DescTyped
<1> HIDE DEF d, e
<1>3. event'.desc = Append(Append(<<>>, d), e) /\ event'.payload_len = 0
  BY <1>1 DEF Noted, Bare
<1>4. Len(event'.desc) = 2 /\ event'.desc[1] = d /\ event'.desc[2] = e
  <2>1. <<>> \in Seq(DescType) /\ Append(<<>>, d) \in Seq(DescType)
    BY <1>2
  <2> QED
    BY <1>2, <1>3, <2>1
<1> QED
  BY <1>1, <1>3, <1>4 DEF ExecveInv, d, e

LEMMA ExecveStep == IInv /\ ExecveInv /\ [Next]_vars => ExecveInv'
<1> SUFFICES ASSUME IInv, ExecveInv, [Next]_vars PROVE ExecveInv'
  OBVIOUS
<1>1. CASE UNCHANGED vars
  BY <1>1 DEF vars, ExecveInv, SoFar, ShowsExecve
<1>2. CASE Served \/ SnapshotEvicted
  <2>1. /\ call' = call /\ snapshot' = snapshot /\ event' = event /\ pc = "kernel"
        /\ pc' \in {"exit", "exit_without"}
    BY <1>2 DEF Served, SnapshotEvicted
  <2> QED
    BY <2>1 DEF ExecveInv, ShowsExecve
<1>3. CASE Capture \/ Submit \/ \E i \in DOMAIN memory, value \in Overwrites : OtherThreadWrites(i, value)
  <2>1. call' = call /\ call.id # "execve"
    BY <1>3 DEF Capture, Submit, OtherThreadWrites, IInv, EventInv
  <2> QED
    BY <2>1 DEF ExecveInv
<1> QED
  BY <1>1, <1>2, <1>3, ExecvePath, ExecveStart, ExecveCopies, ExecveBreaks, ExecveExit, ExecveLost DEF Next

\* On its way to the event, an execve's snapshot holds its path and the cells
\* of its argv laid out so far.
THEOREM SnapshotHolds == Spec => [](IInv /\ ExecveInv)
<1>1. Init => IInv /\ ExecveInv
  BY IInvInit, ExecveInit
<1>2. IInv /\ ExecveInv /\ [Next]_vars => (IInv /\ ExecveInv)'
  BY IInvStep, ExecveStep
<1> QED
  BY <1>1, <1>2, PTL DEF Spec

(***************************************************************************)
(* The line of an execve.                                                  *)
(***************************************************************************)
\* execve relies on the table for the types of its arguments.
LEMMA ExecveTypes ==
    ArgTypes("execve")[0] = VAR_ARG_STRING /\ ArgTypes("execve")[1] = VAR_ARG_ARGV
<1> DEFINE row == Row(<<VAR_ARG_STRING, VAR_ARG_ARGV, VAR_ARG_ARGV>>, {"execve"})
<1>1. row \in syscall_schemas
  BY DEF syscall_schemas, ProcessAndPathRows
<1>2. row.calls = {"execve"} /\ row.types = <<VAR_ARG_STRING, VAR_ARG_ARGV, VAR_ARG_ARGV>>
  BY DEF Row
<1>3. \A q \in syscall_schemas : "execve" \in q.calls => q = row
  BY <1>1, <1>2, OneRowPerCall
<1>4. "execve" \in Listed /\ RowOf["execve"] = row
  BY <1>1, <1>2, <1>3 DEF Listed, RowOf
<1> HIDE DEF row
<1> QED
  BY <1>2, <1>4 DEF ArgTypes

\* An execve's two descriptors are found, and formatted by those types.
LEMMA ExecveFormatted ==
    ASSUME call.id = "execve", NEW e, Len(e.desc) = 2,
           e.desc[1].arg_index = 0, e.desc[2].arg_index = 1
    PROVE  /\ FormatArg(e, call, 0) = FormatVarString(e, e.desc[1])
           /\ FormatArg(e, call, 1) = FormatVarArgv(e, e.desc[2])
<1>1. \A k \in 1..Len(e.desc) : k = 1 \/ k = 2
  OBVIOUS
<1>2. Len(e.desc) \in Nat /\ 1 \in 1..Len(e.desc) /\ 2 \in 1..Len(e.desc)
  OBVIOUS
<1>3. FindVarArgDesc(e, 0) = {1} /\ Found(e, 0) = e.desc[1]
  <2>1. FindVarArgDesc(e, 0) = {1}
    BY <1>1, <1>2 DEF FindVarArgDesc
  <2>2. (CHOOSE l \in {1} : \A m \in {1} : l <= m) = 1
    OBVIOUS
  <2> QED
    BY <2>1, <2>2 DEF Found
<1>4. FindVarArgDesc(e, 1) = {2} /\ Found(e, 1) = e.desc[2]
  <2>1. FindVarArgDesc(e, 1) = {2}
    BY <1>1, <1>2 DEF FindVarArgDesc
  <2>2. (CHOOSE l \in {2} : \A m \in {2} : l <= m) = 2
    OBVIOUS
  <2> QED
    BY <2>1, <2>2 DEF Found
<1>5. StatBuffer(call) = {} /\ CapturedArgs(call) = {}
  BY ExecveCapturesNone DEF StatBuffer
<1>6. EventArgTypes(call)[0] = VAR_ARG_STRING /\ EventArgTypes(call)[1] = VAR_ARG_ARGV
  BY <1>5, ExecveTypes DEF EventArgTypes
<1> QED
  BY <1>3, <1>4, <1>5, <1>6 DEF FormatArg, FormatVarArg, VAR_ARG_STRING, VAR_ARG_ARGV

\* The line of an execve shows the program and the arguments it was called
\* with, although a successful execve has replaced the memory they were in:
\* append_execve_var_argv ends each string with a NUL and flags what it has
\* left out, and formatVarArgv finds the same strings again.  Without a
\* snapshot it shows errors and no bytes.
THEOREM ShownExecve == Spec => []ExecveShown
<1>1. IInv /\ ExecveInv => ExecveShown
  <2> SUFFICES ASSUME IInv, ExecveInv PROVE ExecveShown
    OBVIOUS
  <2> DEFINE path == FormatArg(event, call, 0)
             argv == FormatArg(event, call, 1)
             d == event.desc[1]
             e == event.desc[2]
  <2>1. ASSUME pc = "submitted", call.id = "execve"
        PROVE  ShowsBytes(path, call.mem[0]) /\ ShowsArgv(argv, call.mem[1])
    <3>1. Len(event.desc) = 2 /\ ShowsPath(event, call.mem[0]) /\ ShowsCells(event, call.mem[1])
      BY <2>1 DEF ExecveInv, ShowsExecve
    <3>2. path = FormatVarString(event, d) /\ argv = FormatVarArgv(event, e)
      BY <2>1, <3>1, ExecveFormatted DEF ShowsPath, ShowsCells
    <3>3. event.payload_len \in 0..MAX_VAR_PAYLOAD /\ MAX_VAR_PAYLOAD \in Nat
      BY SlotAssumption DEF IInv, EventInv, Inside
    <3>4. Sliceable(event, d) /\ Sliceable(event, e)
      <4>1. /\ d.offset = 0 /\ d.length \in Nat /\ d.length <= event.payload_len
            /\ e.offset \in Nat /\ e.length \in Nat /\ e.offset + e.length <= event.payload_len
        BY <3>1 DEF ShowsPath, ShowsCells
      <4> HIDE DEF d, e
      <4> QED
        BY <3>3, <4>1 DEF Sliceable, AtMost
    <3>5. ShowsBytes(path, call.mem[0])
      <4> DEFINE v == call.mem[0]
                 t == VarPayloadSlice(event, d)
      <4>1. \/ v = Null /\ d.flags = {"null"}
            \/ v = Bad /\ v # Null /\ d.flags = {"read_error"}
            \/ /\ v \notin {Null, Bad} /\ d.flags \in {{}, {"truncated"}} /\ IsPrefix(t, v)
               /\ d.flags = {} => t = v
        BY <3>1 DEF ShowsPath
      <4> HIDE DEF path, d, v, t
      <4> QED
        BY <3>2, <3>4, <4>1 DEF FormatVarString, ShowsBytes, Shown, ShownNull, ShownError, v, t
    <3>6. ShowsArgv(argv, call.mem[1])
      <4>1. CASE call.mem[1] = Null
        <5>1. e.flags = {"null"}
          BY <3>1, <4>1 DEF ShowsCells
        <5> QED
          BY <3>2, <4>1, <5>1 DEF FormatVarArgv, ShowsArgv
      <4>2. CASE call.mem[1] # Null
        <5>1. /\ "null" \notin e.flags
              /\ ShowsArgv(Shown(Pieces(VarPayloadSlice(event, e)), e, "read_error" \in e.flags), call.mem[1])
          BY <3>1, <4>2 DEF ShowsCells
        <5>2. argv = Shown(Pieces(VarPayloadSlice(event, e)), e, "read_error" \in e.flags)
          BY <3>2, <3>4, <5>1 DEF FormatVarArgv
        <5> QED
          BY <5>1, <5>2
      <4> QED
        BY <4>1, <4>2
    <3> QED
      BY <3>5, <3>6
  <2>2. ASSUME pc = "lost"
        PROVE  path = ShownError /\ argv.texts = <<>> /\ argv.error
    <3>1. /\ call.id = "execve" /\ Len(event.desc) = 2 /\ event.payload_len = 0
          /\ d = Desc(0, {"read_error"}, 0, 0) /\ e = Desc(1, {"read_error"}, 0, 0)
      BY <2>2 DEF IInv, SnapshotInv, ExecveInv
    <3>2. /\ d.arg_index = 0 /\ d.flags = {"read_error"}
          /\ e.arg_index = 1 /\ e.flags = {"read_error"} /\ e.offset = 0 /\ e.length = 0
      BY <3>1 DEF Desc
    <3>3. path = FormatVarString(event, d) /\ argv = FormatVarArgv(event, e)
      BY <3>1, <3>2, ExecveFormatted
    <3> HIDE DEF d, e, path, argv
    <3>4. path = ShownError
      BY <3>2, <3>3 DEF FormatVarString
    <3>5. Sliceable(event, e)
      BY <3>1, <3>2, SlotAssumption DEF Sliceable, AtMost
    <3> DEFINE b == VarPayloadSlice(event, e)
    <3>6. b = <<>>
      BY <3>2 DEF VarPayloadSlice
    <3> HIDE DEF b
    <3>7. argv.texts = Pieces(b) /\ argv.error
      BY <3>2, <3>3, <3>5 DEF FormatVarArgv, Shown, b
    <3>8. Pieces(b) = <<>>
      <4>0. b \in Seq(Nat) /\ Len(b) = 0
        BY <3>6
      <4>1. Count(b) = 0
        BY <4>0, EmptyEnded
      <4> QED
        BY <4>1, PiecesAre
    <3> QED
      BY <3>4, <3>7, <3>8
  <2> QED
    BY <2>1, <2>2 DEF ExecveShown
<1> QED
  BY <1>1, SnapshotHolds, PTL
=============================================================================
