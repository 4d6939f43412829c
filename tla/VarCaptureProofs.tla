-------------------------- MODULE VarCaptureProofs --------------------------
(***************************************************************************)
(* No capture leaves its buffer or overlaps another, for any sizes of the  *)
(* payload, the slots and the argv strings, and arguments of any length.   *)
(***************************************************************************)
EXTENDS VarCapture, TLAPS

DescType == [arg_index : Nat, flags : SUBSET {"truncated", "read_error", "null"},
             offset : Nat, length : Nat]

CaptureType == [kind : {"string", "bytes"}, index : Nat]

\* The copies never exceed the size they are given.
LEMMA CopiedBounds ==
    ASSUME NEW str \in Seq(Nat), NEW size \in Nat \ {0}
    PROVE  Copied(str, size) \in 1..size
  BY DEF Copied, AtMost

LEMMA DescTyped ==
    ASSUME NEW index \in Nat, NEW flags \in SUBSET {"truncated", "read_error", "null"},
           NEW offset \in Nat, NEW length \in Nat
    PROVE  /\ Desc(index, flags, offset, length) \in DescType
           /\ Desc(index, flags, offset, length).offset = offset
           /\ Desc(index, flags, offset, length).length = length
  BY DEF Desc, DescType

LEMMA DescAt ==
    ASSUME NEW s \in Seq(DescType), NEW k \in 1..Len(s)
    PROVE  s[k] \in DescType /\ s[k].offset \in Nat /\ s[k].length \in Nat
<1>1. s[k] \in DescType
  OBVIOUS
<1> QED
  BY <1>1 DEF DescType

LEMMA CapturesTyped ==
    ASSUME NEW id, NEW ret \in Int
    PROVE  Captures(id, ret) \in Seq(CaptureType)
<1>1. \A i \in Nat : Str(i) \in CaptureType /\ Bytes(i) \in CaptureType
  BY DEF Str, Bytes, CaptureType
<1>2. \A c \in CaptureType : <<c>> \in Seq(CaptureType) /\ \A d \in CaptureType :
            /\ <<c, d>> \in Seq(CaptureType)
            /\ <<c>> \o <<d>> \in Seq(CaptureType)
            /\ <<c>> \o <<>> \in Seq(CaptureType)
  OBVIOUS
<1>3. <<>> \in Seq(CaptureType)
  OBVIOUS
<1> QED
  BY <1>1, <1>2, <1>3 DEF Captures

(***************************************************************************)
(* The two slots of an event: each descriptor has its half of the payload. *)
(***************************************************************************)
Slotted(e) ==
    /\ e.desc \in Seq(DescType) /\ Len(e.desc) <= 2
    /\ e.payload_len \in 0..MAX_VAR_PAYLOAD
    /\ \A k \in 1..Len(e.desc) :
          /\ e.desc[k].offset = IF k = 1 THEN 0 ELSE GENERIC_VAR_SLOT_SIZE
          /\ e.desc[k].length <= GENERIC_VAR_SLOT_SIZE
          /\ e.desc[k].length > 0 => e.desc[k].offset + e.desc[k].length <= e.payload_len

LEMMA SlottedInside ==
    ASSUME NEW e, Slotted(e)
    PROVE  Inside(e, MAX_VAR_PAYLOAD)
<1>1. ASSUME NEW k \in 1..Len(e.desc)
      PROVE  e.desc[k].offset \in Nat /\ e.desc[k].length \in Nat
  BY DescAt DEF Slotted
<1>2. ASSUME NEW k \in 1..Len(e.desc), NEW l \in 1..Len(e.desc), k < l
      PROVE  e.desc[k].offset + e.desc[k].length <= e.desc[l].offset
  <2>1. k = 1 /\ l = 2
    BY <1>2 DEF Slotted
  <2> QED
    BY <1>1, <2>1, SlotAssumption DEF Slotted
<1> QED
  BY <1>2 DEF Slotted, Inside

\* Adding a descriptor of the next slot.
LEMMA SlotAdded ==
    ASSUME NEW e, Slotted(e), Len(e.desc) < 2, NEW d \in DescType, NEW f,
           d.offset = SlotOffset(e), d.length <= GENERIC_VAR_SLOT_SIZE,
           f.desc = Append(e.desc, d),
           f.payload_len \in 0..MAX_VAR_PAYLOAD, f.payload_len >= e.payload_len,
           d.length > 0 => d.offset + d.length <= f.payload_len
    PROVE  Slotted(f)
<1>1. f.desc \in Seq(DescType) /\ Len(f.desc) = Len(e.desc) + 1
  BY DEF Slotted
<1>2. \A k \in 1..Len(e.desc) : f.desc[k] = e.desc[k]
  BY DEF Slotted
<1>3. f.desc[Len(f.desc)] = d
  BY <1>1 DEF Slotted
<1>4. d.offset = IF Len(f.desc) = 1 THEN 0 ELSE GENERIC_VAR_SLOT_SIZE
  BY <1>1 DEF SlotOffset, Slotted
<1>5. ASSUME NEW k \in 1..Len(f.desc)
      PROVE  /\ f.desc[k].offset = IF k = 1 THEN 0 ELSE GENERIC_VAR_SLOT_SIZE
             /\ f.desc[k].length <= GENERIC_VAR_SLOT_SIZE
             /\ f.desc[k].length > 0 => f.desc[k].offset + f.desc[k].length <= f.payload_len
  <2>1. CASE k = Len(f.desc)
    BY <2>1, <1>3, <1>4
  <2>2. CASE k # Len(f.desc)
    <3>1. k \in 1..Len(e.desc) /\ f.desc[k] = e.desc[k]
      BY <2>2, <1>1, <1>2 DEF Slotted
    <3>2. e.desc[k].offset \in Nat /\ e.desc[k].length \in Nat
      BY <3>1, DescAt DEF Slotted
    <3>3. e.payload_len \in Int /\ f.payload_len \in Int
      BY SlotAssumption DEF Slotted
    <3>4. /\ e.desc[k].offset = IF k = 1 THEN 0 ELSE GENERIC_VAR_SLOT_SIZE
          /\ e.desc[k].length <= GENERIC_VAR_SLOT_SIZE
          /\ e.desc[k].length > 0 => e.desc[k].offset + e.desc[k].length <= e.payload_len
      BY <3>1 DEF Slotted
    <3> QED
      BY <3>1, <3>2, <3>3, <3>4
  <2> QED
    BY <2>1, <2>2
<1> QED
  BY <1>1, <1>5 DEF Slotted

LEMMA StringSlotted ==
    ASSUME NEW e, Slotted(e), NEW index \in Nat, NEW ptr \in Pointers
    PROVE  Slotted(AppendVarString(e, index, ptr))
<1> DEFINE f == AppendVarString(e, index, ptr)
           offset == SlotOffset(e)
           copied == Copied(ptr, GENERIC_VAR_SLOT_SIZE)
<1>0. offset \in {0, GENERIC_VAR_SLOT_SIZE} /\ GENERIC_VAR_SLOT_SIZE \in Nat
  BY SlotAssumption DEF SlotOffset
<1>1. CASE Len(e.desc) >= 2
  BY <1>1 DEF AppendVarString
<1>2. ASSUME Len(e.desc) < 2, ptr \in {Null, Bad}
      PROVE  Slotted(f)
  <2>1. PICK flags \in {{"null"}, {"read_error"}} : f = Noted(e, Desc(index, flags, offset, 0))
    BY <1>2 DEF AppendVarString, Slotted
  <2>2. flags \in SUBSET {"truncated", "read_error", "null"}
    OBVIOUS
  <2>3. /\ Desc(index, flags, offset, 0) \in DescType
        /\ Desc(index, flags, offset, 0).offset = offset
        /\ Desc(index, flags, offset, 0).length = 0
    BY <1>0, <2>2, DescTyped
  <2>4. f.desc = Append(e.desc, Desc(index, flags, offset, 0)) /\ f.payload_len = e.payload_len
    BY <2>1 DEF Noted
  <2>5. e.payload_len \in 0..MAX_VAR_PAYLOAD
    BY DEF Slotted
  <2> HIDE DEF f
  <2> QED
    BY <1>0, <1>2, <2>3, <2>4, <2>5, SlotAdded
<1>3. ASSUME Len(e.desc) < 2, ptr \notin {Null, Bad}
      PROVE  Slotted(f)
  <2>0. ptr \in Seq(Nat)
    BY <1>3 DEF Pointers
  <2>1. copied \in 1..GENERIC_VAR_SLOT_SIZE
    BY <2>0, CopiedBounds, SlotAssumption
  <2> DEFINE d == Desc(index, StringFlags(copied), offset, copied - 1)
  <2>2. StringFlags(copied) \in SUBSET {"truncated", "read_error", "null"}
    BY DEF StringFlags
  <2>3. d \in DescType /\ d.offset = offset /\ d.length = copied - 1
    BY <1>0, <2>1, <2>2, DescTyped
  <2>4. f.desc = Append(e.desc, d) /\ f.payload_len = AtLeast(e.payload_len, offset + copied - 1)
    BY <1>3 DEF AppendVarString, Slotted
  <2>5. /\ f.payload_len \in 0..MAX_VAR_PAYLOAD
        /\ f.payload_len >= e.payload_len
        /\ offset + (copied - 1) <= f.payload_len
    BY <1>0, <2>1, <2>4, SlotAssumption DEF Slotted, AtLeast
  <2> HIDE DEF f, d, copied, offset
  <2>6. d.length <= GENERIC_VAR_SLOT_SIZE /\ d.offset + d.length <= f.payload_len
    BY <1>0, <2>1, <2>3, <2>5
  <2> QED
    BY <1>3, <2>3, <2>4, <2>5, <2>6, SlotAdded DEF offset
<1> QED
  BY <1>1, <1>2, <1>3 DEF Slotted

LEMMA BytesSlotted ==
    ASSUME NEW e, Slotted(e), NEW index \in Nat, NEW ptr, NEW size \in Nat
    PROVE  Slotted(AppendVarBytes(e, index, ptr, size))
<1> DEFINE f == AppendVarBytes(e, index, ptr, size)
           offset == SlotOffset(e)
           to_copy == AtMost(size, GENERIC_VAR_SLOT_SIZE)
           cut == IF size > GENERIC_VAR_SLOT_SIZE THEN {"truncated"} ELSE {}
<1>0. offset \in {0, GENERIC_VAR_SLOT_SIZE} /\ GENERIC_VAR_SLOT_SIZE \in Nat
  BY SlotAssumption DEF SlotOffset
<1>1. to_copy \in 0..GENERIC_VAR_SLOT_SIZE
  BY SlotAssumption DEF AtMost
<1>2. CASE Len(e.desc) >= 2
  BY <1>2 DEF AppendVarBytes
<1>3. ASSUME Len(e.desc) < 2
      PROVE  Slotted(f)
  <2>1. PICK flags \in SUBSET {"truncated", "read_error", "null"}, length \in {0, to_copy} :
            /\ f.desc = Append(e.desc, Desc(index, flags, offset, length))
            /\ f.payload_len \in {e.payload_len, AtLeast(e.payload_len, offset + to_copy)}
            /\ length > 0 => f.payload_len = AtLeast(e.payload_len, offset + to_copy)
    <3>1. CASE ptr = Null
      <4> WITNESS {"null"} \in SUBSET {"truncated", "read_error", "null"}, 0 \in {0, to_copy}
      <4> QED  BY <1>3, <3>1 DEF AppendVarBytes, Noted, Slotted
    <3>2. CASE ptr # Null /\ to_copy = 0
      <4> WITNESS {} \in SUBSET {"truncated", "read_error", "null"}, 0 \in {0, to_copy}
      <4> QED  BY <1>3, <3>2 DEF AppendVarBytes, Noted, Slotted
    <3>3. CASE ptr # Null /\ to_copy # 0 /\ ptr = Bad
      <4> WITNESS cut \cup {"read_error"} \in SUBSET {"truncated", "read_error", "null"},
                  0 \in {0, to_copy}
      <4> QED  BY <1>3, <3>3 DEF AppendVarBytes, Noted, Slotted
    <3>4. CASE ptr # Null /\ to_copy # 0 /\ ptr # Bad
      <4> WITNESS cut \in SUBSET {"truncated", "read_error", "null"}, to_copy \in {0, to_copy}
      <4> QED  BY <1>3, <3>4 DEF AppendVarBytes, Slotted
    <3> QED
      BY <3>1, <3>2, <3>3, <3>4
  <2> DEFINE d == Desc(index, flags, offset, length)
  <2>2. d \in DescType /\ d.offset = offset /\ d.length = length
    BY <1>0, <1>1, DescTyped
  <2>3. /\ f.payload_len \in 0..MAX_VAR_PAYLOAD
        /\ f.payload_len >= e.payload_len
        /\ length > 0 => offset + length <= f.payload_len
    BY <1>0, <1>1, <2>1, SlotAssumption DEF Slotted, AtLeast
  <2> HIDE DEF f, d, to_copy, offset
  <2>4. d.length <= GENERIC_VAR_SLOT_SIZE /\ (d.length > 0 => d.offset + d.length <= f.payload_len)
    BY <1>0, <1>1, <2>2, <2>3
  <2> QED
    BY <1>3, <2>1, <2>2, <2>3, <2>4, SlotAdded DEF offset, d
<1> QED
  BY <1>2, <1>3 DEF Slotted

(***************************************************************************)
(* The inductive invariant.  While the argv is copied the snapshot holds   *)
(* the path alone, shorter than one argv string, and the cursor is inside  *)
(* the payload; the argv's own check leaves room for one more string.      *)
(***************************************************************************)
PathOnly(s) ==
    /\ s.desc \in Seq(DescType) /\ Len(s.desc) = 1
    /\ s.payload_len \in 0..(MAX_EXECVE_ARG_STR - 1)
    /\ s.desc[1].offset = 0 /\ s.desc[1].length <= s.payload_len

Bare(a) == a.desc = <<>> /\ a.payload_len = 0

\* Other threads write to the strings of a call that is not an execve.
MemoryInv ==
    /\ (call.id = "execve" /\ pc \in {"path", "argv", "loop"}) => memory = call.mem
    /\ call.id # "execve" => \A a \in CapturedArgs(call) :
                                a.index \in DOMAIN memory /\ memory[a.index] \in Pointers

SnapshotInv ==
    /\ pc \in {"exit_without", "lost"} => call.id = "execve"
    /\ pc = "path" => call.id = "execve" /\ Bare(snapshot)
    /\ pc \in {"argv", "loop"} => call.id = "execve" /\ PathOnly(snapshot)
    /\ Inside(snapshot, MAX_EXECVE_STATE_PAYLOAD)

LoopInv ==
    pc = "loop" =>
        /\ loop.start = snapshot.payload_len
        /\ loop.cursor \in loop.start..MAX_EXECVE_STATE_PAYLOAD
        /\ loop.i \in Nat \ {0}
        /\ memory[1] \in Seq({Bad, BadCell} \cup Seq(Nat \ {0}))

EventInv ==
    /\ pc \notin {"capture", "submitted", "lost"} => Bare(event)
    /\ pc = "capture" => /\ call.id # "execve" /\ todo \in Seq(CapturedArgs(call))
                         /\ Slotted(event)
    /\ Inside(event, MAX_VAR_PAYLOAD)

IInv == call \in Calls /\ MemoryInv /\ SnapshotInv /\ LoopInv /\ EventInv

LEMMA BareInside ==
    ASSUME NEW a, Bare(a), NEW size \in Nat
    PROVE  Inside(a, size)
  BY DEF Bare, Inside

LEMMA BareSlotted ==
    ASSUME NEW a, Bare(a)
    PROVE  Slotted(a)
  BY SlotAssumption DEF Bare, Slotted

LEMMA PathInside ==
    ASSUME NEW s, PathOnly(s)
    PROVE  Inside(s, MAX_EXECVE_STATE_PAYLOAD)
<1>1. s.desc[1].offset \in Nat /\ s.desc[1].length \in Nat
  BY DescAt DEF PathOnly
<1>2. s.payload_len \in 0..MAX_EXECVE_STATE_PAYLOAD
  BY ExecveAssumption, SlotAssumption DEF PathOnly
<1> QED
  BY <1>1, <1>2 DEF PathOnly, Inside

\* Adding the argv's descriptor behind the path.
LEMMA ArgvInside ==
    ASSUME NEW s, PathOnly(s), NEW d \in DescType, NEW f,
           f.desc = Append(s.desc, d), f.payload_len \in 0..MAX_EXECVE_STATE_PAYLOAD,
           d.offset = s.payload_len, s.payload_len + d.length = f.payload_len
    PROVE  Inside(f, MAX_EXECVE_STATE_PAYLOAD)
<1>1. s.desc[1].offset \in Nat /\ s.desc[1].length \in Nat
  BY DescAt DEF PathOnly
<1>2. d.offset \in Nat /\ d.length \in Nat
  BY DEF DescType
<1>3. Len(f.desc) = 2 /\ f.desc[1] = s.desc[1] /\ f.desc[2] = d
  BY DEF PathOnly
<1>4. \A k \in 1..Len(f.desc) : k = 1 \/ k = 2
  BY <1>3
<1>5. s.payload_len \in Int /\ f.payload_len \in Int
  BY ExecveAssumption DEF PathOnly
<1>6. s.desc[1].offset + s.desc[1].length <= s.payload_len
  BY <1>1, <1>5 DEF PathOnly
<1>7. ASSUME NEW k \in 1..Len(f.desc)
      PROVE  f.desc[k].offset + f.desc[k].length <= f.payload_len
  BY <1>1, <1>2, <1>3, <1>4, <1>5, <1>6
<1>8. ASSUME NEW k \in 1..Len(f.desc), NEW l \in 1..Len(f.desc), k < l
      PROVE  f.desc[k].offset + f.desc[k].length <= f.desc[l].offset
  <2>1. k = 1 /\ l = 2
    BY <1>3, <1>8
  <2> QED
    BY <1>3, <1>6, <2>1
<1> QED
  BY <1>7, <1>8 DEF Inside

LEMMA ArgvEndsInside ==
    ASSUME IInv, pc = "loop", NEW flags \in SUBSET {"truncated", "read_error", "null"},
           NEW cursor \in loop.start..MAX_EXECVE_STATE_PAYLOAD, NEW payload,
           ArgvEnds(flags, cursor, payload)
    PROVE  Inside(snapshot', MAX_EXECVE_STATE_PAYLOAD) /\ pc' = "kernel"
<1> DEFINE d == Desc(1, flags, loop.start, cursor - loop.start)
<1>1. PathOnly(snapshot) /\ loop.start = snapshot.payload_len
  BY DEF IInv, SnapshotInv, LoopInv
<1>2. loop.start \in Nat /\ cursor \in Nat /\ cursor - loop.start \in Nat
  BY <1>1, ExecveAssumption DEF PathOnly
<1>3. d \in DescType /\ d.offset = loop.start /\ d.length = cursor - loop.start
  BY <1>2, DescTyped
<1>4. snapshot'.desc = Append(snapshot.desc, d) /\ snapshot'.payload_len = cursor
  BY DEF ArgvEnds
<1>5. cursor \in 0..MAX_EXECVE_STATE_PAYLOAD
  BY <1>2, ExecveAssumption
<1> HIDE DEF d
<1>6. d.offset = snapshot.payload_len /\ snapshot.payload_len + d.length = snapshot'.payload_len
  BY <1>1, <1>2, <1>3, <1>4
<1>7. snapshot'.payload_len \in 0..MAX_EXECVE_STATE_PAYLOAD
  BY <1>4, <1>5
<1>8. Inside(snapshot', MAX_EXECVE_STATE_PAYLOAD)
  BY <1>1, <1>3, <1>4, <1>6, <1>7, ArgvInside
<1> QED
  BY <1>8 DEF ArgvEnds

LEMMA IInvInit == Init => IInv
<1> SUFFICES ASSUME Init PROVE IInv
  OBVIOUS
<1>1. Bare(snapshot) /\ Bare(event)
  BY DEF Init, Nothing, Bare
<1>2. MAX_EXECVE_STATE_PAYLOAD \in Nat /\ MAX_VAR_PAYLOAD \in Nat
  BY SlotAssumption, ExecveAssumption
<1>3. Inside(snapshot, MAX_EXECVE_STATE_PAYLOAD) /\ Inside(event, MAX_VAR_PAYLOAD)
  BY <1>1, <1>2, BareInside
<1>4. (pc = "path" /\ call.id = "execve") \/ (pc = "kernel" /\ call.id # "execve")
  BY DEF Init
<1>5. MemoryInv
  BY CallsAssumption DEF Init, MemoryInv
<1> QED
  BY <1>1, <1>3, <1>4, <1>5 DEF Init, IInv, SnapshotInv, LoopInv, EventInv

\* The path is captured.
LEMMA PathStep == IInv /\ AppendExecveVarString => IInv'
<1> SUFFICES ASSUME IInv, AppendExecveVarString PROVE IInv'
  OBVIOUS
<1> DEFINE ptr == memory[0]
           copied == Copied(ptr, MAX_EXECVE_ARG_STR)
           flags == IF copied = MAX_EXECVE_ARG_STR THEN {"truncated"} ELSE {}
<1>1. /\ pc = "path" /\ pc' = "argv" /\ call' = call /\ memory' = memory /\ event' = event
      /\ call.id = "execve" /\ Bare(snapshot) /\ memory = call.mem /\ call \in Calls
  BY DEF AppendExecveVarString, IInv, SnapshotInv, MemoryInv
<1>2. ptr \in Pointers
  BY <1>1, CallsAssumption
<1>3. ASSUME ptr \in {Null, Bad}
      PROVE  PathOnly(snapshot')
  <2>1. PICK f \in {{"null"}, {"read_error"}} : snapshot' = Noted(snapshot, Desc(0, f, 0, 0))
    BY <1>3 DEF AppendExecveVarString
  <2>2. f \in SUBSET {"truncated", "read_error", "null"}
    OBVIOUS
  <2> DEFINE d == Desc(0, f, 0, 0)
  <2>3. d \in DescType /\ d.offset = 0 /\ d.length = 0
    BY <2>2, DescTyped
  <2> HIDE DEF d
  <2>4. snapshot'.desc = <<d>> /\ snapshot'.payload_len = 0
    BY <1>1, <2>1 DEF Noted, Bare, d
  <2> QED
    BY <2>3, <2>4, ExecveAssumption DEF PathOnly
<1>4. ASSUME ptr \notin {Null, Bad}
      PROVE  PathOnly(snapshot')
  <2>1. copied \in 1..MAX_EXECVE_ARG_STR
    BY <1>2, <1>4, CopiedBounds, ExecveAssumption DEF Pointers
  <2> DEFINE d == Desc(0, flags, 0, copied - 1)
  <2>2. flags \in SUBSET {"truncated", "read_error", "null"}
    OBVIOUS
  <2>3. copied - 1 \in Nat
    BY <2>1, ExecveAssumption
  <2>4. d \in DescType /\ d.offset = 0 /\ d.length = copied - 1
    BY <2>2, <2>3, DescTyped
  <2>5. snapshot'.desc = Append(snapshot.desc, d) /\ snapshot'.payload_len = copied - 1
    BY <1>4 DEF AppendExecveVarString
  <2> HIDE DEF d, copied
  <2>6. snapshot'.desc = <<d>>
    BY <1>1, <2>5 DEF Bare
  <2> QED
    BY <2>1, <2>3, <2>4, <2>5, <2>6, ExecveAssumption DEF PathOnly
<1>5. PathOnly(snapshot') /\ Inside(snapshot', MAX_EXECVE_STATE_PAYLOAD)
  BY <1>3, <1>4, PathInside
<1> QED
  BY <1>1, <1>5 DEF IInv, MemoryInv, SnapshotInv, LoopInv, EventInv

\* The argv's descriptor is opened.
LEMMA StartStep == IInv /\ ArgvStart => IInv'
<1> SUFFICES ASSUME IInv, ArgvStart PROVE IInv'
  OBVIOUS
<1>1. /\ pc = "argv" /\ call' = call /\ memory' = memory /\ event' = event
      /\ call.id = "execve" /\ PathOnly(snapshot) /\ memory = call.mem /\ call \in Calls
  BY DEF ArgvStart, IInv, SnapshotInv, MemoryInv
<1>2. snapshot.payload_len \in 0..MAX_EXECVE_STATE_PAYLOAD /\ snapshot.payload_len \in Nat
  BY <1>1, ExecveAssumption, SlotAssumption DEF PathOnly
<1>3. CASE memory[1] = Null \/ snapshot.payload_len >= MAX_EXECVE_STATE_PAYLOAD
  <2>1. PICK f \in {{"null"}, {"truncated"}} :
            snapshot' = Noted(snapshot, Desc(1, f, snapshot.payload_len, 0))
    BY <1>3 DEF ArgvStart
  <2>2. f \in SUBSET {"truncated", "read_error", "null"}
    OBVIOUS
  <2> DEFINE d == Desc(1, f, snapshot.payload_len, 0)
  <2>3. d \in DescType /\ d.offset = snapshot.payload_len /\ d.length = 0
    BY <1>2, <2>2, DescTyped
  <2>4. snapshot'.desc = Append(snapshot.desc, d) /\ snapshot'.payload_len = snapshot.payload_len
    BY <2>1 DEF Noted
  <2> HIDE DEF d
  <2>5. snapshot.payload_len + d.length = snapshot'.payload_len
    BY <1>2, <2>3, <2>4
  <2>6. Inside(snapshot', MAX_EXECVE_STATE_PAYLOAD)
    BY <1>1, <1>2, <2>3, <2>4, <2>5, ArgvInside
  <2>7. pc' = "kernel"
    BY <1>3 DEF ArgvStart
  <2> QED
    BY <1>1, <2>6, <2>7 DEF IInv, MemoryInv, SnapshotInv, LoopInv, EventInv
<1>4. CASE ~(memory[1] = Null \/ snapshot.payload_len >= MAX_EXECVE_STATE_PAYLOAD)
  <2>1. /\ pc' = "loop" /\ snapshot' = snapshot
        /\ loop' = [i |-> 1, start |-> snapshot.payload_len, cursor |-> snapshot.payload_len]
    BY <1>4 DEF ArgvStart
  <2>2. memory[1] \in Seq({Bad, BadCell} \cup Seq(Nat \ {0}))
    BY <1>1, <1>4, CallsAssumption
  <2>3. LoopInv'
    BY <1>1, <1>2, <2>1, <2>2, ExecveAssumption DEF LoopInv
  <2> QED
    BY <1>1, <2>1, <2>3 DEF IInv, MemoryInv, SnapshotInv, EventInv
<1> QED
  BY <1>3, <1>4

\* The loop over the argv: a string is copied only where it fits.
LEMMA LoopStep == IInv /\ (ArgvCopies \/ ArgvBreaks \/ ArgvExhausted) => IInv'
<1> SUFFICES ASSUME IInv, ArgvCopies \/ ArgvBreaks \/ ArgvExhausted PROVE IInv'
  OBVIOUS
<1>1. /\ pc = "loop" /\ call' = call /\ memory' = memory /\ event' = event
      /\ call.id = "execve" /\ PathOnly(snapshot) /\ memory = call.mem /\ call \in Calls
      /\ loop.start = snapshot.payload_len
      /\ loop.cursor \in loop.start..MAX_EXECVE_STATE_PAYLOAD
      /\ loop.i \in Nat \ {0}
      /\ memory[1] \in Seq({Bad, BadCell} \cup Seq(Nat \ {0}))
  BY DEF ArgvCopies, ArgvBreaks, ArgvExhausted, IInv, SnapshotInv, MemoryInv, LoopInv
<1>2. ASSUME NEW flags \in SUBSET {"truncated", "read_error", "null"},
             NEW cursor \in loop.start..MAX_EXECVE_STATE_PAYLOAD, NEW payload,
             ArgvEnds(flags, cursor, payload)
      PROVE  IInv'
  <2>1. Inside(snapshot', MAX_EXECVE_STATE_PAYLOAD) /\ pc' = "kernel"
    BY <1>1, <1>2, ArgvEndsInside
  <2> QED
    BY <1>1, <2>1 DEF IInv, MemoryInv, SnapshotInv, LoopInv, EventInv
<1>3. CASE ArgvCopies
  <2> DEFINE ptr == Cell(loop.i)
             copied == Copied(ptr, MAX_EXECVE_ARG_STR)
             payload == StoreStr(snapshot.payload, loop.cursor, ptr, MAX_EXECVE_ARG_STR)
  <2>0. ptr \in Seq(Nat \ {0})
    BY <1>1, <1>3 DEF ArgvCopies, Cell
  <2>1. ptr \in Seq(Nat)
    BY <2>0
  <2>2. copied \in 1..MAX_EXECVE_ARG_STR
    BY <2>1, CopiedBounds, ExecveAssumption
  <2>3. loop.cursor <= MAX_EXECVE_STATE_PAYLOAD - MAX_EXECVE_ARG_STR
    BY <1>3 DEF ArgvCopies, RoomForArg
  <2>4. loop.start \in Nat /\ loop.cursor \in Nat
    BY <1>1, ExecveAssumption DEF PathOnly
  <2>5. loop.cursor + copied \in loop.start..MAX_EXECVE_STATE_PAYLOAD
    BY <1>1, <2>2, <2>3, <2>4, ExecveAssumption, SlotAssumption
  <2>6. CASE copied = MAX_EXECVE_ARG_STR
    <3>1. ArgvEnds({"truncated"}, loop.cursor + copied, payload)
      BY <1>3, <2>6 DEF ArgvCopies
    <3> HIDE DEF copied, payload
    <3> QED
      BY <1>2, <2>5, <3>1
  <2>7. CASE copied # MAX_EXECVE_ARG_STR
    <3>1. /\ snapshot'.desc = snapshot.desc /\ snapshot'.payload_len = snapshot.payload_len
          /\ loop'.i = loop.i + 1 /\ loop'.start = loop.start
          /\ loop'.cursor = loop.cursor + copied /\ pc' = pc
      BY <1>3, <2>7 DEF ArgvCopies
    <3> HIDE DEF copied
    <3>2. PathOnly(snapshot')
      BY <1>1, <3>1 DEF PathOnly
    <3>3. LoopInv'
      BY <1>1, <2>5, <3>1 DEF LoopInv
    <3> QED
      BY <1>1, <3>1, <3>2, <3>3, PathInside DEF IInv, MemoryInv, SnapshotInv, EventInv
  <2> QED
    BY <2>6, <2>7
<1>4. CASE ArgvBreaks
  <2>1. PICK flags \in SUBSET {"truncated", "read_error", "null"} :
            ArgvEnds(flags, loop.cursor, snapshot.payload)
    <3> DEFINE ptr == Cell(loop.i)
               f == IF ptr = BadCell THEN {"read_error"}
                    ELSE IF ptr = Null THEN {}
                    ELSE IF ~RoomForArg THEN {"truncated"}
                    ELSE {"read_error"}
    <3>1. ArgvEnds(f, loop.cursor, snapshot.payload)
      BY <1>4 DEF ArgvBreaks
    <3>2. f \in SUBSET {"truncated", "read_error", "null"}
      OBVIOUS
    <3> HIDE DEF f
    <3> QED
      BY <3>1, <3>2
  <2> QED
    BY <1>1, <1>2, <2>1
<1>5. CASE ArgvExhausted
  <2>1. AllSlotsFlags(Cell(loop.i)) \in SUBSET {"truncated", "read_error", "null"}
    BY DEF AllSlotsFlags
  <2>2. ArgvEnds(AllSlotsFlags(Cell(loop.i)), loop.cursor, snapshot.payload)
    BY <1>5 DEF ArgvExhausted
  <2> QED
    BY <1>1, <1>2, <2>1, <2>2
<1> QED
  BY <1>3, <1>4, <1>5

\* The call is served; no capture happens.
LEMMA ServedStep == IInv /\ (Served \/ SnapshotEvicted) => IInv'
<1> SUFFICES ASSUME IInv, Served \/ SnapshotEvicted PROVE IInv'
  OBVIOUS
<1>1. /\ call' = call /\ snapshot' = snapshot /\ loop' = loop /\ event' = event
      /\ pc = "kernel" /\ pc' \in {"exit", "exit_without"}
      /\ call.id # "execve" => memory' = memory /\ pc' = "exit"
  BY DEF Served, SnapshotEvicted
<1>2. MemoryInv'
  BY <1>1 DEF IInv, MemoryInv, CapturedArgs
<1> QED
  BY <1>1, <1>2 DEF IInv, SnapshotInv, LoopInv, EventInv, Bare

\* Another thread writes: the argument is still one the captures can meet.
LEMMA WriteStep ==
    ASSUME IInv, NEW i \in DOMAIN memory, NEW value \in Overwrites, OtherThreadWrites(i, value)
    PROVE  IInv'
<1>1. /\ call' = call /\ pc' = pc /\ snapshot' = snapshot /\ loop' = loop /\ event' = event
      /\ todo' = todo /\ call.id # "execve" /\ pc # "loop"
      /\ memory' = [j \in DOMAIN memory |-> IF j = i THEN value ELSE memory[j]]
  BY DEF OtherThreadWrites
<1>2. CapturedArgs(call)' = CapturedArgs(call)
  BY <1>1 DEF CapturedArgs
<1>3. \A a \in CapturedArgs(call) : a.index \in DOMAIN memory' /\ memory'[a.index] \in Pointers
  BY <1>1, OverwritesAssumption DEF IInv, MemoryInv
<1>4. MemoryInv'
  BY <1>1, <1>2, <1>3 DEF MemoryInv
<1> QED
  BY <1>1, <1>2, <1>4 DEF IInv, SnapshotInv, LoopInv, EventInv, Bare

\* The snapshot, or two read errors, become the event; or captures begin.
LEMMA ExitStep == IInv /\ (SysExit \/ SysExitWithoutSnapshot) => IInv'
<1> SUFFICES ASSUME IInv, SysExit \/ SysExitWithoutSnapshot PROVE IInv'
  OBVIOUS
<1>1. /\ call' = call /\ memory' = memory /\ snapshot' = snapshot /\ loop' = loop
      /\ call \in Calls /\ Inside(snapshot, MAX_EXECVE_STATE_PAYLOAD)
      /\ pc \in {"exit", "exit_without"} /\ Bare(event)
  BY DEF IInv, SnapshotInv, EventInv, SysExit, SysExitWithoutSnapshot
<1>2. CASE SysExit /\ call.id = "execve"
  <2>1. /\ event'.desc = snapshot.desc /\ event'.payload_len = snapshot.payload_len
        /\ pc' = "submitted"
    BY <1>2 DEF SysExit
  <2>2. Inside(event', MAX_VAR_PAYLOAD)
    BY <1>1, <2>1, ExecveAssumption, SlotAssumption DEF Inside
  <2> QED
    BY <1>1, <1>2, <2>1, <2>2 DEF IInv, MemoryInv, SnapshotInv, LoopInv, EventInv
<1>3. CASE SysExit /\ call.id # "execve"
  <2>1. todo' = Captures(call.id, call.ret) /\ pc' = "capture" /\ event' = event
    BY <1>3 DEF SysExit
  <2>2. Captures(call.id, call.ret) \in Seq(CaptureType)
    BY <1>1, CallsAssumption, CapturesTyped
  <2>3. Captures(call.id, call.ret) \in Seq(CapturedArgs(call))
    BY <2>2 DEF CapturedArgs
  <2>4. Slotted(event) /\ Inside(event, MAX_VAR_PAYLOAD)
    BY <1>1, BareSlotted, SlottedInside
  <2> QED
    BY <1>1, <1>3, <2>1, <2>3, <2>4 DEF IInv, MemoryInv, SnapshotInv, LoopInv, EventInv
<1>4. CASE SysExitWithoutSnapshot
  <2> DEFINE c == Desc(0, {"read_error"}, 0, 0)
             d == Desc(1, {"read_error"}, 0, 0)
  <2>1. c \in DescType /\ d \in DescType /\ c.length = 0 /\ d.length = 0
    BY DescTyped
  <2>0. event' = Noted(Noted(event, c), d) /\ pc' = "lost"
    BY <1>4 DEF SysExitWithoutSnapshot
  <2> HIDE DEF c, d
  <2>2. /\ event'.desc = Append(Append(event.desc, c), d)
        /\ event'.payload_len = event.payload_len
    BY <2>0 DEF Noted
  <2>3. event'.desc = Append(Append(<<>>, c), d) /\ event'.payload_len = 0
    BY <1>1, <2>2 DEF Bare
  <2>4. Len(event'.desc) = 2 /\ event'.desc[1] = c /\ event'.desc[2] = d
    <3>1. <<>> \in Seq(DescType) /\ Append(<<>>, c) \in Seq(DescType)
      BY <2>1
    <3> QED
      BY <2>1, <2>3, <3>1
  <2>5. \A k \in 1..Len(event'.desc) : event'.desc[k].length = 0
    BY <2>1, <2>3, <2>4
  <2>6. Inside(event', MAX_VAR_PAYLOAD)
    BY <2>3, <2>5, SlotAssumption DEF Inside
  <2>7. call.id = "execve"
    BY <1>4 DEF SysExitWithoutSnapshot, IInv, SnapshotInv
  <2> QED
    BY <1>1, <2>0, <2>6, <2>7 DEF IInv, MemoryInv, SnapshotInv, LoopInv, EventInv
<1> QED
  BY <1>2, <1>3, <1>4

\* One more capture in the next slot.
LEMMA CaptureStep == IInv /\ (Capture \/ Submit) => IInv'
<1> SUFFICES ASSUME IInv, Capture \/ Submit PROVE IInv'
  OBVIOUS
<1>1. /\ call' = call /\ memory' = memory /\ snapshot' = snapshot /\ loop' = loop
      /\ pc = "capture" /\ call \in Calls /\ call.id # "execve"
      /\ todo \in Seq(CapturedArgs(call)) /\ Slotted(event)
      /\ Inside(snapshot, MAX_EXECVE_STATE_PAYLOAD)
  BY DEF IInv, MemoryInv, SnapshotInv, EventInv, Capture, Submit
<1>2. CASE Capture
  <2> DEFINE c == Head(todo)
  <2>1. c \in CapturedArgs(call) /\ todo' \in Seq(CapturedArgs(call)) /\ pc' = pc
    BY <1>1, <1>2 DEF Capture
  <2>2. c \in CaptureType
    BY <1>1, <2>1, CallsAssumption, CapturesTyped DEF CapturedArgs
  <2>3. c.index \in Nat
    BY <2>2 DEF CaptureType
  <2>4. memory[c.index] \in Pointers /\ call.size \in Nat
    BY <1>1, <2>1, CallsAssumption DEF IInv, MemoryInv
  <2>5. event' = AppendVarString(event, c.index, memory[c.index])
            \/ event' = AppendVarBytes(event, c.index, memory[c.index], call.size)
    BY <1>2 DEF Capture
  <2> HIDE DEF c
  <2>6. Slotted(event')
    BY <1>1, <2>3, <2>4, <2>5, StringSlotted, BytesSlotted
  <2> QED
    BY <1>1, <2>1, <2>6, SlottedInside DEF IInv, MemoryInv, SnapshotInv, LoopInv, EventInv
<1>3. CASE Submit
  BY <1>1, <1>3, SlottedInside DEF Submit, IInv, MemoryInv, SnapshotInv, LoopInv, EventInv
<1> QED
  BY <1>2, <1>3

LEMMA IInvStep == IInv /\ [Next]_vars => IInv'
<1>1. IInv /\ UNCHANGED vars => IInv'
  BY DEF vars, IInv, MemoryInv, SnapshotInv, LoopInv, EventInv, Bare
<1> QED
  BY <1>1, PathStep, StartStep, LoopStep, ServedStep, WriteStep, ExitStep, CaptureStep DEF Next

\* However long the arguments of a call are, append_var_string,
\* append_var_bytes and the execve captures stay inside their buffers, and
\* the ranges of two descriptors never overlap.
THEOREM BuffersKept == Spec => []CapturesInside
<1>1. IInv => CapturesInside
  <2> SUFFICES ASSUME IInv PROVE CapturesInside
    OBVIOUS
  <2>1. pc = "loop" => loop.cursor \in 0..MAX_EXECVE_STATE_PAYLOAD
    BY ExecveAssumption DEF IInv, LoopInv, SnapshotInv, PathOnly
  <2> QED
    BY <2>1 DEF IInv, SnapshotInv, EventInv, CapturesInside
<1> QED
  BY <1>1, IInvInit, IInvStep, PTL DEF Spec
=============================================================================
