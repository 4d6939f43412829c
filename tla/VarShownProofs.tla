--------------------------- MODULE VarShownProofs ---------------------------
(***************************************************************************)
(* What is shown of the arguments captured at sys_exit, and what the path  *)
(* filter is given, for any sizes of the slots, arguments of any length    *)
(* and any writes of other threads.                                        *)
(***************************************************************************)
EXTENDS VarCaptureProofs, SequenceTheorems

(***************************************************************************)
(* The table, and the captures of a call.                                  *)
(***************************************************************************)
\* read and write rely on the table for the type of their buffer.
LEMMA BufferType ==
    ASSUME NEW id \in {"read", "write"}
    PROVE  ArgTypes(id)[1] = VAR_ARG_BYTES
<1> DEFINE row == Row(<<ARG_FD, VAR_ARG_BYTES>>, {"read", "write"})
<1>1. row \in syscall_schemas
  BY DEF syscall_schemas, FileAndSocketRows
<1>2. row.calls = {"read", "write"} /\ row.types = <<ARG_FD, VAR_ARG_BYTES>>
  BY DEF Row
<1>3. \A q \in syscall_schemas : id \in q.calls => q = row
  BY <1>1, <1>2, OneRowPerCall
<1>4. id \in Listed /\ RowOf[id] = row
  BY <1>1, <1>2, <1>3 DEF Listed, RowOf
<1> HIDE DEF row
<1> QED
  BY <1>2, <1>4 DEF ArgTypes

\* What is captured: strings only, a string and the stat structure of a call
\* that succeeded, that structure alone, or a buffer.
Shape(c, caps) ==
    \/ /\ StatBuffer(c) = {} /\ c.id \notin {"read", "write"}
       /\ caps \in {<<>>, <<Str(0)>>, <<Str(1)>>, <<Str(0), Str(1)>>, <<Str(1), Str(3)>>}
    \/ /\ StatBuffer(c) = {1} /\ c.id \notin {"read", "write"}
       /\ caps \in {<<Str(0)>>} \cup (IF c.ret >= 0 THEN {<<Str(0), Bytes(1)>>} ELSE {})
    \/ /\ StatBuffer(c) = {2} /\ c.id \notin {"read", "write"}
       /\ caps \in {<<Str(1)>>} \cup (IF c.ret >= 0 THEN {<<Str(1), Bytes(2)>>} ELSE {})
    \/ /\ StatBuffer(c) = {4} /\ c.id \notin {"read", "write"}
       /\ caps \in {<<Str(1)>>} \cup (IF c.ret >= 0 THEN {<<Str(1), Bytes(4)>>} ELSE {})
    \/ /\ StatBuffer(c) = {1} /\ c.id \notin {"read", "write"}
       /\ caps \in {<<>>} \cup (IF c.ret >= 0 THEN {<<Bytes(1)>>} ELSE {})
    \/ /\ StatBuffer(c) = {} /\ c.id \in {"read", "write"}
       /\ caps \in {<<>>, <<Bytes(1)>>}

LEMMA CapturesShape ==
    ASSUME NEW c
    PROVE  Shape(c, Captures(c.id, c.ret))
<1>0. ASSUME NEW x, NEW y
      PROVE  <<x>> \o <<y>> = <<x, y>> /\ <<x>> \o <<>> = <<x>>
  <2>1. <<x>> \in Seq({x, y}) /\ <<y>> \in Seq({x, y}) /\ <<x, y>> \in Seq({x, y})
    OBVIOUS
  <2>2. <<x>> \o <<>> = <<x>>
    BY <2>1, ConcatEmptySeq
  <2> DEFINE t == <<x>> \o <<y>>
  <2>3. t \in Seq({x, y}) /\ Len(t) = 2 /\ t[1] = x /\ t[2] = y
    BY <2>1
  <2> HIDE DEF t
  <2>4. t = <<x, y>>
    BY <2>1, <2>3
  <2> QED
    BY <2>2, <2>4 DEF t
<1>1. CASE c.id \in {"open", "access", "chdir", "unlink", "openat", "openat2", "faccessat",
                     "faccessat2", "unlinkat", "rename", "renameat", "renameat2"}
  BY <1>1 DEF Captures, StatBuffer, Shape
<1>2. CASE c.id \in {"newstat", "newlstat"}
  BY <1>0, <1>2 DEF Captures, StatBuffer, Shape
<1>3. CASE c.id = "newfstatat"
  BY <1>0, <1>3 DEF Captures, StatBuffer, Shape
<1>4. CASE c.id = "statx"
  BY <1>0, <1>4 DEF Captures, StatBuffer, Shape
<1>5. CASE c.id \in {"read", "write"}
  BY <1>5 DEF Captures, StatBuffer, Shape
<1>6. CASE c.id = "newfstat"
  BY <1>6 DEF Captures, StatBuffer, Shape
<1>7. CASE c.id \notin {"open", "access", "chdir", "unlink", "openat", "openat2", "faccessat",
                        "faccessat2", "unlinkat", "rename", "renameat", "renameat2", "newstat",
                        "newlstat", "newfstatat", "statx", "read", "write", "newfstat"}
  BY <1>7 DEF Captures, StatBuffer, Shape
<1> QED
  BY <1>1, <1>2, <1>3, <1>4, <1>5, <1>6, <1>7

LEMMA OneOrTwo ==
    ASSUME NEW n \in Nat, n <= 2, NEW k \in 1..n
    PROVE  k = 1 \/ (k = 2 /\ n = 2)
  OBVIOUS

\* Captures of different arguments, at most two.
LEMMA CapturesApart ==
    ASSUME NEW c \in Calls
    PROVE  LET caps == Captures(c.id, c.ret)
           IN /\ caps \in Seq(CaptureType) /\ Len(caps) <= 2
              /\ \A k \in 1..Len(caps) : \A l \in 1..Len(caps) : caps[k].index = caps[l].index => k = l
<1> DEFINE caps == Captures(c.id, c.ret)
<1>1. caps \in Seq(CaptureType)
  BY CapturesTyped, CallsAssumption
<1>2. Shape(c, caps)
  BY CapturesShape
<1> HIDE DEF caps
<1>3. Len(caps) <= 2 /\ (Len(caps) = 2 => caps[1].index # caps[2].index)
  <2>1. \/ caps = <<>> \/ \E i \in Nat : caps = <<Str(i)>> \/ caps = <<Bytes(i)>>
        \/ \E i \in Nat, j \in Nat : i # j /\ (caps = <<Str(i), Str(j)>> \/ caps = <<Str(i), Bytes(j)>>)
    BY <1>2 DEF Shape
  <2>2. CASE caps = <<>> \/ \E i \in Nat : caps = <<Str(i)>> \/ caps = <<Bytes(i)>>
    BY <2>2
  <2>3. CASE \E i \in Nat, j \in Nat :
                i # j /\ (caps = <<Str(i), Str(j)>> \/ caps = <<Str(i), Bytes(j)>>)
    <3>1. PICK i \in Nat, j \in Nat :
                i # j /\ (caps = <<Str(i), Str(j)>> \/ caps = <<Str(i), Bytes(j)>>)
      BY <2>3
    <3>2. Len(caps) = 2 /\ caps[1] = Str(i) /\ caps[2] \in {Str(j), Bytes(j)}
      BY <3>1
    <3> QED
      BY <3>1, <3>2 DEF Str, Bytes
  <2> QED
    BY <2>1, <2>2, <2>3
<1>4. ASSUME NEW k \in 1..Len(caps), NEW l \in 1..Len(caps), caps[k].index = caps[l].index
      PROVE  k = l
  <2>0. Len(caps) \in Nat /\ Len(caps) <= 2
    BY <1>1, <1>3
  <2>1. (k = 1 \/ (k = 2 /\ Len(caps) = 2)) /\ (l = 1 \/ (l = 2 /\ Len(caps) = 2))
    BY <2>0, OneOrTwo
  <2>2. CASE k = 1 /\ l = 2
    BY <1>3, <1>4, <2>1, <2>2
  <2>3. CASE k = 2 /\ l = 1
    BY <1>3, <1>4, <2>1, <2>3
  <2> QED
    BY <2>1, <2>2, <2>3
<1> QED
  BY <1>1, <1>3, <1>4 DEF caps

\* The n-th capture: a string, a stat structure of a call that succeeded, or
\* the only capture of read and write.
LEMMA CaptureKinds ==
    ASSUME NEW c \in Calls, NEW k \in 1..Len(Captures(c.id, c.ret))
    PROVE  LET a == Captures(c.id, c.ret)[k]
           IN \/ /\ a.kind = "string" /\ a = Str(a.index) /\ a.index \notin StatBuffer(c)
                 /\ a.index \in 0..5 /\ c.id \notin {"read", "write"}
              \/ a.kind = "bytes" /\ a.index \in StatBuffer(c) /\ c.ret >= 0
              \/ a.kind = "bytes" /\ StatBuffer(c) = {} /\ c.id \in {"read", "write"} /\ k = 1 /\ a.index = 1
<1> DEFINE caps == Captures(c.id, c.ret)
<1>1. Shape(c, caps) /\ caps \in Seq(CaptureType) /\ Len(caps) <= 2
  BY CapturesShape, CapturesApart
<1> HIDE DEF caps
<1>2. k = 1 \/ k = 2
  BY <1>1 DEF caps
<1> QED
  BY <1>1, <1>2 DEF Shape, Str, Bytes, caps

(***************************************************************************)
(* What descriptor k holds of a value of its argument.                     *)
(***************************************************************************)
HoldsString(e, k, v) ==
    IF v = Null THEN e.desc[k].flags = {"null"} /\ e.desc[k].length = 0
    ELSE IF v = Bad THEN e.desc[k].flags = {"read_error"} /\ e.desc[k].length = 0
    ELSE /\ v \in Seq(Nat)
         /\ e.desc[k].length = Copied(v, GENERIC_VAR_SLOT_SIZE) - 1
         /\ e.desc[k].flags = StringFlags(Copied(v, GENERIC_VAR_SLOT_SIZE))
         /\ e.desc[k].offset + e.desc[k].length <= e.payload_len
         /\ \A j \in 1..e.desc[k].length : e.payload[e.desc[k].offset + j - 1] = v[j]

CutBytes(size) == IF size > GENERIC_VAR_SLOT_SIZE THEN {"truncated"} ELSE {}
HoldsBytes(e, k, v, size) ==
    IF v = Null THEN e.desc[k].flags = {"null"} /\ e.desc[k].length = 0
    ELSE IF size = 0 THEN e.desc[k].flags = {} /\ e.desc[k].length = 0
    ELSE IF v = Bad THEN e.desc[k].flags = CutBytes(size) \cup {"read_error"} /\ e.desc[k].length = 0
    ELSE /\ e.desc[k].length = AtMost(size, GENERIC_VAR_SLOT_SIZE)
         /\ e.desc[k].flags = CutBytes(size)
         /\ e.desc[k].offset + e.desc[k].length <= e.payload_len
         /\ \A j \in 1..e.desc[k].length : e.payload[e.desc[k].offset + j - 1] = v[j]

\* One capture more: its descriptor comes last, and the bytes of the earlier
\* ones are still there.
Adds(e, f, index) ==
    /\ Len(f.desc) = Len(e.desc) + 1
    /\ f.desc[Len(f.desc)].arg_index = index
    /\ DOMAIN f.payload = DOMAIN e.payload
    /\ f.payload_len >= e.payload_len
    /\ \A k \in 1..Len(e.desc) :
          /\ f.desc[k] = e.desc[k]
          /\ \A j \in 1..e.desc[k].length :
                f.payload[e.desc[k].offset + j - 1] = e.payload[e.desc[k].offset + j - 1]

PayloadIndexes == 0..(MAX_VAR_PAYLOAD - 1)

LEMMA StoreAt ==
    ASSUME NEW payload, NEW at, NEW bytes, NEW j \in DOMAIN payload
    PROVE  /\ DOMAIN Store(payload, at, bytes) = DOMAIN payload
           /\ Store(payload, at, bytes)[j] =
                IF at <= j /\ j < at + Len(bytes) THEN bytes[j - at + 1] ELSE payload[j]
  BY DEF Store

\* Noting a descriptor without bytes.
LEMMA NotedAdds ==
    ASSUME NEW e, Slotted(e), NEW d \in DescType
    PROVE  /\ Adds(e, Noted(e, d), d.arg_index)
           /\ Noted(e, d).desc[Len(e.desc) + 1] = d
<1> DEFINE f == Noted(e, d)
<1>1. f.desc = Append(e.desc, d) /\ f.payload = e.payload /\ f.payload_len = e.payload_len
  BY DEF Noted
<1>2. e.desc \in Seq(DescType) /\ e.payload_len \in Int
  BY SlotAssumption DEF Slotted
<1> HIDE DEF f
<1>3. Len(f.desc) = Len(e.desc) + 1 /\ f.desc[Len(e.desc) + 1] = d
  BY <1>1, <1>2
<1>4. \A k \in 1..Len(e.desc) : f.desc[k] = e.desc[k]
  BY <1>1, <1>2
<1>5. f.payload_len >= e.payload_len
  BY <1>1, <1>2
<1>6. Adds(e, f, d.arg_index)
  BY <1>1, <1>3, <1>4, <1>5 DEF Adds
<1> QED
  BY <1>3, <1>6 DEF f

\* Storing at most a slot of bytes behind a new descriptor: the first
\* capture's bytes are in the other half of the payload.
Stores(e, f, d, bytes) ==
    /\ Len(bytes) \in 0..GENERIC_VAR_SLOT_SIZE /\ d.length <= Len(bytes)
    /\ d \in DescType /\ d.offset = SlotOffset(e)
    /\ f.desc = Append(e.desc, d) /\ f.payload = Store(e.payload, d.offset, bytes)
    /\ f.payload_len = AtLeast(e.payload_len, d.offset + d.length)

LEMMA StoreAdds ==
    ASSUME NEW e, Slotted(e), Len(e.desc) < 2, DOMAIN e.payload = PayloadIndexes,
           NEW d, NEW f, NEW bytes, Stores(e, f, d, bytes)
    PROVE  /\ Adds(e, f, d.arg_index)
           /\ f.desc[Len(e.desc) + 1] = d
           /\ d.offset + d.length <= f.payload_len
           /\ \A j \in 1..d.length : f.payload[d.offset + j - 1] = bytes[j]
<1> USE DEF Stores
<1>1. d.offset \in {0, GENERIC_VAR_SLOT_SIZE} /\ d.offset \in Nat /\ d.length \in Nat
  BY DEF SlotOffset, DescType
<1>2. e.desc \in Seq(DescType) /\ e.payload_len \in Int
  BY SlotAssumption DEF Slotted
<1>3. Len(f.desc) = Len(e.desc) + 1 /\ f.desc[Len(e.desc) + 1] = d
  BY <1>2
<1>4. f.payload_len >= e.payload_len /\ d.offset + d.length <= f.payload_len
  BY <1>1, <1>2 DEF AtLeast
<1>5. ASSUME NEW j \in 1..d.length
      PROVE  f.payload[d.offset + j - 1] = bytes[j]
  <2>1. d.offset + j - 1 \in PayloadIndexes
    BY <1>1, SlotAssumption DEF PayloadIndexes
  <2>2. d.offset <= d.offset + j - 1 /\ d.offset + j - 1 < d.offset + Len(bytes) /\ (d.offset + j - 1) - d.offset + 1 = j
    BY <1>1
  <2> QED
    BY <2>1, <2>2, StoreAt
<1>6. ASSUME NEW k \in 1..Len(e.desc)
      PROVE  /\ f.desc[k] = e.desc[k]
             /\ \A j \in 1..e.desc[k].length :
                    f.payload[e.desc[k].offset + j - 1] = e.payload[e.desc[k].offset + j - 1]
  <2>0. Len(e.desc) \in Nat /\ Len(e.desc) <= 2 /\ Len(e.desc) # 2
    BY <1>2
  <2>1. k = 1 /\ e.desc # <<>>
    BY <2>0, OneOrTwo
  <2>2. d.offset = GENERIC_VAR_SLOT_SIZE
    BY <2>1 DEF SlotOffset
  <2>3. e.desc[k].offset = 0 /\ e.desc[k].length <= GENERIC_VAR_SLOT_SIZE /\ e.desc[k].length \in Nat
    BY <1>2, <2>1, DescAt DEF Slotted
  <2>4. ASSUME NEW j \in 1..e.desc[k].length
        PROVE  f.payload[e.desc[k].offset + j - 1] = e.payload[e.desc[k].offset + j - 1]
    <3>1. e.desc[k].offset + j - 1 \in PayloadIndexes /\ e.desc[k].offset + j - 1 < d.offset
      BY <2>2, <2>3, SlotAssumption DEF PayloadIndexes
    <3> QED
      BY <3>1, <1>1, SlotAssumption, StoreAt DEF PayloadIndexes
  <2> QED
    BY <1>2, <2>4
<1>7. DOMAIN f.payload = DOMAIN e.payload
  BY DEF Store
<1>8. Adds(e, f, d.arg_index)
  BY <1>3, <1>4, <1>6, <1>7 DEF Adds
<1> QED
  BY <1>3, <1>4, <1>5, <1>8

\* append_var_string adds a descriptor that holds the string.
LEMMA StringHeld ==
    ASSUME NEW e, Slotted(e), Len(e.desc) < 2, DOMAIN e.payload = PayloadIndexes,
           NEW index \in Nat, NEW ptr \in Pointers
    PROVE  LET f == AppendVarString(e, index, ptr)
           IN Adds(e, f, index) /\ HoldsString(f, Len(e.desc) + 1, ptr)
<1> DEFINE f == AppendVarString(e, index, ptr)
           offset == SlotOffset(e)
           copied == Copied(ptr, GENERIC_VAR_SLOT_SIZE)
<1>0. offset \in Nat /\ Len(e.desc) \in Nat
  BY SlotAssumption DEF SlotOffset, Slotted
<1>1. ASSUME ptr \in {Null, Bad}
      PROVE  Adds(e, f, index) /\ HoldsString(f, Len(e.desc) + 1, ptr)
  <2> DEFINE flags == IF ptr = Null THEN {"null"} ELSE {"read_error"}
             d == Desc(index, flags, offset, 0)
  <2>1. f = Noted(e, d)
    BY <1>0, <1>1 DEF AppendVarString
  <2>2. flags \in SUBSET {"truncated", "read_error", "null"}
    OBVIOUS
  <2>3. d \in DescType
    BY <1>0, <2>2, DescTyped
  <2>4. d.arg_index = index /\ d.flags = flags /\ d.length = 0
    BY DEF Desc
  <2> HIDE DEF f, d
  <2>5. Adds(e, f, index) /\ f.desc[Len(e.desc) + 1] = d
    BY <2>1, <2>3, <2>4, NotedAdds
  <2> QED
    BY <1>1, <2>4, <2>5 DEF HoldsString
<1>2. ASSUME ptr \notin {Null, Bad}
      PROVE  Adds(e, f, index) /\ HoldsString(f, Len(e.desc) + 1, ptr)
  <2>0. ptr \in Seq(Nat)
    BY <1>2 DEF Pointers
  <2>1. copied \in 1..GENERIC_VAR_SLOT_SIZE /\ copied - 1 <= Len(ptr)
    BY <2>0, CopiedBounds, SlotAssumption DEF Copied, AtMost
  <2> DEFINE d == Desc(index, StringFlags(copied), offset, copied - 1)
             bytes == Append(SubSeq(ptr, 1, copied - 1), 0)
  <2>2. StringFlags(copied) \in SUBSET {"truncated", "read_error", "null"}
    BY DEF StringFlags
  <2>3. d \in DescType
    BY <1>0, <2>1, <2>2, DescTyped
  <2>4. d.arg_index = index /\ d.flags = StringFlags(copied) /\ d.length = copied - 1 /\ d.offset = offset
    BY DEF Desc
  <2>5. /\ f.desc = Append(e.desc, d) /\ f.payload = Store(e.payload, offset, bytes)
        /\ f.payload_len = AtLeast(e.payload_len, offset + copied - 1)
    BY <1>0, <1>2 DEF AppendVarString, StoreStr
  <2>6. Len(bytes) = copied /\ \A j \in 1..(copied - 1) : bytes[j] = ptr[j]
    <3>1. /\ SubSeq(ptr, 1, copied - 1) \in Seq(Nat) /\ Len(SubSeq(ptr, 1, copied - 1)) = copied - 1
          /\ \A j \in 1..(copied - 1) : SubSeq(ptr, 1, copied - 1)[j] = ptr[j]
      BY <2>0, <2>1
    <3> HIDE DEF copied
    <3> QED
      BY <2>1, <3>1
  <2> HIDE DEF f, d, copied, bytes, offset
  <2>7. copied \in 0..GENERIC_VAR_SLOT_SIZE /\ d.length <= copied /\ offset + copied - 1 = d.offset + d.length
    BY <1>0, <2>1, <2>4, SlotAssumption
  <2>8. /\ Adds(e, f, index) /\ f.desc[Len(e.desc) + 1] = d
        /\ d.offset + d.length <= f.payload_len
        /\ \A j \in 1..d.length : f.payload[d.offset + j - 1] = bytes[j]
    <3>1. /\ d.offset = SlotOffset(e) /\ f.payload = Store(e.payload, d.offset, bytes)
          /\ f.payload_len = AtLeast(e.payload_len, d.offset + d.length)
      BY <2>4, <2>5, <2>7 DEF offset
    <3>2. Len(bytes) \in 0..GENERIC_VAR_SLOT_SIZE /\ d.length <= Len(bytes) /\ f.desc = Append(e.desc, d)
      BY <2>5, <2>6, <2>7
    <3>3. Stores(e, f, d, bytes)
      BY <2>3, <3>1, <3>2 DEF Stores
    <3>4. /\ Adds(e, f, d.arg_index) /\ f.desc[Len(e.desc) + 1] = d
          /\ d.offset + d.length <= f.payload_len
          /\ \A j \in 1..d.length : f.payload[d.offset + j - 1] = bytes[j]
      BY <3>3, StoreAdds
    <3> QED
      BY <2>4, <3>4
  <2>9. \A j \in 1..d.length : f.payload[d.offset + j - 1] = ptr[j]
    BY <2>4, <2>6, <2>8
  <2> QED
    BY <1>2, <2>0, <2>4, <2>8, <2>9 DEF HoldsString, copied
<1> QED
  BY <1>1, <1>2

\* append_var_bytes adds a descriptor that holds the buffer.
LEMMA BytesHeld ==
    ASSUME NEW e, Slotted(e), Len(e.desc) < 2, DOMAIN e.payload = PayloadIndexes,
           NEW index \in Nat, NEW size \in Nat, NEW ptr \in Pointers,
           ptr \notin {Null, Bad} => Len(ptr) = size
    PROVE  LET f == AppendVarBytes(e, index, ptr, size)
           IN Adds(e, f, index) /\ HoldsBytes(f, Len(e.desc) + 1, ptr, size)
<1> DEFINE f == AppendVarBytes(e, index, ptr, size)
           offset == SlotOffset(e)
           to_copy == AtMost(size, GENERIC_VAR_SLOT_SIZE)
<1>0. offset \in Nat /\ Len(e.desc) \in Nat
  BY SlotAssumption DEF SlotOffset, Slotted
<1>1. to_copy \in 0..GENERIC_VAR_SLOT_SIZE /\ to_copy <= size /\ (to_copy = 0 <=> size = 0)
  BY SlotAssumption DEF AtMost
<1>2. ASSUME ptr \in {Null, Bad} \/ size = 0
      PROVE  Adds(e, f, index) /\ HoldsBytes(f, Len(e.desc) + 1, ptr, size)
  <2> DEFINE flags == IF ptr = Null THEN {"null"} ELSE IF size = 0 THEN {}
                      ELSE CutBytes(size) \cup {"read_error"}
             d == Desc(index, flags, offset, 0)
  <2>1. f = Noted(e, d)
    BY <1>0, <1>1, <1>2 DEF AppendVarBytes, CutBytes
  <2>2. flags \in SUBSET {"truncated", "read_error", "null"}
    BY DEF CutBytes
  <2>3. d \in DescType
    BY <1>0, <2>2, DescTyped
  <2>4. d.arg_index = index /\ d.flags = flags /\ d.length = 0
    BY DEF Desc
  <2> HIDE DEF f, d
  <2>5. Adds(e, f, index) /\ f.desc[Len(e.desc) + 1] = d
    BY <2>1, <2>3, <2>4, NotedAdds
  <2> QED
    BY <1>2, <2>4, <2>5 DEF HoldsBytes
<1>3. ASSUME ptr \notin {Null, Bad}, size # 0
      PROVE  Adds(e, f, index) /\ HoldsBytes(f, Len(e.desc) + 1, ptr, size)
  <2> DEFINE d == Desc(index, CutBytes(size), offset, to_copy)
             bytes == SubSeq(ptr, 1, to_copy)
  <2>1. ptr \in Seq(Nat) /\ Len(ptr) = size
    BY <1>3 DEF Pointers
  <2>2. CutBytes(size) \in SUBSET {"truncated", "read_error", "null"}
    BY DEF CutBytes
  <2>3. d \in DescType
    BY <1>0, <1>1, <2>2, DescTyped
  <2>4. d.arg_index = index /\ d.flags = CutBytes(size) /\ d.length = to_copy /\ d.offset = offset
    BY DEF Desc
  <2>5. /\ f.desc = Append(e.desc, d) /\ f.payload = Store(e.payload, offset, bytes)
        /\ f.payload_len = AtLeast(e.payload_len, offset + to_copy)
    BY <1>0, <1>1, <1>3 DEF AppendVarBytes, CutBytes
  <2> HIDE DEF to_copy
  <2>6. Len(bytes) = to_copy /\ \A j \in 1..to_copy : bytes[j] = ptr[j]
    BY <1>1, <2>1
  <2> HIDE DEF f, d, bytes, offset
  <2>7. d.length <= to_copy
    BY <1>1, <2>4
  <2>8. /\ Adds(e, f, index) /\ f.desc[Len(e.desc) + 1] = d
        /\ d.offset + d.length <= f.payload_len
        /\ \A j \in 1..d.length : f.payload[d.offset + j - 1] = bytes[j]
    <3>1. /\ d.offset = SlotOffset(e) /\ f.payload = Store(e.payload, d.offset, bytes)
          /\ f.payload_len = AtLeast(e.payload_len, d.offset + d.length)
      BY <2>4, <2>5 DEF offset
    <3>2. Len(bytes) \in 0..GENERIC_VAR_SLOT_SIZE /\ d.length <= Len(bytes) /\ f.desc = Append(e.desc, d)
      BY <1>1, <2>5, <2>6, <2>7
    <3>3. Stores(e, f, d, bytes)
      BY <2>3, <3>1, <3>2 DEF Stores
    <3>4. /\ Adds(e, f, d.arg_index) /\ f.desc[Len(e.desc) + 1] = d
          /\ d.offset + d.length <= f.payload_len
          /\ \A j \in 1..d.length : f.payload[d.offset + j - 1] = bytes[j]
      BY <3>3, StoreAdds
    <3> QED
      BY <2>4, <3>4
  <2>9. \A j \in 1..d.length : f.payload[d.offset + j - 1] = ptr[j]
    BY <2>4, <2>6, <2>8
  <2> QED
    BY <1>3, <2>4, <2>8, <2>9 DEF HoldsBytes, to_copy
<1> QED
  BY <1>2, <1>3

\* What was held is held after another capture.
LEMMA StillHeld ==
    ASSUME NEW e, Slotted(e), NEW f, Slotted(f), NEW index, Adds(e, f, index),
           NEW k \in 1..Len(e.desc), NEW v, NEW size
    PROVE  /\ HoldsString(e, k, v) => HoldsString(f, k, v)
           /\ HoldsBytes(e, k, v, size) => HoldsBytes(f, k, v, size)
<1>1. /\ f.desc[k] = e.desc[k]
      /\ \A j \in 1..e.desc[k].length :
            f.payload[e.desc[k].offset + j - 1] = e.payload[e.desc[k].offset + j - 1]
  BY DEF Adds
<1>2. e.desc[k].offset + e.desc[k].length <= e.payload_len
        => e.desc[k].offset + e.desc[k].length <= f.payload_len
  <2>1. e.desc[k].offset \in Nat /\ e.desc[k].length \in Nat
    BY DescAt DEF Slotted
  <2>2. e.payload_len \in Int /\ f.payload_len \in Int /\ f.payload_len >= e.payload_len
    BY SlotAssumption DEF Slotted, Adds
  <2> QED
    BY <2>1, <2>2
<1>3. HoldsString(e, k, v) => HoldsString(f, k, v)
  BY <1>1, <1>2 DEF HoldsString
<1>4. HoldsBytes(e, k, v, size) => HoldsBytes(f, k, v, size)
  BY <1>1, <1>2 DEF HoldsBytes
<1> QED
  BY <1>3, <1>4

(***************************************************************************)
(* The invariant of a call whose arguments are captured at sys_exit: the   *)
(* descriptors so far are those of the first captures, each with a value   *)
(* its argument had since sys_enter, and the rest is still to be made.     *)
(***************************************************************************)
SeenInv ==
    call.id # "execve" =>
        /\ DOMAIN seen = DOMAIN memory
        /\ \A a \in CapturedArgs(call) :
              /\ a.kind = "string" => memory[a.index] \in seen[a.index]
              /\ a.kind = "bytes" => memory[a.index] = call.mem[a.index]

Holds(k, a) ==
    /\ event.desc[k].arg_index = a.index
    /\ a.kind = "string" => \E v \in seen[a.index] : HoldsString(event, k, v)
    /\ a.kind = "bytes" => HoldsBytes(event, k, memory[a.index], call.size)

HeldInv ==
    LET caps == Captures(call.id, call.ret)
    IN call.id # "execve" =>
          /\ DOMAIN event.payload = PayloadIndexes
          /\ pc \in {"capture", "submitted"} =>
                /\ Slotted(event) /\ Len(event.desc) <= Len(caps)
                /\ todo = SubSeq(caps, Len(event.desc) + 1, Len(caps))
                /\ \A k \in 1..Len(event.desc) : Holds(k, caps[k])
          /\ pc = "submitted" => Len(event.desc) = Len(caps)

LEMMA HeldInit == Init => SeenInv /\ HeldInv
<1> SUFFICES ASSUME Init PROVE SeenInv /\ HeldInv
  OBVIOUS
<1>1. pc \in {"path", "kernel"} /\ event.payload = [j \in 0..(MAX_VAR_PAYLOAD - 1) |-> 0]
  BY DEF Init, Nothing
<1>2. HeldInv
  BY <1>1 DEF HeldInv, PayloadIndexes
<1>3. SeenInv
  BY CallsAssumption DEF Init, SeenInv
<1> QED
  BY <1>2, <1>3

LEMMA SameCapture ==
    ASSUME NEW c \in Calls, NEW a \in CapturedArgs(c), NEW b \in CapturedArgs(c), a.index = b.index
    PROVE  a = b
<1> DEFINE caps == Captures(c.id, c.ret)
<1>1. PICK k \in 1..Len(caps) : a = caps[k]
  BY DEF CapturedArgs
<1>2. PICK l \in 1..Len(caps) : b = caps[l]
  BY DEF CapturedArgs
<1> QED
  BY <1>1, <1>2, CapturesApart

\* Another thread writes: a value more, and no buffer is touched.
LEMMA HeldWrite ==
    ASSUME IInv, SeenInv, HeldInv, NEW i \in DOMAIN memory, NEW value \in Overwrites,
           OtherThreadWrites(i, value)
    PROVE  SeenInv' /\ HeldInv'
<1> DEFINE caps == Captures(call.id, call.ret)
<1>1. /\ call' = call /\ pc' = pc /\ event' = event /\ todo' = todo /\ call.id # "execve"
      /\ memory' = [j \in DOMAIN memory |-> IF j = i THEN value ELSE memory[j]]
      /\ seen' = [seen EXCEPT ![i] = @ \cup {value}]
      /\ Str(i) \in CapturedArgs(call) /\ call \in Calls
  BY DEF OtherThreadWrites, IInv
<1>2. CapturedArgs(call)' = CapturedArgs(call) /\ DOMAIN seen = DOMAIN memory
  BY <1>1 DEF CapturedArgs, SeenInv
<1>3. Str(i).kind = "string" /\ Str(i).index = i
  BY DEF Str
<1>4. ASSUME NEW a \in CapturedArgs(call)
      PROVE  /\ a.index \in DOMAIN memory
             /\ a.kind = "string" => seen[a.index] \subseteq seen'[a.index] /\ memory'[a.index] \in seen'[a.index]
             /\ a.kind = "bytes" => memory'[a.index] = memory[a.index]
  <2>1. a.index \in DOMAIN memory
    BY <1>1 DEF IInv, MemoryInv
  <2>2. a.kind = "bytes" => a.index # i
    BY <1>1, <1>3, SameCapture
  <2>3. a.kind = "string" => memory[a.index] \in seen[a.index]
    BY <1>1 DEF SeenInv
  <2> QED
    BY <1>1, <1>2, <2>1, <2>2, <2>3
<1>5. SeenInv'
  BY <1>1, <1>2, <1>4 DEF SeenInv
<1>6. ASSUME NEW k \in 1..Len(caps), Holds(k, caps[k])
      PROVE  Holds(k, caps[k])'
  <2>1. caps[k] \in CapturedArgs(call) /\ caps' = caps
    BY <1>1 DEF CapturedArgs
  <2> HIDE DEF caps
  <2> QED
    BY <1>1, <1>4, <1>6, <2>1 DEF Holds
<1>7. HeldInv'
  <2>1. caps' = caps /\ DOMAIN event'.payload = PayloadIndexes
    BY <1>1 DEF HeldInv
  <2>2. CASE pc \in {"capture", "submitted"}
    <3>1. /\ Slotted(event) /\ Len(event.desc) <= Len(caps)
          /\ todo = SubSeq(caps, Len(event.desc) + 1, Len(caps))
          /\ \A k \in 1..Len(event.desc) : Holds(k, caps[k])
          /\ pc = "submitted" => Len(event.desc) = Len(caps)
      BY <1>1, <2>2 DEF HeldInv
    <3>2. Len(event.desc) \in Nat /\ Len(caps) \in Nat
      BY <1>1, <3>1, CapturesApart DEF Slotted
    <3>3. \A k \in 1..Len(event.desc) : Holds(k, caps[k])'
      BY <1>6, <3>1, <3>2
    <3> HIDE DEF caps
    <3> QED
      BY <1>1, <2>1, <3>1, <3>3 DEF HeldInv, caps
  <2>3. CASE pc \notin {"capture", "submitted"}
    BY <1>1, <2>1, <2>3 DEF HeldInv
  <2> QED
    BY <2>2, <2>3
<1> QED
  BY <1>5, <1>7

\* sys_exit begins with no descriptor and every capture to make.
LEMMA HeldExit ==
    ASSUME IInv, SeenInv, HeldInv, SysExit
    PROVE  SeenInv' /\ HeldInv'
<1> DEFINE caps == Captures(call.id, call.ret)
<1>1. call' = call /\ memory' = memory /\ seen' = seen /\ call \in Calls /\ Bare(event)
  BY DEF SysExit, IInv, EventInv
<1>2. SeenInv'
  BY <1>1 DEF SeenInv, CapturedArgs
<1>3. CASE call.id = "execve"
  BY <1>1, <1>2, <1>3 DEF HeldInv
<1>4. CASE call.id # "execve"
  <2>1. todo' = caps /\ pc' = "capture" /\ event' = event /\ caps' = caps
    BY <1>1, <1>4 DEF SysExit
  <2>2. caps \in Seq(CaptureType)
    BY <1>1, CapturesApart
  <2>3. Slotted(event) /\ Len(event.desc) = 0 /\ DOMAIN event.payload = PayloadIndexes
    BY <1>1, <1>4, BareSlotted DEF Bare, HeldInv
  <2> HIDE DEF caps
  <2>4. Len(caps) \in Nat /\ caps = SubSeq(caps, Len(event.desc) + 1, Len(caps))
    BY <2>2, <2>3, SubSeqFull
  <2>5. HeldInv'
    BY <2>1, <2>3, <2>4 DEF HeldInv, caps
  <2> QED
    BY <1>2, <2>5
<1> QED
  BY <1>3, <1>4

\* The next capture fills the next descriptor with what its argument leads
\* to now.
LEMMA HeldCapture ==
    ASSUME IInv, SeenInv, HeldInv, Capture
    PROVE  SeenInv' /\ HeldInv'
<1> DEFINE caps == Captures(call.id, call.ret)
           n == Len(event.desc)
           a == Head(todo)
<1>1. /\ call' = call /\ memory' = memory /\ seen' = seen /\ pc' = pc /\ pc = "capture"
      /\ call \in Calls /\ call.id # "execve" /\ todo # <<>> /\ todo' = Tail(todo)
  BY DEF Capture, IInv, EventInv
<1>2. SeenInv'
  BY <1>1 DEF SeenInv, CapturedArgs
<1>3. /\ Slotted(event) /\ n <= Len(caps) /\ todo = SubSeq(caps, n + 1, Len(caps))
      /\ \A k \in 1..n : Holds(k, caps[k])
      /\ DOMAIN event.payload = PayloadIndexes
  BY <1>1 DEF HeldInv
<1>4. caps \in Seq(CaptureType) /\ Len(caps) <= 2 /\ Len(caps) \in Nat /\ n \in Nat
  BY <1>1, <1>3, CapturesApart DEF Slotted
<1>5. n < Len(caps)
  <2>1. CASE n = Len(caps)
    BY <1>1, <1>3, <1>4, <2>1, SubSeqEmpty
  <2> QED
    BY <1>3, <1>4, <2>1
<1>6. a = caps[n + 1] /\ Tail(todo) = SubSeq(caps, n + 1 + 1, Len(caps))
  <2>1. n + 1 \in 1..Len(caps) /\ Len(caps) \in (n + 1)..Len(caps)
    BY <1>4, <1>5
  <2> QED
    BY <1>3, <1>4, <2>1, HeadTailOfSubSeq
<1>7. a \in CapturedArgs(call) /\ a \in CaptureType /\ a.index \in Nat /\ a.kind \in {"string", "bytes"}
  <2>1. n + 1 \in 1..Len(caps)
    BY <1>4, <1>5
  <2>2. a \in CapturedArgs(call) /\ a \in CaptureType
    BY <1>4, <1>6, <2>1 DEF CapturedArgs
  <2> QED
    BY <2>2 DEF CaptureType
<1>8. /\ memory[a.index] \in Pointers /\ call.size \in Nat
      /\ a.kind = "string" => memory[a.index] \in seen[a.index]
      /\ (a.kind = "bytes" /\ memory[a.index] \notin {Null, Bad}) => Len(memory[a.index]) = call.size
  BY <1>1, <1>7, CallsAssumption DEF IInv, MemoryInv, SeenInv
<1>9. /\ Adds(event, event', a.index) /\ Slotted(event')
      /\ \A k, b : (k = n + 1 /\ b = a) => Holds(k, b)'
  <2>1. CASE a.kind = "string"
    <3>1. event' = AppendVarString(event, a.index, memory[a.index])
      BY <2>1 DEF Capture
    <3> HIDE DEF a
    <3>2. Adds(event, event', a.index) /\ HoldsString(event', n + 1, memory[a.index])
      BY <1>3, <1>4, <1>5, <1>7, <1>8, <3>1, StringHeld
    <3>3. Slotted(event')
      BY <1>3, <1>7, <1>8, <3>1, StringSlotted
    <3>4. event'.desc[n + 1].arg_index = a.index
      BY <3>2 DEF Adds
    <3>5. \A k, b : (k = n + 1 /\ b = a) => Holds(k, b)'
      BY <1>1, <1>2, <1>8, <2>1, <3>2, <3>4 DEF Holds, SeenInv
    <3> QED
      BY <3>2, <3>3, <3>5
  <2>2. CASE a.kind = "bytes"
    <3>1. event' = AppendVarBytes(event, a.index, memory[a.index], call.size)
      BY <2>2 DEF Capture
    <3> HIDE DEF a
    <3>2. Adds(event, event', a.index) /\ HoldsBytes(event', n + 1, memory[a.index], call.size)
      BY <1>3, <1>4, <1>5, <1>7, <1>8, <2>2, <3>1, BytesHeld
    <3>3. Slotted(event')
      BY <1>3, <1>7, <1>8, <3>1, BytesSlotted
    <3>4. event'.desc[n + 1].arg_index = a.index
      BY <3>2 DEF Adds
    <3>5. \A k, b : (k = n + 1 /\ b = a) => Holds(k, b)'
      BY <1>1, <1>8, <2>2, <3>2, <3>4 DEF Holds
    <3> QED
      BY <3>2, <3>3, <3>5
  <2> QED
    BY <1>7, <2>1, <2>2
<1>10. ASSUME NEW k \in 1..n
       PROVE  Holds(k, caps[k])'
  <2>1. event'.desc[k] = event.desc[k] /\ caps' = caps
    BY <1>1, <1>9 DEF Adds
  <2>2. Holds(k, caps[k])
    BY <1>3
  <2> HIDE DEF caps, n, a
  <2>3. \A v, size : /\ HoldsString(event, k, v) => HoldsString(event', k, v)
                     /\ HoldsBytes(event, k, v, size) => HoldsBytes(event', k, v, size)
    BY <1>3, <1>9, StillHeld DEF n
  <2> QED
    BY <1>1, <2>1, <2>2, <2>3 DEF Holds
<1>11. HeldInv'
  <2>1. caps' = caps /\ Len(event'.desc) = n + 1 /\ DOMAIN event'.payload = PayloadIndexes
    BY <1>1, <1>3, <1>9 DEF Adds
  <2>2. \A k \in 1..(n + 1) : Holds(k, caps[k])'
    <3> SUFFICES ASSUME NEW k \in 1..(n + 1) PROVE Holds(k, caps[k])'
      OBVIOUS
    <3>1. CASE k = n + 1
      BY <1>6, <1>9, <3>1, <2>1 DEF Holds
    <3>2. CASE k # n + 1
      <4>1. k \in 1..n
        BY <1>4, <3>2
      <4> QED
        BY <1>10, <4>1
    <3> QED
      BY <3>1, <3>2
  <2> HIDE DEF caps, n, a
  <2>3. n + 1 <= Len(caps)
    BY <1>4, <1>5
  <2>4. todo' = SubSeq(caps, (n + 1) + 1, Len(caps))
    BY <1>1, <1>6
  <2> QED
    BY <1>1, <1>9, <2>1, <2>2, <2>3, <2>4 DEF HeldInv, caps
<1> QED
  BY <1>2, <1>11

LEMMA RestNonempty ==
    ASSUME NEW S, NEW s \in Seq(S), NEW m \in Nat, m < Len(s)
    PROVE  SubSeq(s, m + 1, Len(s)) # <<>>
<1>1. PICK first : first = m + 1
  OBVIOUS
<1>2. PICK last : last = Len(s)
  OBVIOUS
<1>3. first \in Int /\ last \in Int /\ first <= last /\ \A i \in first..last : s[i] \in S
  BY <1>1, <1>2
<1> DEFINE t == SubSeq(s, first, last)
<1>4. Len(t) = last - first + 1
  BY <1>3, SubSeqProperties
<1> HIDE DEF t
<1>5. t # <<>>
  BY <1>3, <1>4
<1> QED
  BY <1>1, <1>2, <1>5 DEF t

LEMMA HeldSubmit ==
    ASSUME IInv, SeenInv, HeldInv, Submit
    PROVE  SeenInv' /\ HeldInv'
<1> DEFINE caps == Captures(call.id, call.ret)
           n == Len(event.desc)
<1>1. /\ call' = call /\ memory' = memory /\ seen' = seen /\ event' = event /\ todo' = todo
      /\ pc' = "submitted" /\ pc = "capture" /\ call \in Calls /\ call.id # "execve" /\ todo = <<>>
  BY DEF Submit, IInv, EventInv
<1>2. SeenInv'
  BY <1>1 DEF SeenInv, CapturedArgs
<1>3. /\ Slotted(event) /\ n <= Len(caps) /\ todo = SubSeq(caps, n + 1, Len(caps))
      /\ \A k \in 1..n : Holds(k, caps[k])
      /\ DOMAIN event.payload = PayloadIndexes
  BY <1>1 DEF HeldInv
<1>4. caps \in Seq(CaptureType) /\ Len(caps) \in Nat /\ n \in Nat
  BY <1>1, <1>3, CapturesApart DEF Slotted
<1> HIDE DEF caps
<1>5. n = Len(caps)
  <2>1. CASE n < Len(caps)
    <3> HIDE DEF n
    <3> QED
      BY <1>1, <1>3, <1>4, <2>1, RestNonempty
  <2> QED
    BY <1>3, <1>4, <2>1
<1>6. caps' = caps /\ \A k \in 1..n : Holds(k, caps[k])'
  BY <1>1, <1>3 DEF Holds, caps
<1>7. HeldInv'
  BY <1>1, <1>3, <1>5, <1>6 DEF HeldInv, caps
<1> QED
  BY <1>2, <1>7

LEMMA HeldStep == IInv /\ SeenInv /\ HeldInv /\ [Next]_vars => SeenInv' /\ HeldInv'
<1> SUFFICES ASSUME IInv, SeenInv, HeldInv, [Next]_vars PROVE SeenInv' /\ HeldInv'
  OBVIOUS
<1>1. CASE UNCHANGED vars
  BY <1>1 DEF vars, SeenInv, HeldInv, Holds, CapturedArgs
<1>2. CASE AppendExecveVarString \/ ArgvStart \/ ArgvCopies \/ ArgvBreaks \/ ArgvExhausted
              \/ SnapshotEvicted \/ SysExitWithoutSnapshot
  <2>1. call' = call
    BY <1>2 DEF AppendExecveVarString, ArgvStart, ArgvCopies, ArgvBreaks, ArgvExhausted,
                SnapshotEvicted, SysExitWithoutSnapshot
  <2>2. call.id = "execve"
    BY <1>2 DEF AppendExecveVarString, ArgvStart, ArgvCopies, ArgvBreaks, ArgvExhausted,
                SnapshotEvicted, SysExitWithoutSnapshot, IInv, SnapshotInv
  <2> QED
    BY <2>1, <2>2 DEF SeenInv, HeldInv
<1>3. CASE Served
  <2>1. /\ call' = call /\ event' = event /\ seen' = seen /\ pc' = "exit"
        /\ call.id # "execve" => memory' = memory
    BY <1>3 DEF Served
  <2> QED
    BY <2>1 DEF SeenInv, HeldInv, CapturedArgs
<1> QED
  BY <1>1, <1>2, <1>3, HeldWrite, HeldExit, HeldCapture, HeldSubmit DEF Next

(***************************************************************************)
(* Reading the event: an argument's descriptor is found, and its bytes are *)
(* the beginning of the value it holds.                                    *)
(***************************************************************************)
LEMMA FoundAt ==
    ASSUME NEW e, Len(e.desc) \in Nat, NEW k \in 1..Len(e.desc), NEW i, e.desc[k].arg_index = i,
           \A l \in 1..Len(e.desc) : e.desc[l].arg_index = i => l = k
    PROVE  FindVarArgDesc(e, i) = {k} /\ Found(e, i) = e.desc[k]
<1>1. FindVarArgDesc(e, i) = {k}
  BY DEF FindVarArgDesc
<1>2. k <= k
  OBVIOUS
<1>3. (CHOOSE l \in {k} : \A m \in {k} : l <= m) = k
  BY <1>2
<1> QED
  BY <1>1, <1>3 DEF Found

LEMMA ByteSequence ==
    ASSUME NEW n \in Nat, NEW f \in [1..n -> Nat]
    PROVE  f \in Seq(Nat) /\ Len(f) = n
  OBVIOUS

LEMMA SlicePrefix ==
    ASSUME NEW e, NEW d, NEW v \in Seq(Nat), d.length \in Nat, d.length <= Len(v),
           \A j \in 1..d.length : e.payload[d.offset + j - 1] = v[j]
    PROVE  /\ IsPrefix(VarPayloadSlice(e, d), v)
           /\ d.length = Len(v) => VarPayloadSlice(e, d) = v
<1> DEFINE s == VarPayloadSlice(e, d)
<1>0. PICK n \in Nat : n = d.length
  OBVIOUS
<1>1. s = [j \in 1..n |-> v[j]]
  BY <1>0 DEF VarPayloadSlice
<1> HIDE DEF s
<1>2. s \in Seq(Nat) /\ Len(s) = d.length /\ \A j \in 1..d.length : s[j] = v[j]
  <2>1. \A j \in 1..n : v[j] \in Nat
    BY <1>0
  <2>2. s \in [1..n -> Nat]
    BY <1>1, <2>1
  <2>3. s \in Seq(Nat) /\ Len(s) = n
    BY <2>2, ByteSequence
  <2> QED
    BY <1>0, <1>1, <2>3
<1>3. d.length = Len(v) => s = v
  BY <1>2, SeqEqual
<1>4. SubSeq(s, 1, Len(s)) = SubSeq(v, 1, Len(s))
  <2> DEFINE t == SubSeq(v, 1, d.length)
  <2>1. t \in Seq(Nat) /\ Len(t) = d.length /\ \A j \in 1..d.length : t[j] = v[j]
    OBVIOUS
  <2> HIDE DEF t
  <2>2. Len(s) = Len(t) /\ \A j \in 1..Len(s) : s[j] = t[j]
    BY <1>2, <2>1
  <2>3. s = t
    BY <1>2, <2>1, <2>2, SeqEqual
  <2>4. SubSeq(s, 1, Len(s)) = s
    BY <1>2, SubSeqFull
  <2> QED
    BY <1>2, <2>3, <2>4 DEF t
<1>5. IsPrefix(s, v)
  BY <1>2, <1>4 DEF IsPrefix
<1> QED
  BY <1>3, <1>5 DEF s

\* A descriptor that holds a string: flagged null or unreadable, or readable
\* with all of the string unless flagged truncated.
LEMMA StringRead ==
    ASSUME NEW e, Slotted(e), NEW k \in 1..Len(e.desc), NEW v, HoldsString(e, k, v)
    PROVE  LET d == e.desc[k]
               s == VarPayloadSlice(e, d)
           IN \/ v = Null /\ d.flags = {"null"}
              \/ v = Bad /\ v # Null /\ d.flags = {"read_error"}
              \/ /\ v \notin {Null, Bad} /\ Sliceable(e, d)
                 /\ d.flags \in {{}, {"truncated"}} /\ IsPrefix(s, v)
                 /\ d.flags = {} => s = v
<1> DEFINE d == e.desc[k]
           copied == Copied(v, GENERIC_VAR_SLOT_SIZE)
<1>1. CASE v \in {Null, Bad}
  BY <1>1 DEF HoldsString
<1>2. CASE v \notin {Null, Bad}
  <2>1. /\ v \in Seq(Nat) /\ d.length = copied - 1 /\ d.flags = StringFlags(copied)
        /\ d.offset + d.length <= e.payload_len
        /\ \A j \in 1..d.length : e.payload[d.offset + j - 1] = v[j]
    BY <1>2 DEF HoldsString
  <2>2. Len(v) \in Nat /\ copied = IF Len(v) + 1 < GENERIC_VAR_SLOT_SIZE THEN Len(v) + 1 ELSE GENERIC_VAR_SLOT_SIZE
    BY <2>1 DEF Copied, AtMost
  <2>3. d.offset \in Nat /\ d.length \in Nat /\ e.payload_len \in 0..MAX_VAR_PAYLOAD
    BY DescAt DEF Slotted
  <2> HIDE DEF d, copied
  <2>4. d.length <= Len(v) /\ (d.flags = {} => d.length = Len(v)) /\ d.flags \in {{}, {"truncated"}}
    BY <2>1, <2>2, SlotAssumption DEF StringFlags
  <2>5. Sliceable(e, d)
    BY <2>1, <2>3, SlotAssumption DEF Sliceable, AtMost
  <2>6. /\ IsPrefix(VarPayloadSlice(e, d), v)
        /\ d.length = Len(v) => VarPayloadSlice(e, d) = v
    BY <2>1, <2>3, <2>4, SlicePrefix
  <2> QED
    BY <1>2, <2>4, <2>5, <2>6 DEF d
<1> QED
  BY <1>1, <1>2

\* A descriptor that holds a buffer: likewise, and a buffer of no bytes is
\* read as one.
LEMMA BytesRead ==
    ASSUME NEW e, Slotted(e), NEW k \in 1..Len(e.desc), NEW v \in Pointers, NEW size \in Nat,
           v \notin {Null, Bad} => Len(v) = size, size = 0 => k = 1, HoldsBytes(e, k, v, size)
    PROVE  LET d == e.desc[k]
               s == VarPayloadSlice(e, d)
           IN \/ v = Null /\ d.flags = {"null"}
              \/ v # Null /\ size = 0 /\ d.flags = {} /\ Sliceable(e, d) /\ s = <<>>
              \/ v # Null /\ size # 0 /\ v = Bad /\ "read_error" \in d.flags /\ "null" \notin d.flags
              \/ /\ v \notin {Null, Bad} /\ size # 0 /\ Sliceable(e, d)
                 /\ d.flags = CutBytes(size) /\ IsPrefix(s, v)
                 /\ size <= GENERIC_VAR_SLOT_SIZE => s = v /\ d.length = size
<1> DEFINE d == e.desc[k]
<1>0. d.offset \in Nat /\ d.length \in Nat /\ e.payload_len \in 0..MAX_VAR_PAYLOAD
  BY DescAt DEF Slotted
<1>1. CASE v = Null
  BY <1>1 DEF HoldsBytes
<1>2. CASE v # Null /\ size = 0
  <2>1. d.flags = {} /\ d.length = 0 /\ d.offset = 0
    BY <1>2 DEF HoldsBytes, Slotted
  <2> HIDE DEF d
  <2>2. Sliceable(e, d)
    BY <1>0, <2>1, SlotAssumption DEF Sliceable, AtMost
  <2>3. VarPayloadSlice(e, d) = <<>>
    BY <2>1 DEF VarPayloadSlice
  <2> QED
    BY <1>2, <2>1, <2>2, <2>3 DEF d
<1>3. CASE v # Null /\ size # 0 /\ v = Bad
  BY <1>3 DEF HoldsBytes, CutBytes
<1>4. CASE v \notin {Null, Bad} /\ size # 0
  <2>1. /\ v \in Seq(Nat) /\ Len(v) = size /\ d.length = AtMost(size, GENERIC_VAR_SLOT_SIZE)
        /\ d.flags = CutBytes(size) /\ d.offset + d.length <= e.payload_len
        /\ \A j \in 1..d.length : e.payload[d.offset + j - 1] = v[j]
    BY <1>4 DEF HoldsBytes, Pointers
  <2> HIDE DEF d
  <2>2. d.length <= Len(v) /\ (size <= GENERIC_VAR_SLOT_SIZE => d.length = Len(v))
    BY <2>1, SlotAssumption DEF AtMost
  <2>3. Sliceable(e, d)
    BY <1>0, <2>1, SlotAssumption DEF Sliceable, AtMost
  <2>4. /\ IsPrefix(VarPayloadSlice(e, d), v)
        /\ d.length = Len(v) => VarPayloadSlice(e, d) = v
    BY <1>0, <2>1, <2>2, SlicePrefix
  <2> QED
    BY <1>4, <2>1, <2>2, <2>3, <2>4 DEF d
<1> QED
  BY <1>1, <1>2, <1>3, <1>4

(***************************************************************************)
(* The event of a call, once submitted.                                    *)
(***************************************************************************)
\* At every point of its way to sys_exit, the event holds the captures made
\* so far, each with a value its argument had since sys_enter.
THEOREM CapturesHeld == Spec => [](IInv /\ SeenInv /\ HeldInv)
<1>1. Init => IInv /\ SeenInv /\ HeldInv
  BY IInvInit, HeldInit
<1>2. IInv /\ SeenInv /\ HeldInv /\ [Next]_vars => (IInv /\ SeenInv /\ HeldInv)'
  BY IInvStep, HeldStep
<1> QED
  BY <1>1, <1>2, PTL DEF Spec

LEMMA ExecveCapturesNone ==
    ASSUME NEW c, c.id = "execve"
    PROVE  CapturedArgs(c) = {}
<1>1. Captures(c.id, c.ret) = <<>>
  BY DEF Captures
<1> QED
  BY <1>1 DEF CapturedArgs

LEMMA CaptureFound ==
    ASSUME IInv, SeenInv, HeldInv, pc = "submitted", NEW a \in CapturedArgs(call)
    PROVE  /\ call \in Calls /\ call.id # "execve" /\ Slotted(event)
           /\ \E k \in 1..Len(event.desc) :
                /\ k \in 1..Len(Captures(call.id, call.ret)) /\ a = Captures(call.id, call.ret)[k]
                /\ FindVarArgDesc(event, a.index) = {k} /\ Found(event, a.index) = event.desc[k]
                /\ Holds(k, a)
<1> DEFINE caps == Captures(call.id, call.ret)
<1>1. call \in Calls /\ call.id # "execve"
  BY ExecveCapturesNone DEF IInv
<1>2. /\ Slotted(event) /\ Len(event.desc) = Len(caps) /\ Len(event.desc) \in Nat
      /\ \A k \in 1..Len(event.desc) : Holds(k, caps[k])
  <2>1. Slotted(event) /\ Len(event.desc) = Len(caps) /\ \A k \in 1..Len(event.desc) : Holds(k, caps[k])
    BY <1>1 DEF HeldInv
  <2>2. Len(event.desc) \in Nat
    BY <2>1 DEF Slotted
  <2> QED
    BY <2>1, <2>2
<1>3. PICK k \in 1..Len(caps) : a = caps[k]
  BY DEF CapturedArgs
<1>4. k \in 1..Len(event.desc) /\ Holds(k, a) /\ event.desc[k].arg_index = a.index
  BY <1>2, <1>3 DEF Holds
<1>5. \A l \in 1..Len(event.desc) : event.desc[l].arg_index = a.index => l = k
  <2>1. \A l \in 1..Len(caps) : event.desc[l].arg_index = caps[l].index
    BY <1>2 DEF Holds
  <2>2. \A l \in 1..Len(caps) : caps[l].index = caps[k].index => l = k
    BY <1>1, CapturesApart
  <2> QED
    BY <1>2, <1>3, <2>1, <2>2
<1>6. FindVarArgDesc(event, a.index) = {k} /\ Found(event, a.index) = event.desc[k]
  BY <1>2, <1>4, <1>5, FoundAt
<1> QED
  BY <1>1, <1>2, <1>3, <1>4, <1>6

\* The path filter is given a path whole or not at all, and one its argument
\* had during the call: eventTracePathAt takes a descriptor without flags
\* only, append_var_string flags every string it has cut, and the other
\* capture's bytes are in the other slot.
THEOREM WholePaths == Spec => []PathsWhole
<1>1. IInv /\ SeenInv /\ HeldInv => PathsWhole
  <2> SUFFICES ASSUME IInv, SeenInv, HeldInv, pc = "submitted", NEW i \in PathIndexes,
                      NEW path \in EventTracePathAt(event, i)
               PROVE  path \in seen[i]
    BY DEF PathsWhole
  <2>1. PICK a \in CapturedArgs(call) : a.kind = "string" /\ a.index = i
    BY DEF PathIndexes
  <2>2. PICK k \in 1..Len(event.desc) : /\ FindVarArgDesc(event, i) = {k}
                                        /\ Found(event, i) = event.desc[k] /\ Holds(k, a)
    BY <2>1, CaptureFound
  <2>3. PICK v \in seen[i] : HoldsString(event, k, v)
    BY <2>1, <2>2 DEF Holds
  <2>4. event.desc[k].flags = {} /\ path = VarPayloadSlice(event, event.desc[k])
    BY <2>2 DEF EventTracePathAt
  <2>5. Slotted(event)
    BY <2>1, CaptureFound
  <2>6. path = v
    BY <2>3, <2>4, <2>5, StringRead
  <2> QED
    BY <2>6
<1> QED
  BY <1>1, CapturesHeld, PTL

\* The types of captured arguments that are not decoded as a stat structure.
LEMMA CaptureTypes ==
    ASSUME NEW c \in Calls, NEW a \in CapturedArgs(c), a.index \notin StatBuffer(c)
    PROVE  EventArgTypes(c)[a.index] \in {VAR_ARG_STRING, VAR_ARG_BYTES}
<1>1. PICK k \in 1..Len(Captures(c.id, c.ret)) : a = Captures(c.id, c.ret)[k]
  BY DEF CapturedArgs
<1>2. CASE a.kind = "string"
  <2>1. a = Str(a.index) /\ a.index \in 0..5 /\ c.id \notin {"read", "write"}
    BY <1>1, <1>2, CaptureKinds
  <2>2. Bytes(a.index) \notin CapturedArgs(c)
    BY <1>2, SameCapture DEF Bytes
  <2> QED
    BY <2>1, <2>2 DEF EventArgTypes
<1>3. CASE a.kind # "string"
  <2>1. c.id \in {"read", "write"} /\ a.index = 1
    BY <1>1, <1>3, CaptureKinds
  <2> QED
    BY <2>1, BufferType DEF EventArgTypes
<1> QED
  BY <1>2, <1>3

LEMMA ShownAsText ==
    ASSUME IInv, SeenInv, HeldInv, pc = "submitted", NEW a \in CapturedArgs(call),
           a.index \notin StatBuffer(call)
    PROVE  FormatArg(event, call, a.index) = FormatVarString(event, Found(event, a.index))
<1>1. call \in Calls /\ FindVarArgDesc(event, a.index) # {}
  BY CaptureFound
<1>2. EventArgTypes(call)[a.index] \in {VAR_ARG_STRING, VAR_ARG_BYTES}
  BY <1>1, CaptureTypes
<1> QED
  BY <1>1, <1>2 DEF FormatArg, FormatVarArg, VAR_ARG_STRING, VAR_ARG_BYTES, VAR_ARG_ARGV

\* The line shows each captured argument as text with a value it had during
\* the call, complete unless marked: formatArg finds the descriptor that
\* append_var_string or append_var_bytes left for it, with its type.
THEOREM ShownArguments == Spec => []ArgumentsShown
<1>1. IInv /\ SeenInv /\ HeldInv => ArgumentsShown
  <2> SUFFICES ASSUME IInv, SeenInv, HeldInv, pc = "submitted", NEW a \in CapturedArgs(call)
               PROVE  \E v \in Values(a) : ShowsBytes(FormatArg(event, call, a.index), v)
    BY DEF ArgumentsShown
  <2> DEFINE shown == FormatArg(event, call, a.index)
             m == memory[a.index]
  <2>1. call \in Calls /\ call.id # "execve" /\ Slotted(event)
    BY CaptureFound
  <2>2. PICK k \in 1..Len(event.desc) :
            /\ k \in 1..Len(Captures(call.id, call.ret)) /\ a = Captures(call.id, call.ret)[k]
            /\ FindVarArgDesc(event, a.index) = {k} /\ Found(event, a.index) = event.desc[k]
            /\ Holds(k, a)
    BY CaptureFound
  <2> DEFINE d == event.desc[k]
             s == VarPayloadSlice(event, d)
  <2>3. CASE a.kind = "string"
    <3>1. a.index \notin StatBuffer(call)
      BY <2>1, <2>2, <2>3, CaptureKinds
    <3>2. shown = FormatVarString(event, d)
      BY <2>2, <3>1, ShownAsText
    <3>3. PICK v \in seen[a.index] : HoldsString(event, k, v)
      BY <2>2, <2>3 DEF Holds
    <3>4. \/ v = Null /\ d.flags = {"null"}
          \/ v = Bad /\ v # Null /\ d.flags = {"read_error"}
          \/ /\ v \notin {Null, Bad} /\ Sliceable(event, d)
             /\ d.flags \in {{}, {"truncated"}} /\ IsPrefix(s, v)
             /\ d.flags = {} => s = v
      BY <2>1, <3>3, StringRead
    <3> HIDE DEF shown, d, s
    <3>5. ShowsBytes(shown, v)
      BY <3>2, <3>4 DEF FormatVarString, ShowsBytes, Shown, ShownNull, ShownError, s
    <3>6. v \in Values(a)
      BY <2>3 DEF Values
    <3> QED
      BY <3>5, <3>6 DEF shown
  <2>4. CASE a.kind = "bytes"
    <3>1. \/ a.index \in StatBuffer(call) /\ call.ret >= 0
          \/ StatBuffer(call) = {} /\ call.id \in {"read", "write"} /\ k = 1
      BY <2>1, <2>2, <2>4, CaptureKinds
    <3>2. call.size \in Nat /\ (a.index \in StatBuffer(call) => call.size \in 1..GENERIC_VAR_SLOT_SIZE)
      BY <2>1, CallsAssumption, StatAssumption
    <3>3. m \in Pointers /\ (m \notin {Null, Bad} => Len(m) = call.size)
      BY <2>1, <2>4, CallsAssumption DEF IInv, MemoryInv, SeenInv
    <3>4. HoldsBytes(event, k, m, call.size) /\ (call.size = 0 => k = 1)
      BY <2>2, <2>4, <3>1, <3>2 DEF Holds
    <3>5. \/ m = Null /\ d.flags = {"null"}
          \/ m # Null /\ call.size = 0 /\ d.flags = {} /\ Sliceable(event, d) /\ s = <<>>
          \/ m # Null /\ call.size # 0 /\ m = Bad /\ "read_error" \in d.flags /\ "null" \notin d.flags
          \/ /\ m \notin {Null, Bad} /\ call.size # 0 /\ Sliceable(event, d)
             /\ d.flags = CutBytes(call.size) /\ IsPrefix(s, m)
             /\ call.size <= GENERIC_VAR_SLOT_SIZE => s = m /\ d.length = call.size
      BY <2>1, <3>2, <3>3, <3>4, BytesRead
    <3>6. CASE a.index \in StatBuffer(call)
      <4>1. shown = FormatStatArg(event, call, d)
        BY <2>2, <3>1, <3>6 DEF FormatArg
      <4>2. CutBytes(call.size) = {} /\ call.size # 0 /\ call.size <= GENERIC_VAR_SLOT_SIZE
        BY <3>2, <3>6, SlotAssumption DEF CutBytes
      <4> DEFINE v == IF m = Null THEN Bad ELSE m
      <4>3. v \in Values(a)
        BY <2>4, <3>6, <4>2 DEF Values
      <4> HIDE DEF shown, d, s, m
      <4>4. ShowsBytes(shown, v)
        BY <3>2, <3>5, <4>1, <4>2, PointersAssumption
           DEF FormatStatArg, ShowsBytes, Shown, ShownNull, ShownError, s
      <4> QED
        BY <4>3, <4>4 DEF shown
    <3>7. CASE a.index \notin StatBuffer(call)
      <4>1. shown = FormatVarString(event, d)
        BY <2>2, <3>7, ShownAsText
      <4> DEFINE v == IF m = Null THEN Null ELSE IF call.size = 0 THEN <<>> ELSE m
      <4>2. v \in Values(a)
        BY <2>4, <3>7 DEF Values
      <4>3. call.size > GENERIC_VAR_SLOT_SIZE \/ call.size <= GENERIC_VAR_SLOT_SIZE
        BY <3>2, SlotAssumption
      <4> HIDE DEF shown, d, s, m
      <4>4. ShowsBytes(shown, v)
        BY <3>5, <4>1, <4>3, PointersAssumption
           DEF FormatVarString, ShowsBytes, Shown, ShownNull, ShownError, CutBytes, s
      <4> QED
        BY <4>2, <4>4 DEF shown
    <3> QED
      BY <3>6, <3>7
  <2> QED
    BY <2>1, <2>2, <2>3, <2>4, CaptureKinds
<1> QED
  BY <1>1, CapturesHeld, PTL
=============================================================================
