----------------------------- MODULE VarCapture -----------------------------
(***************************************************************************)
(* How the argument of one call travels from user memory to a line of      *)
(* output: the append_var_* helpers of internal/bpf/tracer.c copy it into  *)
(* the fixed payload of an event, and format_var.go and event_path.go find *)
(* it there again.  execve's arguments are captured at sys_enter into a    *)
(* snapshot, because a successful execve replaces the memory they are in;  *)
(* all others are captured at sys_exit, when another thread may have       *)
(* written to a path since the call was made (as a whole: a copy that      *)
(* meets a write half-way is left out).                                    *)
(*                                                                         *)
(* A byte is a number and NUL is 0.  What a pointer leads to is Null, Bad  *)
(* (a fault), or a sequence of bytes; an argv is Null or the sequence of   *)
(* its cells up to the terminating null, where BadCell stands for a cell   *)
(* that cannot be read and the others lead to strings.                     *)
(***************************************************************************)
EXTENDS SyscallSchema, SequencesExt

CONSTANTS
    Null, Bad, BadCell,
    Calls,                      \* [id, ret, size, mem]: the calls to capture
    Overwrites,                 \* what other threads write over a string
    MAX_VAR_PAYLOAD, GENERIC_VAR_SLOT_SIZE,
    MAX_EXECVE_ARGV, MAX_EXECVE_ARG_STR, MAX_EXECVE_STATE_PAYLOAD

\* As types.h sizes them.
ASSUME SlotAssumption ==
    /\ GENERIC_VAR_SLOT_SIZE \in Nat \ {0}
    /\ MAX_VAR_PAYLOAD = 2 * GENERIC_VAR_SLOT_SIZE
ASSUME ExecveAssumption ==
    /\ MAX_EXECVE_ARGV \in Nat \ {0}
    /\ MAX_EXECVE_ARG_STR \in Nat \ {0}
    /\ MAX_EXECVE_STATE_PAYLOAD \in MAX_EXECVE_ARG_STR..MAX_VAR_PAYLOAD

VARIABLES
    call,       \* the call, with its memory as it was at sys_enter
    pc,         \* where it is on its way
    memory,     \* what its arguments lead to now
    snapshot,   \* execve_snapshots[tid]
    loop,       \* locals of append_execve_var_argv
    event,      \* the variable part of struct event
    todo,       \* captures sys_exit has still to make
    seen        \* history: what each argument led to since sys_enter

vars == <<call, pc, memory, snapshot, loop, event, todo, seen>>

\* struct var_arg_desc, and the fields of struct event and of struct
\* execve_snapshot that belong to it; var_count is Len(desc).
Desc(index, flags, offset, length) ==
    [arg_index |-> index, flags |-> flags, offset |-> offset, length |-> length]
Nothing(size) == [desc |-> <<>>, payload |-> [j \in 0..(size - 1) |-> 0], payload_len |-> 0]

AtMost(m, n) == IF m < n THEN m ELSE n
AtLeast(m, n) == IF m > n THEN m ELSE n

\* bpf_probe_read_user_str: at most size bytes, the last one NUL.
Copied(str, size) == AtMost(Len(str) + 1, size)
Store(payload, at, bytes) ==
    [j \in DOMAIN payload |->
        IF at <= j /\ j < at + Len(bytes) THEN bytes[j - at + 1] ELSE payload[j]]
StoreStr(payload, at, str, size) ==
    Store(payload, at, Append(SubSeq(str, 1, Copied(str, size) - 1), 0))

\* A capture that leaves only its descriptor.
Noted(a, d) ==
    [desc |-> Append(a.desc, d), payload |-> a.payload, payload_len |-> a.payload_len]

-----------------------------------------------------------------------------
(***************************************************************************)
(* append_var_string and append_var_bytes: two slots, one for each half of *)
(* the payload.                                                            *)
(***************************************************************************)
SlotOffset(e) == IF e.desc = <<>> THEN 0 ELSE GENERIC_VAR_SLOT_SIZE

\* A string that fills its slot and is taken for complete.
StringFlagsNone(copied) == {}
StringFlags(copied) == IF copied = GENERIC_VAR_SLOT_SIZE THEN {"truncated"} ELSE {}

AppendVarString(e, index, ptr) ==
    LET offset == SlotOffset(e)
        copied == Copied(ptr, GENERIC_VAR_SLOT_SIZE)
    IN IF Len(e.desc) >= 2 THEN e
       ELSE IF ptr = Null THEN Noted(e, Desc(index, {"null"}, offset, 0))
       ELSE IF ptr = Bad THEN Noted(e, Desc(index, {"read_error"}, offset, 0))
       ELSE [desc |-> Append(e.desc, Desc(index, StringFlags(copied), offset, copied - 1)),
             payload |-> StoreStr(e.payload, offset, ptr, GENERIC_VAR_SLOT_SIZE),
             payload_len |-> AtLeast(e.payload_len, offset + copied - 1)]

AppendVarBytes(e, index, ptr, size) ==
    LET offset == SlotOffset(e)
        to_copy == AtMost(size, GENERIC_VAR_SLOT_SIZE)
        cut == IF size > GENERIC_VAR_SLOT_SIZE THEN {"truncated"} ELSE {}
    IN IF Len(e.desc) >= 2 THEN e
       ELSE IF ptr = Null THEN Noted(e, Desc(index, {"null"}, offset, 0))
       ELSE IF to_copy = 0 THEN Noted(e, Desc(index, {}, offset, 0))
       ELSE IF ptr = Bad THEN Noted(e, Desc(index, cut \cup {"read_error"}, offset, 0))
       ELSE [desc |-> Append(e.desc, Desc(index, cut, offset, to_copy)),
             payload |-> Store(e.payload, offset, SubSeq(ptr, 1, to_copy)),
             payload_len |-> AtLeast(e.payload_len, offset + to_copy)]

\* What sys_exit captures of a call, in its order.
Str(index) == [kind |-> "string", index |-> index]
Bytes(index) == [kind |-> "bytes", index |-> index]
Captures(id, ret) ==
    LET If(cond, capture) == IF cond THEN <<capture>> ELSE <<>>
    IN CASE id \in {"open", "access", "chdir", "unlink"} -> <<Str(0)>>
         [] id \in {"openat", "openat2", "faccessat", "faccessat2", "unlinkat"} -> <<Str(1)>>
         [] id \in {"newstat", "newlstat"} -> <<Str(0)>> \o If(ret >= 0, Bytes(1))
         [] id = "newfstatat" -> <<Str(1)>> \o If(ret >= 0, Bytes(2))
         [] id = "statx" -> <<Str(1)>> \o If(ret >= 0, Bytes(4))
         [] id = "rename" -> <<Str(0), Str(1)>>
         [] id \in {"renameat", "renameat2"} -> <<Str(1), Str(3)>>
         [] id = "write" -> <<Bytes(1)>>
         [] id \in {"read", "newfstat"} -> If(ret >= 0, Bytes(1))
         [] OTHER -> <<>>

CapturedArgs(c) == {Captures(c.id, c.ret)[k] : k \in 1..Len(Captures(c.id, c.ret))}

Pointers == {Null, Bad} \cup Seq(Nat)
ASSUME PointersAssumption == Null \notin {Bad, BadCell} /\ <<>> \notin {Null, Bad}

\* A buffer that can be read has the size of the call; a string ends at its
\* NUL and an argv at its null cell.
ASSUME CallsAssumption ==
    \A c \in Calls :
        /\ c.size \in Nat /\ c.ret \in Int
        /\ c.id # "execve" => \A a \in CapturedArgs(c) :
              /\ a.index \in DOMAIN c.mem /\ c.mem[a.index] \in Pointers
              /\ (a.kind = "bytes" /\ c.mem[a.index] \notin {Null, Bad}) =>
                    Len(c.mem[a.index]) = c.size
        /\ c.id = "execve" =>
              /\ {0, 1} \subseteq DOMAIN c.mem /\ c.mem[0] \in Pointers
              /\ c.mem[1] \in {Null} \cup Seq({Bad, BadCell} \cup Seq(Nat \ {0}))
              /\ c.mem[1] # Null => \A k \in 1..Len(c.mem[1]) : c.mem[1][k] # Null
ASSUME OverwritesAssumption == Overwrites \subseteq Pointers

\* The event's arg_types: the table's, and what sys_exit sets with a capture.
\* read, write and execve rely on the table.
EventArgTypes(c) ==
    [i \in 0..5 |->
        CASE c.id \notin {"read", "write"} /\ Str(i) \in CapturedArgs(c) -> VAR_ARG_STRING
          [] c.id \notin {"read", "write"} /\ Bytes(i) \in CapturedArgs(c) -> VAR_ARG_BYTES
          [] OTHER -> ArgTypes(c.id)[i]]

-----------------------------------------------------------------------------
Init ==
    /\ call \in Calls
    /\ pc = IF call.id = "execve" THEN "path" ELSE "kernel"
    /\ memory = call.mem
    /\ snapshot = Nothing(MAX_EXECVE_STATE_PAYLOAD)
    /\ loop = [i |-> 1, start |-> 0, cursor |-> 0]
    /\ event = Nothing(MAX_VAR_PAYLOAD)
    /\ todo = <<>>
    /\ seen = [i \in DOMAIN memory |-> {memory[i]}]

(***************************************************************************)
(* sys_enter of execve                                                     *)
(***************************************************************************)
AppendExecveVarString ==
    LET ptr == memory[0]
        copied == Copied(ptr, MAX_EXECVE_ARG_STR)
        flags == IF copied = MAX_EXECVE_ARG_STR THEN {"truncated"} ELSE {}
    IN /\ pc = "path"
       /\ snapshot' = IF ptr = Null THEN Noted(snapshot, Desc(0, {"null"}, 0, 0))
                      ELSE IF ptr = Bad THEN Noted(snapshot, Desc(0, {"read_error"}, 0, 0))
                      ELSE [desc |-> Append(snapshot.desc, Desc(0, flags, 0, copied - 1)),
                            payload |-> StoreStr(snapshot.payload, 0, ptr, MAX_EXECVE_ARG_STR),
                            payload_len |-> copied - 1]
       /\ pc' = "argv"
       /\ UNCHANGED <<call, memory, loop, event, todo, seen>>

ArgvStart ==
    /\ pc = "argv"
    /\ IF memory[1] = Null \/ snapshot.payload_len >= MAX_EXECVE_STATE_PAYLOAD
       THEN /\ snapshot' = Noted(snapshot, Desc(1, IF memory[1] = Null THEN {"null"} ELSE {"truncated"},
                                                snapshot.payload_len, 0))
            /\ pc' = "kernel"
            /\ UNCHANGED loop
       ELSE /\ loop' = [i |-> 1, start |-> snapshot.payload_len, cursor |-> snapshot.payload_len]
            /\ pc' = "loop"
            /\ UNCHANGED snapshot
    /\ UNCHANGED <<call, memory, event, todo, seen>>

\* The argv's cell i; Null after the last.
Cell(i) == IF i <= Len(memory[1]) THEN memory[1][i] ELSE Null

\* Room for anything but the terminator.
RoomForSome == loop.cursor < MAX_EXECVE_STATE_PAYLOAD
RoomForArg == loop.cursor <= MAX_EXECVE_STATE_PAYLOAD - MAX_EXECVE_ARG_STR

\* The loop ends with these flags, at this cursor and payload.
ArgvEnds(flags, cursor, payload) ==
    /\ snapshot' = [desc |-> Append(snapshot.desc, Desc(1, flags, loop.start, cursor - loop.start)),
                    payload |-> payload, payload_len |-> cursor]
    /\ pc' = "kernel"
    /\ UNCHANGED loop

ArgvCopies ==
    LET ptr == Cell(loop.i)
        copied == Copied(ptr, MAX_EXECVE_ARG_STR)
        payload == StoreStr(snapshot.payload, loop.cursor, ptr, MAX_EXECVE_ARG_STR)
    IN /\ pc = "loop" /\ loop.i <= MAX_EXECVE_ARGV
       /\ ptr \notin {Null, BadCell, Bad} /\ RoomForArg
       /\ IF copied = MAX_EXECVE_ARG_STR
          THEN ArgvEnds({"truncated"}, loop.cursor + copied, payload)
          ELSE /\ snapshot' = [desc |-> snapshot.desc, payload |-> payload,
                               payload_len |-> snapshot.payload_len]
               /\ loop' = [i |-> loop.i + 1, start |-> loop.start, cursor |-> loop.cursor + copied]
               /\ UNCHANGED pc
       /\ UNCHANGED <<call, memory, event, todo, seen>>

ArgvBreaks ==
    LET ptr == Cell(loop.i)
        flags == IF ptr = BadCell THEN {"read_error"}
                 ELSE IF ptr = Null THEN {}
                 ELSE IF ~RoomForArg THEN {"truncated"}
                 ELSE {"read_error"}
    IN /\ pc = "loop" /\ loop.i <= MAX_EXECVE_ARGV
       /\ ptr \in {Null, BadCell, Bad} \/ ~RoomForArg
       /\ ArgvEnds(flags, loop.cursor, snapshot.payload)
       /\ UNCHANGED <<call, memory, event, todo, seen>>

\* A full argv taken for a complete one.
AllSlotsFlagsNone(next) == {}
AllSlotsFlags(next) ==
    IF next = BadCell THEN {"read_error"} ELSE IF next # Null THEN {"truncated"} ELSE {}

ArgvExhausted ==
    /\ pc = "loop" /\ loop.i = MAX_EXECVE_ARGV + 1
    /\ ArgvEnds(AllSlotsFlags(Cell(loop.i)), loop.cursor, snapshot.payload)
    /\ UNCHANGED <<call, memory, event, todo, seen>>

(***************************************************************************)
(* The call itself (external), which for a successful execve replaces the  *)
(* memory, and the eviction of a snapshot.                                 *)
(***************************************************************************)
Replaced == [i \in DOMAIN memory |-> Bad]

Served ==
    /\ pc = "kernel"
    /\ memory' = IF call.id = "execve" /\ call.ret = 0 THEN Replaced ELSE memory
    /\ pc' = "exit"
    /\ UNCHANGED <<call, snapshot, loop, event, todo, seen>>

SnapshotEvicted ==
    /\ pc = "kernel" /\ call.id = "execve"
    /\ memory' = IF call.ret = 0 THEN Replaced ELSE memory
    /\ pc' = "exit_without"
    /\ UNCHANGED <<call, snapshot, loop, event, todo, seen>>

\* Another thread writes to a string the call was made with, once.
OtherThreadWrites(i, value) ==
    /\ pc \in {"kernel", "exit", "capture"} /\ call.id # "execve"
    /\ Str(i) \in CapturedArgs(call) /\ seen[i] = {memory[i]}
    /\ memory' = [j \in DOMAIN memory |-> IF j = i THEN value ELSE memory[j]]
    /\ seen' = [seen EXCEPT ![i] = @ \cup {value}]
    /\ UNCHANGED <<call, pc, snapshot, loop, event, todo>>

(***************************************************************************)
(* sys_exit                                                                *)
(***************************************************************************)
SysExit ==
    /\ pc = "exit"
    /\ IF call.id = "execve"
       THEN /\ event' = [desc |-> snapshot.desc,
                         payload |-> [j \in DOMAIN event.payload |->
                                        IF j < MAX_EXECVE_STATE_PAYLOAD THEN snapshot.payload[j]
                                        ELSE event.payload[j]],
                         payload_len |-> snapshot.payload_len]
            /\ pc' = "submitted"
            /\ UNCHANGED todo
       ELSE /\ todo' = Captures(call.id, call.ret)
            /\ pc' = "capture"
            /\ UNCHANGED event
    /\ UNCHANGED <<call, memory, snapshot, loop, seen>>

SysExitWithoutSnapshot ==
    /\ pc = "exit_without"
    /\ event' = Noted(Noted(event, Desc(0, {"read_error"}, 0, 0)), Desc(1, {"read_error"}, 0, 0))
    /\ pc' = "lost"
    /\ UNCHANGED <<call, memory, snapshot, loop, todo, seen>>

Capture ==
    /\ pc = "capture" /\ todo # <<>>
    /\ LET c == Head(todo)
       IN event' = IF c.kind = "string" THEN AppendVarString(event, c.index, memory[c.index])
                   ELSE AppendVarBytes(event, c.index, memory[c.index], call.size)
    /\ todo' = Tail(todo)
    /\ UNCHANGED <<call, pc, memory, snapshot, loop, seen>>

Submit ==
    /\ pc = "capture" /\ todo = <<>>
    /\ pc' = "submitted"
    /\ UNCHANGED <<call, memory, snapshot, loop, event, todo, seen>>

Next ==
    \/ AppendExecveVarString \/ ArgvStart \/ ArgvCopies \/ ArgvBreaks \/ ArgvExhausted
    \/ Served \/ SnapshotEvicted
    \/ \E i \in DOMAIN memory, value \in Overwrites : OtherThreadWrites(i, value)
    \/ SysExit \/ SysExitWithoutSnapshot \/ Capture \/ Submit

Spec == Init /\ [][Next]_vars

-----------------------------------------------------------------------------
(***************************************************************************)
(* User space: format_var.go and event_path.go.                            *)
(***************************************************************************)
FindVarArgDesc(ev, index) == {k \in 1..Len(ev.desc) : ev.desc[k].arg_index = index}
Found(ev, index) == ev.desc[CHOOSE k \in FindVarArgDesc(ev, index) :
                                \A l \in FindVarArgDesc(ev, index) : k <= l]

Sliceable(ev, d) == d.offset + d.length <= AtMost(ev.payload_len, MAX_VAR_PAYLOAD)
VarPayloadSlice(ev, d) == [j \in 1..d.length |-> ev.payload[d.offset + j - 1]]

\* What is shown: "NULL", "<?>", or texts, with a mark for a cut or an error.
ShownNull == [what |-> "NULL"]
ShownError == [what |-> "<?>"]
Shown(texts, d, error) ==
    [what |-> "text", texts |-> texts, cut |-> "truncated" \in d.flags, error |-> error]

\* formatVarString and formatVarBytes.
FormatVarString(ev, d) ==
    IF "null" \in d.flags THEN ShownNull
    ELSE IF "read_error" \in d.flags \/ ~Sliceable(ev, d) THEN ShownError
    ELSE Shown(<<VarPayloadSlice(ev, d)>>, d, FALSE)

\* The pieces between NULs; a last piece without one counts.
Pieces(bytes) ==
    LET ends == {j \in 1..Len(bytes) : bytes[j] = 0 \/ j = Len(bytes)}
        end(k) == CHOOSE j \in ends : Cardinality({l \in ends : l <= j}) = k
        from(k) == IF k = 1 THEN 1 ELSE end(k - 1) + 1
        to(k) == IF bytes[end(k)] = 0 THEN end(k) - 1 ELSE end(k)
    IN [k \in 1..Cardinality(ends) |-> SubSeq(bytes, from(k), to(k))]

FormatVarArgv(ev, d) ==
    IF "null" \in d.flags THEN ShownNull
    ELSE IF ~Sliceable(ev, d) THEN ShownError
    ELSE Shown(Pieces(VarPayloadSlice(ev, d)), d, "read_error" \in d.flags)

\* formatArgDefault: the register itself, a pointer here.
ShownNumber == [what |-> "number"]

\* formatVarArg, which leaves an argument without a descriptor to the default.
FormatVarArg(ev, c, index) ==
    LET type == EventArgTypes(c)[index]
    IN IF FindVarArgDesc(ev, index) = {} \/ type \notin VAR_ARG_STRING..VAR_ARG_ARGV THEN ShownNumber
       ELSE IF type = VAR_ARG_ARGV THEN FormatVarArgv(ev, Found(ev, index))
       ELSE FormatVarString(ev, Found(ev, index))

\* formatStatArg: a stat buffer is decoded whole or not at all.
StatBuffer(c) ==
    CASE c.id \in {"newstat", "newlstat", "newfstat"} -> {1}
      [] c.id = "newfstatat" -> {2}
      [] c.id = "statx" -> {4}
      [] OTHER -> {}
\* struct stat and struct statx fit a slot.
ASSUME StatAssumption ==
    \A c \in Calls : StatBuffer(c) # {} => c.size \in 1..GENERIC_VAR_SLOT_SIZE
FormatStatArg(ev, c, d) ==
    IF d.flags # {} \/ ~Sliceable(ev, d) \/ d.length < c.size THEN ShownError
    ELSE Shown(<<VarPayloadSlice(ev, d)>>, d, FALSE)

FormatArg(ev, c, index) ==
    IF index \in StatBuffer(c) /\ c.ret >= 0 /\ FindVarArgDesc(ev, index) # {}
    THEN FormatStatArg(ev, c, Found(ev, index))
    ELSE FormatVarArg(ev, c, index)

\* eventTracePathAt without its test of the flags.
TracePathAnyFlags(ev, index) ==
    {VarPayloadSlice(ev, d) : d \in {Found(ev, index) : k \in FindVarArgDesc(ev, index)}}

\* The path the filter gets, if any.
EventTracePathAt(ev, index) ==
    {VarPayloadSlice(ev, d) :
        d \in {Found(ev, index) : k \in {l \in FindVarArgDesc(ev, index) :
                    Found(ev, index).flags = {} /\ Sliceable(ev, Found(ev, index))}}}

-----------------------------------------------------------------------------
(***************************************************************************)
(* Properties                                                              *)
(***************************************************************************)
\* No capture leaves its buffer, and two captures never overlap, whatever the
\* lengths of the arguments: of every descriptor with bytes, the range ends
\* inside payload_len and before the next one starts.
Inside(a, size) ==
    /\ a.payload_len \in 0..size
    /\ \A k \in 1..Len(a.desc) : a.desc[k].length > 0 =>
          a.desc[k].offset + a.desc[k].length <= a.payload_len
    /\ \A k, l \in 1..Len(a.desc) : (k < l /\ a.desc[l].length > 0) =>
          a.desc[k].offset + a.desc[k].length <= a.desc[l].offset
CapturesInside ==
    /\ Inside(snapshot, MAX_EXECVE_STATE_PAYLOAD)
    /\ Inside(event, MAX_VAR_PAYLOAD)
    /\ pc = "loop" => loop.cursor \in 0..MAX_EXECVE_STATE_PAYLOAD

\* Shown for a string or buffer s: all of it, or a prefix marked as cut.
ShowsBytes(shown, s) ==
    IF s = Null THEN shown = ShownNull
    ELSE IF s = Bad THEN shown = ShownError
    ELSE /\ shown.what = "text"
         /\ IF shown.cut THEN IsPrefix(shown.texts[1], s) ELSE shown.texts[1] = s

\* What a captured argument led to during the call.
Values(c) ==
    IF c.kind = "string" THEN seen[c.index]
    ELSE IF memory[c.index] = Null
    THEN {IF c.index \in StatBuffer(call) THEN Bad ELSE Null}
    ELSE {IF call.size = 0 THEN <<>> ELSE memory[c.index]}

\* The line shows each captured argument as text, with a value it had between
\* sys_enter and sys_exit: complete unless marked, never bytes of the other
\* argument, and an error or NULL only where the pointer was bad or null (a
\* null stat buffer is shown as an error).
ArgumentsShown ==
    pc = "submitted" =>
        \A c \in CapturedArgs(call) :
            \E v \in Values(c) : ShowsBytes(FormatArg(event, call, c.index), v)

\* Shown for an argv: its strings in order, the last one perhaps a prefix if
\* marked as cut; unmarked, all of them; an error only before a cell that
\* could not be read.
ShowsArgv(shown, cells) ==
    IF cells = Null THEN shown = ShownNull
    ELSE LET n == Len(shown.texts)
         IN /\ shown.what = "text" /\ n <= Len(cells)
            /\ \A k \in 1..n :
                  /\ cells[k] \notin {Bad, BadCell}
                  /\ IF k = n /\ shown.cut THEN IsPrefix(shown.texts[k], cells[k])
                                          ELSE shown.texts[k] = cells[k]
            /\ (~shown.cut /\ ~shown.error) => n = Len(cells)
            /\ shown.error => n < Len(cells) /\ cells[n + 1] \in {Bad, BadCell}

\* The line of an execve shows the program and the arguments it was called
\* with, although a successful execve has replaced the memory they were in;
\* without its snapshot it shows errors and no bytes.
ExecveShown ==
    LET path == FormatArg(event, call, 0)
        argv == FormatArg(event, call, 1)
    IN /\ (pc = "submitted" /\ call.id = "execve") =>
              ShowsBytes(path, call.mem[0]) /\ ShowsArgv(argv, call.mem[1])
       /\ pc = "lost" => path = ShownError /\ argv.texts = <<>> /\ argv.error

PathIndexes == {c.index : c \in {d \in CapturedArgs(call) : d.kind = "string"}}

\* The path filter is given a path whole or not at all, never a prefix that
\* could be taken for another traced path, and one the argument had during
\* the call.
PathsWhole ==
    pc = "submitted" => \A i \in PathIndexes : EventTracePathAt(event, i) \subseteq seen[i]

(***************************************************************************)
(* What the help text promises of -P; checked to fail.                     *)
(***************************************************************************)
\* The path filter is given every path a call was made with.
PathsReachFilter ==
    pc = "submitted" => \A i \in PathIndexes :
        memory[i] \notin {Null, Bad} => memory[i] \in EventTracePathAt(event, i)
=============================================================================
