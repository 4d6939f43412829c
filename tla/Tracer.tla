------------------------------- MODULE Tracer -------------------------------
(***************************************************************************)
(* The in-kernel half of litrace: the three tracepoint programs of         *)
(* internal/bpf/tracer.c (sys_enter, sys_exit, sched_process_exit) running *)
(* over the BPF maps they share, while tasks make system calls, clone,     *)
(* exit and have their ids reused.                                         *)
(*                                                                         *)
(* A program that holds a pointer to a value of an LRU map is several      *)
(* steps, because programs on other CPUs may evict and recycle that value  *)
(* meanwhile.  sys_exit holds one to inflight_syscalls from line 573 to    *)
(* line 738: look-up, child tracking and reservation, fill, submit and the *)
(* clean-up after the delete.  For an execve it holds another one to       *)
(* execve_snapshots from line 696 to line 709, and sys_enter one from line *)
(* 546 to line 552: store, look-up and path, argv, and the update of       *)
(* inflight_syscalls.  sys_enter of any other call and sched_process_exit  *)
(* hold none and are one step each.                                        *)
(*                                                                         *)
(* A thread id names at once a task and, for a group leader, a process, as *)
(* in the kernel.  Argument values are left out: a snapshot is the set of  *)
(* the execves whose strings are in it.  So are time stamps and the        *)
(* numbers of tid_sequences, which nothing in the kernel or in user space  *)
(* reads but to count on and to copy into the event.                       *)
(***************************************************************************)
EXTENDS Integers, Sequences, FiniteSets

CONSTANTS
    Tid,            \* task ids; a process is named by its leader's id
    Root,           \* the launched (or attached) process
    Attached,       \* the root's threads if it is attached, {} if launched
    NoTid,          \* not a task id: a return value <= 0
    Pending,        \* the return value of a call that has not been served
    Kinds,          \* the calls tasks make: [id, thread (CLONE_THREAD)]
    Selected,       \* keys of trace_syscall_filter
    FilterEnabled,  \* trace_filter_enabled
    FollowForks,    \* follow_forks
    MaxEntries,     \* max_entries of target_pids and of the LRU maps
    RingSize,       \* events that fit in the ring buffer
    MaxCalls        \* bound: calls per task id

ASSUME RootAssumption == Root \in Tid /\ NoTid \notin Tid /\ Pending \notin Tid
ASSUME AttachedAssumption == Attached \subseteq Tid /\ (Attached # {} => Root \in Attached)
ASSUME NoTidAssumption == NoTid # Pending
ASSUME KindsAssumption ==
    /\ Kinds \subseteq [id : {k.id : k \in Kinds}, thread : BOOLEAN]
    /\ \A k \in Kinds : k.id = "fork" => ~k.thread
ASSUME FlagAssumption == FilterEnabled \in BOOLEAN /\ FollowForks \in BOOLEAN
ASSUME SizeAssumption == MaxEntries \in Nat \ {0} /\ RingSize \in Nat \ {0} /\ MaxCalls \in Nat

VARIABLES
    pc,     \* where each task is: user code, kernel, or inside sys_exit
    tgid,   \* the process of each task
    call,   \* the call a task is in, numbered per task id
    ret,    \* its return value
    doomed, \* processes whose threads are being killed
    target_pids, inflight_syscalls, execve_snapshots, events,
    node,       \* the values of inflight_syscalls, which maps a task to one or NoNode
    captured,   \* those of execve_snapshots: the execves whose strings they hold
    state,      \* sys_exit's local pointer into node
    snapshot,   \* sys_enter's and sys_exit's local pointer into captured
    family,     \* history: the root and the processes its descendants created
    stale,      \* history: tasks whose entry or pointer is of another call
    recycled,   \* history: the same for the pointer, after the entry's deletion
    watched,    \* history: tasks whose process was a target when they entered
    evicted,    \* history: tasks whose entry another task's update dropped
    dropped,    \* history: the same for their execve snapshot
    mixed,      \* history: tasks whose snapshot another's execve writes or reuses
    orphaned,   \* history: tasks whose child is gone before their clone returned
    misread,    \* history: tasks whose clone3 arguments changed or became unreadable
    late        \* history: targets registered for one of these reasons

kernelVars == <<pc, tgid, call, ret, doomed>>
inflightVars == <<inflight_syscalls, node, state>>
snapshotVars == <<execve_snapshots, captured, snapshot>>
mapVars == <<target_pids, events, inflightVars, snapshotVars>>
entryHistory == <<stale, recycled, evicted>>
snapshotHistory == <<dropped, mixed>>
familyHistory == <<orphaned, misread, late>>
historyVars == <<family, watched, entryHistory, snapshotHistory, familyHistory>>
vars == <<kernelVars, mapVars, historyVars>>

NoNode == 0
Nodes == 1..MaxEntries

CloneIds == {"fork", "clone", "clone3"}     \* "fork" stands for fork and vfork
ExitIds == {"exit", "exit_group"}

Ids == {k.id : k \in Kinds} \cup {"execve"}
Call == [tid : Tid, n : Nat, id : Ids, thread : BOOLEAN]
NumberedCall(t, n, k) == [tid |-> t, n |-> n, id |-> k.id, thread |-> k.thread]
FirstExecve(t) == NumberedCall(t, 0, [id |-> "execve", thread |-> FALSE])

\* struct syscall_data
SyscallData == [call : Call, selected : BOOLEAN]

\* struct event.  snapshot is the set of execves whose strings it shows, {} for
\* the read-error marks.  truth, suspect and fate are history: the call the
\* task is really returning from, whether its map entry was stale then, and
\* what became of its execve snapshot.
Event == [tid : Tid, pid : Tid, ready : BOOLEAN, call : Call, ret : Tid \cup {NoTid},
          clone : BOOLEAN, snapshot : SUBSET Call, truth : Call, suspect : BOOLEAN,
          fate : {"kept", "dropped", "mixed"}]

InSysEnter == {"stored", "path", "argv"}
InSysExit == {"looked_up", "reserved", "filled", "submitted"}
Live(t) == pc[t] # "free"
Threads(p) == {t \in Tid : Live(t) /\ tgid[t] = p}

(***************************************************************************)
(* Helpers of tracer.c.                                                    *)
(***************************************************************************)
\* What reading clone3's arguments from user memory may find: whatever another
\* thread left there since the call, or nothing.
CloneArgs == {"thread", "process", "fault"}

IsProcessClone(c, args) ==
    \/ c.id = "fork"
    \/ c.id = "clone" /\ ~c.thread
    \/ c.id = "clone3" /\ args # "thread"

\* The arguments no longer say what the call was made with.
Misread(c, args) == c.id = "clone3" /\ (args = "thread") # c.thread

\* The kernel filter taken for the whole of sys_enter's decision.
NeverTrackUnselected(id) == FALSE

ShouldTrackUnselected(id) ==
    FollowForks /\ IsProcessClone([id |-> id, thread |-> FALSE], "fault")

\* Any positive result taken for a child.
ResultOf(c, r, args) == IF r # NoTid /\ FollowForks THEN {r} ELSE {}

\* The pids track_child_process asks to add; the hash refuses when full.
ChildOf(c, r, args) ==
    IF r # NoTid /\ IsProcessClone(c, args) /\ FollowForks THEN {r} ELSE {}

RoomForTarget == Cardinality(target_pids) < MaxEntries

TrackChildProcess(c, r, args) ==
    IF RoomForTarget THEN target_pids \cup ChildOf(c, r, args) ELSE target_pids

\* bpf_map_delete_elem
Without(map, t) == [map EXCEPT ![t] = NoNode]

\* BPF_MAP_TYPE_LRU_HASH: an update stores its value in a free node, or in a
\* full map in that of some entry, which it drops.
AllocatableNodes(map) ==
    LET unused == Nodes \ {map[u] : u \in Tid} IN IF unused # {} THEN unused ELSE Nodes

LruUpdate(map, t, n) ==
    [u \in Tid |-> IF u = t THEN n ELSE IF map[u] = n THEN NoNode ELSE map[u]]

Owners(map, n) == {u \in Tid : map[u] = n}

RingFullUnbounded == FALSE

RingFull == Len(events) >= RingSize

-----------------------------------------------------------------------------
(***************************************************************************)
(* Init: NewHandle has stored the target and attached the programs.  A     *)
(* launched root is alone and in its first execve, whose sys_enter nobody  *)
(* saw; an attached one has its threads in user code.                      *)
(***************************************************************************)
Init ==
    /\ pc = [t \in Tid |-> IF t \in Attached THEN "user"
                           ELSE IF t = Root /\ Attached = {} THEN "kernel" ELSE "free"]
    /\ tgid = [t \in Tid |-> IF t \in Attached THEN Root ELSE t]
    /\ call = [t \in Tid |-> FirstExecve(t)]
    /\ ret = [t \in Tid |-> NoTid]
    /\ doomed = {}
    /\ target_pids = {Root}
    /\ events = <<>>
    /\ inflight_syscalls = [t \in Tid |-> NoNode]
    /\ node = [n \in Nodes |-> [call |-> FirstExecve(Root), selected |-> FALSE]]
    /\ state = [t \in Tid |-> NoNode]
    /\ execve_snapshots = [t \in Tid |-> NoNode]
    /\ captured = [n \in Nodes |-> {}]
    /\ snapshot = [t \in Tid |-> NoNode]
    /\ family = {Root}
    /\ watched = {}
    /\ stale = {} /\ recycled = {} /\ evicted = {}
    /\ dropped = {} /\ mixed = {}
    /\ orphaned = {} /\ misread = {} /\ late = {}

-----------------------------------------------------------------------------
(***************************************************************************)
(* trace_sys_enter                                                         *)
(***************************************************************************)
IsTraced(t) == tgid[t] \in target_pids
IsSelected(id) == FilterEnabled => id \in Selected
IsTracked(t, id) == IsTraced(t) /\ (IsSelected(id) \/ ShouldTrackUnselected(id))

\* The task enters the kernel; exit_group dooms its whole process.
EnterKernel(t, k, at) ==
    /\ pc[t] = "user"
    /\ tgid[t] \notin doomed
    /\ call[t].n < MaxCalls
    /\ pc' = [pc EXCEPT ![t] = at]
    /\ call' = [call EXCEPT ![t] = NumberedCall(t, call[t].n + 1, k)]
    /\ ret' = [ret EXCEPT ![t] = Pending]
    /\ doomed' = IF k.id = "exit_group" THEN doomed \cup {tgid[t]} ELSE doomed
    /\ watched' = IF IsTraced(t) THEN watched \cup {t} ELSE watched \ {t}
    /\ orphaned' = orphaned \ {t}
    /\ misread' = misread \ {t}
    /\ UNCHANGED <<tgid, family, late>>

\* Not a target, or filtered out and not needed to follow forks.
SysEnterIgnored(t, k) ==
    /\ EnterKernel(t, k, "kernel")
    /\ ~IsTracked(t, k.id)
    /\ evicted' = evicted \ {t}
    /\ UNCHANGED <<mapVars, stale, recycled, snapshotHistory>>

\* The update of inflight_syscalls with the entry of call c.
StoreSyscall(t, c, n) ==
    /\ n \in AllocatableNodes(inflight_syscalls)
    /\ node' = [node EXCEPT ![n] = [call |-> c, selected |-> IsSelected(c.id)]]
    /\ inflight_syscalls' = LruUpdate(inflight_syscalls, t, n)
    /\ evicted' = (evicted \cup Owners(inflight_syscalls, n)) \ {t}
    /\ stale' = (stale \ {t}) \cup {u \in Owners(state, n) : pc[u] # "submitted"}
    /\ recycled' = recycled \cup Owners(state, n)
    /\ UNCHANGED state

SysEnterTracked(t, k, n) ==
    /\ EnterKernel(t, k, "kernel")
    /\ k.id # "execve" /\ IsTracked(t, k.id)
    /\ StoreSyscall(t, call'[t], n)
    /\ UNCHANGED <<target_pids, events, snapshotVars, snapshotHistory>>

\* An execve first stores a zeroed snapshot.  It is mixed with another task's
\* if that one's sys_enter still writes, or its sys_exit still reads, value m.
SysEnterExecve(t, k, m) ==
    /\ EnterKernel(t, k, "stored")
    /\ k.id = "execve" /\ IsTracked(t, k.id)
    /\ m \in AllocatableNodes(execve_snapshots)
    /\ execve_snapshots' = LruUpdate(execve_snapshots, t, m)
    /\ captured' = [captured EXCEPT ![m] = {}]
    /\ dropped' = (dropped \cup Owners(execve_snapshots, m)) \ {t}
    /\ LET holders == Owners(snapshot, m)
           spoilt == {u \in holders : pc[u] = "filled"}
       IN mixed' = spoilt \cup IF holders = spoilt THEN mixed \ {t} ELSE mixed \cup {t}
    /\ UNCHANGED <<target_pids, events, inflightVars, snapshot, entryHistory>>

\* append_execve_var_string and append_execve_var_argv write through the
\* pointer, whosever value it is by then.
Appended(t, m) == IF m = NoNode THEN captured ELSE [captured EXCEPT ![m] = @ \cup {call[t]}]

AppendPath(t) ==
    /\ pc[t] = "stored"
    /\ pc' = [pc EXCEPT ![t] = "path"]
    /\ snapshot' = [snapshot EXCEPT ![t] = execve_snapshots[t]]
    /\ captured' = Appended(t, execve_snapshots[t])
    /\ UNCHANGED <<tgid, call, ret, doomed, target_pids, events, inflightVars,
                   execve_snapshots, historyVars>>

AppendArgv(t) ==
    /\ pc[t] = "path"
    /\ pc' = [pc EXCEPT ![t] = "argv"]
    /\ captured' = Appended(t, snapshot[t])
    /\ snapshot' = [snapshot EXCEPT ![t] = NoNode]
    /\ UNCHANGED <<tgid, call, ret, doomed, target_pids, events, inflightVars,
                   execve_snapshots, historyVars>>

StoreExecve(t, n) ==
    /\ pc[t] = "argv"
    /\ pc' = [pc EXCEPT ![t] = "kernel"]
    /\ StoreSyscall(t, call[t], n)
    /\ UNCHANGED <<tgid, call, ret, doomed, target_pids, events, snapshotVars,
                   family, watched, snapshotHistory, familyHistory>>

-----------------------------------------------------------------------------
(***************************************************************************)
(* The kernel between the two tracepoints (external).                      *)
(***************************************************************************)
FreeTid(c) == ~Live(c) /\ Threads(c) = {} /\ call[c].n < MaxCalls

\* A task id goes to a new task.
NewTask(c) ==
    /\ FreeTid(c)
    /\ watched' = watched \ {c}
    /\ evicted' = evicted \ {c}
    /\ orphaned' = orphaned \ {c}
    /\ misread' = misread \ {c}
    /\ UNCHANGED <<doomed, mapVars, stale, recycled, snapshotHistory, late>>

\* The clone is served: the new task starts on its way out of the same call.
Clone(t, c) ==
    /\ pc[t] = "kernel" /\ call[t].id \in CloneIds /\ ret[t] = Pending
    /\ NewTask(c)
    /\ pc' = [pc EXCEPT ![c] = "kernel"]
    /\ tgid' = [tgid EXCEPT ![c] = IF call[t].thread THEN tgid[t] ELSE c]
    /\ call' = [call EXCEPT ![c] = NumberedCall(c, call[c].n + 1, call[t])]
    /\ ret' = [ret EXCEPT ![t] = c, ![c] = NoTid]
    /\ family' = IF ~call[t].thread /\ tgid[t] \in family THEN family \cup {c} ELSE family

\* Somebody else's process takes a free pid.
Spawn(c) ==
    /\ NewTask(c)
    /\ pc' = [pc EXCEPT ![c] = "user"]
    /\ tgid' = [tgid EXCEPT ![c] = c]
    /\ UNCHANGED <<call, ret, family>>

\* A fatal signal for the whole process.
Kill(p) ==
    /\ Threads(p) # {} /\ p \notin doomed
    /\ doomed' = doomed \cup {p}
    /\ UNCHANGED <<pc, tgid, call, ret, mapVars, historyVars>>

\* What a call may return: a clone that was never served fails, an execve
\* returns no positive number, any other call may, a task id included.
Returns(t) ==
    IF ret[t] # Pending THEN {ret[t]}
    ELSE IF call[t].id \in CloneIds \cup {"execve"} THEN {NoTid} ELSE Tid \cup {NoTid}

-----------------------------------------------------------------------------
(***************************************************************************)
(* trace_sys_exit.  exit and exit_group never come back to it.             *)
(***************************************************************************)
\* inflight_syscalls keyed by process instead of thread.
EntryOfProcess(t) == inflight_syscalls[tgid[t]]

\* bpf_map_lookup_elem(&inflight_syscalls, &tid)
EntryOf(t) == inflight_syscalls[t]

SysExitLookup(t, r) ==
    /\ pc[t] = "kernel" /\ call[t].id \notin ExitIds
    /\ r \in Returns(t)
    /\ ret' = [ret EXCEPT ![t] = r]
    /\ IF IsTraced(t) /\ EntryOf(t) # NoNode
       THEN /\ pc' = [pc EXCEPT ![t] = "looked_up"]
            /\ state' = [state EXCEPT ![t] = EntryOf(t)]
            /\ UNCHANGED stale
       ELSE /\ pc' = [pc EXCEPT ![t] = "user"]
            /\ stale' = IF inflight_syscalls[t] # NoNode THEN stale \cup {t} ELSE stale
            /\ UNCHANGED state
    /\ UNCHANGED <<tgid, call, doomed, target_pids, events, inflight_syscalls, node, snapshotVars,
                   family, watched, recycled, evicted, snapshotHistory, familyHistory>>

\* A reserved record is not readable before it is submitted.
Reserved(t) ==
    [tid |-> t, pid |-> tgid[t], ready |-> FALSE, call |-> call[t], ret |-> NoTid, clone |-> FALSE,
     snapshot |-> {}, truth |-> call[t], suspect |-> FALSE, fate |-> "kept"]

\* Why the pid a clone seems to return may be no child of the family: the
\* entry is of another call, the child is gone (and its pid perhaps somebody
\* else's), clone3's arguments say otherwise by now, or the process that
\* makes the call is no member itself.
Misregisters(t, args) ==
    \/ t \in stale
    \/ t \in orphaned
    \/ Misread(call[t], args)
    \/ tgid[t] \notin family

Return(t) == pc' = [pc EXCEPT ![t] = "user"] /\ state' = [state EXCEPT ![t] = NoNode]

AlwaysSelected(t) == TRUE

StateSelected(t) == node[state[t]].selected

\* track_child_process, the selected test and bpf_ringbuf_reserve.  When the
\* reservation fails the program returns with its map entries in place.
SysExitTrack(t, args) ==
    /\ pc[t] = "looked_up"
    /\ target_pids' = TrackChildProcess(node[state[t]].call, ret[t], args)
    /\ misread' = IF Misread(call[t], args) THEN misread \cup {t} ELSE misread
    /\ late' = IF Misregisters(t, args) THEN late \cup (target_pids' \ target_pids)
               ELSE late \ ChildOf(call[t], ret[t], args)
    /\ \/ /\ ~StateSelected(t)
          /\ inflight_syscalls' = Without(inflight_syscalls, t)
          /\ stale' = stale \ {t}
          /\ recycled' = recycled \ {t}
          /\ Return(t)
          /\ UNCHANGED events
       \/ /\ StateSelected(t) /\ RingFull
          /\ stale' = stale \cup {t}
          /\ recycled' = recycled \ {t}
          /\ Return(t)
          /\ UNCHANGED <<inflight_syscalls, events>>
       \/ /\ StateSelected(t) /\ ~RingFull
          /\ events' = Append(events, Reserved(t))
          /\ pc' = [pc EXCEPT ![t] = "reserved"]
          /\ UNCHANGED <<inflight_syscalls, stale, recycled, state>>
    /\ UNCHANGED <<tgid, call, ret, doomed, node, snapshotVars, family, watched, evicted,
                   snapshotHistory, orphaned>>

Unsubmitted(t) == {i \in DOMAIN events : events[i].tid = t /\ ~events[i].ready}

\* execve_snapshots keyed by process instead of thread.
SnapshotOfProcess(t) == execve_snapshots[tgid[t]]

\* bpf_map_lookup_elem(&execve_snapshots, &tid)
SnapshotOf(t) == execve_snapshots[t]

Copied(m) == IF m = NoNode THEN {} ELSE captured[m]

\* The record filled from the value state refers to and from snapshot m.
Filled(t, e, m, args) ==
    LET c == node[state[t]].call IN
    [e EXCEPT !.call = c,
              !.ret = ret[t],
              !.clone = ret[t] # NoTid /\ IsProcessClone(c, args),
              !.snapshot = Copied(m)]

\* Lines 588 to 705: for an execve, the snapshot's descriptors come with it.
SysExitFill(t, args) ==
    LET m == IF node[state[t]].call.id = "execve" THEN SnapshotOf(t) ELSE NoNode IN
    /\ pc[t] = "reserved"
    /\ pc' = [pc EXCEPT ![t] = "filled"]
    /\ snapshot' = [snapshot EXCEPT ![t] = m]
    /\ \E i \in Unsubmitted(t) : events' = [events EXCEPT ![i] = Filled(t, @, m, args)]
    /\ UNCHANGED <<tgid, call, ret, doomed, target_pids, inflightVars, execve_snapshots, captured,
                   historyVars>>

Fate(t) == IF t \in mixed THEN "mixed" ELSE IF t \in dropped THEN "dropped" ELSE "kept"

\* The record with the snapshot's payload, submitted.
Complete(t, e) ==
    [e EXCEPT !.ready = TRUE,
              !.snapshot = e.snapshot \cup Copied(snapshot[t]),
              !.suspect = (t \in stale),
              !.fate = IF e.call.id = "execve" THEN Fate(t) ELSE "kept"]

EntriesKept(t) == inflight_syscalls

EntriesAfterSubmit(t) == Without(inflight_syscalls, t)

\* Lines 706 to 731: the payload, the snapshot's deletion, and the submit.
SysExitSubmit(t) ==
    /\ pc[t] = "filled"
    /\ pc' = [pc EXCEPT ![t] = "submitted"]
    /\ \E i \in Unsubmitted(t) :
          /\ events' = [events EXCEPT ![i] = Complete(t, @)]
          /\ execve_snapshots' = IF events[i].call.id = "execve" THEN Without(execve_snapshots, t)
                                                                 ELSE execve_snapshots
    /\ snapshot' = [snapshot EXCEPT ![t] = NoNode]
    /\ inflight_syscalls' = EntriesAfterSubmit(t)
    /\ stale' = stale \ {t}
    /\ recycled' = recycled \cup ({t} \cap stale)
    /\ UNCHANGED <<tgid, call, ret, doomed, target_pids, node, state, captured,
                   family, watched, evicted, snapshotHistory, familyHistory>>

\* Lines 733-738 read the value after its entry was deleted.
SysExitCleanup(t) ==
    LET id == node[state[t]].call.id IN
    /\ pc[t] = "submitted"
    /\ inflight_syscalls' = IF id \in ExitIds THEN Without(inflight_syscalls, t) ELSE inflight_syscalls
    /\ execve_snapshots' = IF id \in ExitIds THEN Without(execve_snapshots, t) ELSE execve_snapshots
    /\ target_pids' = IF id = "exit_group" THEN target_pids \ {tgid[t]} ELSE target_pids
    /\ late' = late \cap target_pids'
    /\ recycled' = recycled \ {t}
    /\ Return(t)
    /\ UNCHANGED <<tgid, call, ret, doomed, events, node, captured, snapshot,
                   family, watched, stale, evicted, snapshotHistory, orphaned, misread>>

-----------------------------------------------------------------------------
(***************************************************************************)
(* trace_sched_process_exit: a thread exits by exit or exit_group, or is   *)
(* killed on its way back to user code.                                    *)
(***************************************************************************)
TargetsAfterAnyExit(t) == target_pids \ {tgid[t]}
TargetsAfterExit(t) == IF t = tgid[t] THEN target_pids \ {tgid[t]} ELSE target_pids

CleanupLeader(t) == tgid[t]
CleanupTid(t) == t

\* The tasks still in the clone that created c.
ParentsOf(c) ==
    {u \in Tid : pc[u] \in {"kernel", "looked_up"} /\ call[u].id \in CloneIds /\ ret[u] = c}

SchedProcessExit(t) ==
    /\ \/ pc[t] = "user" /\ tgid[t] \in doomed
       \/ pc[t] = "kernel" /\ call[t].id \in ExitIds
    /\ pc' = [pc EXCEPT ![t] = "free"]
    /\ IF IsTraced(t)
       THEN /\ inflight_syscalls' = Without(inflight_syscalls, CleanupTid(t))
            /\ execve_snapshots' = Without(execve_snapshots, CleanupTid(t))
            /\ target_pids' = TargetsAfterExit(t)
            /\ stale' = stale \ {t}
       ELSE /\ stale' = IF inflight_syscalls[t] # NoNode THEN stale \cup {t} ELSE stale
            /\ UNCHANGED <<inflight_syscalls, execve_snapshots, target_pids>>
    /\ late' = late \cap target_pids'
    /\ orphaned' = orphaned \cup ParentsOf(t)
    /\ LET gone == IF Threads(tgid[t]) = {t} THEN {tgid[t]} ELSE {}
       IN doomed' = doomed \ gone /\ family' = family \ gone
    /\ UNCHANGED <<tgid, call, ret, events, node, state, captured, snapshot,
                   watched, recycled, evicted, snapshotHistory, misread>>

\* The ring buffer reader (ReadEvent): records leave in the order they were
\* reserved, and an unsubmitted one holds back those behind it.
ReadEventNotLast ==
    /\ Len(events) > 1 /\ Head(events).ready
    /\ events' = Tail(events)
    /\ UNCHANGED <<kernelVars, target_pids, inflightVars, snapshotVars, historyVars>>

ReadEvent ==
    /\ events # <<>> /\ Head(events).ready
    /\ events' = Tail(events)
    /\ UNCHANGED <<kernelVars, target_pids, inflightVars, snapshotVars, historyVars>>

-----------------------------------------------------------------------------
Task(t) ==
    \/ \E k \in Kinds : SysEnterIgnored(t, k)
    \/ \E k \in Kinds, n \in Nodes : SysEnterTracked(t, k, n)
    \/ \E k \in Kinds, m \in Nodes : SysEnterExecve(t, k, m)
    \/ AppendPath(t)
    \/ AppendArgv(t)
    \/ \E n \in Nodes : StoreExecve(t, n)
    \/ \E c \in Tid : Clone(t, c)
    \/ \E r \in Tid \cup {NoTid} : SysExitLookup(t, r)
    \/ \E args \in CloneArgs : SysExitTrack(t, args)
    \/ \E args \in CloneArgs : SysExitFill(t, args)
    \/ SysExitSubmit(t)
    \/ SysExitCleanup(t)
    \/ SchedProcessExit(t)
    \/ Spawn(t)
    \/ Kill(t)

Next == ReadEvent \/ \E t \in Tid : Task(t)

Spec == Init /\ [][Next]_vars

\* A BPF program runs to completion, and the reader keeps reading.
Fairness ==
    /\ WF_vars(ReadEvent)
    /\ \A t \in Tid : WF_vars((\E args \in CloneArgs : SysExitFill(t, args)) \/ SysExitSubmit(t))

FairSpec == Spec /\ Fairness

-----------------------------------------------------------------------------
(***************************************************************************)
(* Properties                                                              *)
(***************************************************************************)
\* Every variable keeps its type, the ring buffer never holds more than it
\* can, and no two tasks share a value of inflight_syscalls or execve_snapshots.
TypeOK ==
    /\ pc \in [Tid -> {"free", "user", "kernel"} \cup InSysEnter \cup InSysExit]
    /\ tgid \in [Tid -> Tid]
    /\ call \in [Tid -> Call]
    /\ ret \in [Tid -> Tid \cup {NoTid, Pending}]
    /\ doomed \subseteq Tid
    /\ target_pids \subseteq Tid
    /\ events \in Seq(Event) /\ Len(events) <= RingSize
    /\ node \in [Nodes -> SyscallData] /\ captured \in [Nodes -> SUBSET Call]
    /\ inflight_syscalls \in [Tid -> Nodes \cup {NoNode}]
    /\ execve_snapshots \in [Tid -> Nodes \cup {NoNode}]
    /\ state \in [Tid -> Nodes \cup {NoNode}] /\ snapshot \in [Tid -> Nodes \cup {NoNode}]
    /\ \A t, u \in Tid : t # u =>
          /\ inflight_syscalls[t] = inflight_syscalls[u] => inflight_syscalls[t] = NoNode
          /\ execve_snapshots[t] = execve_snapshots[u] => execve_snapshots[t] = NoNode
    /\ family \subseteq Tid /\ watched \subseteq Tid
    /\ stale \subseteq Tid /\ recycled \subseteq Tid /\ evicted \subseteq Tid
    /\ dropped \subseteq Tid /\ mixed \subseteq Tid
    /\ orphaned \subseteq Tid /\ misread \subseteq Tid /\ late \subseteq Tid

Submitted == {events[i] : i \in {j \in 1..Len(events) : events[j].ready}}

\* An event describes the call its thread is returning from, whatever other
\* threads, evictions and id reuse do, unless the thread's own entry was left
\* behind by an earlier call (reservation failed, process no longer a target)
\* or its value was recycled under sys_exit's pointer.
FaithfulUnlessSuspect == \A e \in Submitted : ~e.suspect => e.call = e.truth

\* Calls tracked only to follow forks, and calls filtered out in the kernel,
\* never reach the ring buffer, with the same exception.
FilterRespected == \A e \in Submitted : ~e.suspect => IsSelected(e.call.id)

\* An execve event shows the strings captured when that very execve was
\* entered and no others, unless another execve reused the value of the map
\* while this task, or was given it while that one, still held a pointer to it;
\* and the read-error marks exactly if the entry was evicted before.
SnapshotOfCall ==
    \A e \in Submitted : (e.call.id = "execve" /\ ~e.suspect) =>
        \/ e.fate = "kept" /\ e.snapshot = {e.call}
        \/ e.fate = "dropped" /\ e.snapshot = {}
        \/ e.fate = "mixed"

\* Whatever is in target_pids is a live process, the root or one created by
\* a member of its family, unless sys_exit registered it from an entry of
\* another call (left behind or recycled), after the child had exited, by
\* clone3 arguments that changed or could not be read since the call (a
\* thread then counts as a process), or for a process that was such itself.
TargetsAreFamily ==
    \A p \in target_pids : p \in late \/ (p \in family /\ Live(p) /\ tgid[p] = p)

\* A process stops being traced only when its leader exits, or when one of
\* its threads read, after deleting its own entry, a value that is not of its
\* call: recycled, or left behind by an earlier one.
TargetLeaves ==
    \A p \in target_pids : p \notin target_pids' =>
        \/ Live(p) /\ pc'[p] = "free"
        \/ \E t \in Tid : tgid[t] = p /\ t \in recycled
TargetRemoval == [][TargetLeaves]_vars

\* A call that was entered as a selected call of a target is not lost on its
\* return, except for one of the causes the design accepts: the process is no
\* longer a target, the LRU map evicted the entry, the ring buffer is full,
\* or the value was recycled.
LossAccounted ==
    \A t \in watched :
        (IsSelected(call[t].id) /\ pc[t] \in {"kernel", "looked_up"} /\ pc'[t] = "user") =>
        \/ ~IsTraced(t)
        \/ t \in evicted
        \/ RingFull
        \/ t \in stale
NoSilentLoss == [][LossAccounted]_vars

\* The process a target's thread creates is a target itself once its parent is
\* back from the clone, even where the filter leaves fork and clone out and
\* whatever the child has done by then, except for the same causes, a full
\* target_pids, or clone3 arguments that have become a thread's meanwhile.
\* Only what the child does before that goes unseen.
ChildRegistered ==
    \A t \in watched :
        (/\ FollowForks /\ call[t].id \in CloneIds /\ ~call[t].thread /\ ret'[t] # NoTid
         /\ pc[t] \in {"kernel", "looked_up"} /\ pc'[t] \in {"user", "reserved"}) =>
        \/ ret'[t] \in target_pids'
        \/ ~IsTraced(t)
        \/ t \in evicted
        \/ t \in stale
        \/ t \in misread'
        \/ ~RoomForTarget
ChildrenFollowed == [][ChildRegistered]_vars

\* A full ring buffer makes room again: the oldest record is submitted by the
\* program that reserved it, and then read.
RingMakesRoom == (Len(events) = RingSize) ~> (Len(events) < RingSize)

(***************************************************************************)
(* The abstract log.  A record is begun by the reservation and finished by *)
(* the submit; a call is open until its task is back in user code.         *)
(***************************************************************************)
Shows(e) ==
    IF ~e.ready THEN "pending"
    ELSE IF e.suspect THEN "suspect"
    ELSE IF e.call = e.truth THEN "its call" ELSE "another call"

RecordOf(e) == [tid |-> e.tid, n |-> e.truth.n, shows |-> Shows(e)]

Records == [i \in 1..Len(events) |-> RecordOf(events[i])]
Begun == [t \in Tid |-> call[t].n]
Open == {t \in Tid : pc[t] \in {"kernel"} \cup InSysEnter \cup InSysExit}
Claimed == {t \in Tid : pc[t] \in {"reserved", "filled", "submitted"}}

Log == INSTANCE TraceLog WITH
    Capacity <- RingSize, begun <- Begun, open <- Open, claimed <- Claimed, log <- Records

\* Whatever threads, evictions, recycled values and id reuse do, the ring
\* buffer is a log in which every call of a thread has at most one record,
\* reserved and submitted within that call, in the order of the calls.
RefinesTraceLog == Log!Spec

(***************************************************************************)
(* What the README, the help text and the tests ask; checked to fail.      *)
(***************************************************************************)
\* Every event line shows a call together with that call's own result.
EventFaithful == \A e \in Submitted : e.call = e.truth

=============================================================================
