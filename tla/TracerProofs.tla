---------------------------- MODULE TracerProofs ----------------------------
(***************************************************************************)
(* Proofs about Tracer for every set of tasks, every map and ring size and *)
(* every set of calls: no bound is used but the positivity of the sizes.   *)
(***************************************************************************)
EXTENDS Tracer, SequenceTheorems, TLAPS

-----------------------------------------------------------------------------
(***************************************************************************)
(* Lemmas about the helpers.                                               *)
(***************************************************************************)
\* NoNode is not a value of an LRU map.
LEMMA NodesAreNat == Nodes \subseteq Nat /\ NoNode \notin Nodes
BY SizeAssumption DEF Nodes, NoNode

Map == [Tid -> Nodes \cup {NoNode}]
Unshared(map) == \A t, u \in Tid : t # u => (map[t] = map[u] => map[t] = NoNode)

\* An LRU update stores its value in node n, and every other entry is kept, or
\* dropped if it had that node; so no two entries share a node.
LEMMA Updated ==
    ASSUME NEW map \in Map, Unshared(map), NEW t \in Tid, NEW n \in Nodes
    PROVE  /\ LruUpdate(map, t, n) \in Map
           /\ Unshared(LruUpdate(map, t, n))
           /\ LruUpdate(map, t, n)[t] = n
           /\ \A u \in Tid \ {t} :
                 LruUpdate(map, t, n)[u] = IF u \in Owners(map, n) THEN NoNode ELSE map[u]
BY NodesAreNat DEF Map, Unshared, LruUpdate, Owners

\* A deletion touches no other entry.
LEMMA Deleted ==
    ASSUME NEW map \in Map, Unshared(map), NEW t \in Tid
    PROVE  /\ Without(map, t) \in Map
           /\ Unshared(Without(map, t))
           /\ Without(map, t)[t] = NoNode
           /\ \A u \in Tid \ {t} : Without(map, t)[u] = map[u]
BY NodesAreNat DEF Map, Unshared, Without

\* Replacing a record of the buffer touches no other record.
LEMMA RecordReplaced ==
    ASSUME NEW i \in 1..Len(events), events \in Seq(Event), NEW e \in Event,
           events' = [events EXCEPT ![i] = e]
    PROVE  /\ events' \in Seq(Event) /\ Len(events') = Len(events)
           /\ \A j \in 1..Len(events) : events'[j] = IF j = i THEN e ELSE events[j]
OBVIOUS

-----------------------------------------------------------------------------
(***************************************************************************)
(* Types.  The constants' assumptions are all the proof needs.             *)
(***************************************************************************)
\* While sys_exit runs, its pointer is one of the map's values, and the call
\* has returned, so it was no exit; sys_enter takes steps for an execve only.
Inside ==
    \A t \in Tid :
        /\ pc[t] \in InSysExit => state[t] \in Nodes /\ ret[t] # Pending /\ call[t].id \notin ExitIds
        /\ pc[t] \in InSysEnter => call[t].id = "execve"

Places == {"free", "user", "kernel"} \cup InSysEnter \cup InSysExit

LEMMA CallNumbered ==
    ASSUME NEW t \in Tid, NEW n \in Nat, NEW k, k \in Kinds \/ k \in Call
    PROVE  NumberedCall(t, n, k) \in Call
BY KindsAssumption DEF NumberedCall, Call, Ids

LEMMA FirstIsCall ==
    ASSUME NEW t \in Tid
    PROVE  FirstExecve(t) \in Call
BY DEF FirstExecve, NumberedCall, Call, Ids

\* The type invariant by groups of variables, for the map lemmas.
TaskTypes ==
    /\ pc \in [Tid -> Places] /\ tgid \in [Tid -> Tid]
    /\ call \in [Tid -> Call] /\ ret \in [Tid -> Tid \cup {NoTid, Pending}]
    /\ doomed \subseteq Tid /\ target_pids \subseteq Tid /\ family \subseteq Tid
    /\ watched \subseteq Tid /\ orphaned \subseteq Tid /\ misread \subseteq Tid /\ late \subseteq Tid
RingTypes == events \in Seq(Event) /\ Len(events) <= RingSize
EntryTypes ==
    /\ node \in [Nodes -> SyscallData] /\ state \in Map
    /\ inflight_syscalls \in Map /\ Unshared(inflight_syscalls)
    /\ stale \subseteq Tid /\ recycled \subseteq Tid /\ evicted \subseteq Tid
SnapshotTypes ==
    /\ captured \in [Nodes -> SUBSET Call] /\ snapshot \in Map
    /\ execve_snapshots \in Map /\ Unshared(execve_snapshots)
    /\ dropped \subseteq Tid /\ mixed \subseteq Tid

LEMMA TypesOf == TypeOK <=> TaskTypes /\ RingTypes /\ EntryTypes /\ SnapshotTypes
BY DEF TypeOK, Places, Map, Unshared, TaskTypes, RingTypes, EntryTypes, SnapshotTypes

LEMMA TypesNext == TypeOK' <=> TaskTypes' /\ RingTypes' /\ EntryTypes' /\ SnapshotTypes'
BY TypesOf, PTL

LEMMA TypeInit == Init => TypeOK
<1> SUFFICES ASSUME Init PROVE TypeOK
  OBVIOUS
<1>1. node \in [Nodes -> SyscallData] /\ call \in [Tid -> Call]
  BY FirstIsCall, RootAssumption DEF Init, SyscallData
<1>2. RingTypes
  BY SizeAssumption DEF Init, RingTypes
<1>3. TaskTypes
  BY <1>1, RootAssumption DEF Init, Places, TaskTypes
<1>4. EntryTypes /\ SnapshotTypes
  BY <1>1 DEF Init, Map, Unshared, EntryTypes, SnapshotTypes
<1> QED BY <1>2, <1>3, <1>4, TypesOf

\* The update of inflight_syscalls keeps the types of what it changes.
LEMMA StoreTyped ==
    ASSUME TypeOK, NEW t \in Tid, NEW c \in Call, NEW n \in Nodes, StoreSyscall(t, c, n)
    PROVE  EntryTypes'
<1>0. EntryTypes
  BY TypesOf
<1>1. [call |-> c, selected |-> IsSelected(c.id)] \in SyscallData
  BY DEF SyscallData, IsSelected
<1>2. node' \in [Nodes -> SyscallData]
  BY <1>0, <1>1 DEF StoreSyscall, EntryTypes
<1>3. inflight_syscalls' \in Map /\ Unshared(inflight_syscalls')
  BY <1>0, Updated DEF StoreSyscall, EntryTypes
<1>4. state' \in Map /\ stale' \subseteq Tid /\ recycled' \subseteq Tid /\ evicted' \subseteq Tid
  BY <1>0 DEF StoreSyscall, Owners, EntryTypes
<1> QED BY <1>2, <1>3, <1>4 DEF EntryTypes, Unshared

\* So does the entry into the kernel.
LEMMA EnterTyped ==
    ASSUME TypeOK, NEW t \in Tid, NEW k \in Kinds, NEW at \in Places, EnterKernel(t, k, at),
           UNCHANGED target_pids
    PROVE  TaskTypes' /\ call'[t] \in Call /\ call'[t] = NumberedCall(t, call[t].n + 1, k)
<1>0. TaskTypes
  BY TypesOf
<1>1. NumberedCall(t, call[t].n + 1, k) \in Call
  <2>1. call[t].n + 1 \in Nat
    BY <1>0 DEF TaskTypes, Call
  <2> QED BY <2>1, CallNumbered
<1> QED BY <1>0, <1>1 DEF EnterKernel, TaskTypes

\* What the two steps of sys_exit make of an unsubmitted record.
LEMMA FilledRecord ==
    ASSUME TypeOK, Inside, NEW t \in Tid, NEW args \in CloneArgs, SysExitFill(t, args)
    PROVE  /\ events' \in Seq(Event) /\ Len(events') = Len(events) /\ Len(events') <= RingSize
           /\ \E i \in 1..Len(events) :
                 /\ events[i].tid = t /\ ~events[i].ready
                 /\ Filled(t, events[i], snapshot'[t], args) \in Event
                 /\ events' = [events EXCEPT ![i] = Filled(t, events[i], snapshot'[t], args)]
<1> DEFINE m == IF node[state[t]].call.id = "execve" THEN SnapshotOf(t) ELSE NoNode
<1>0. snapshot' = [snapshot EXCEPT ![t] = m] /\ snapshot \in Map
  BY TypesOf DEF SysExitFill, EntryTypes, SnapshotTypes
<1>1. snapshot'[t] = m /\ m \in Nodes \cup {NoNode}
  BY <1>0, TypesOf DEF Map, SnapshotTypes, SnapshotOf
<1> HIDE DEF m
<1>2. PICK i \in Unsubmitted(t) : events' = [events EXCEPT ![i] = Filled(t, events[i], m, args)]
  BY DEF SysExitFill, m
<1>3. /\ i \in 1..Len(events) /\ events[i].tid = t /\ ~events[i].ready
      /\ events \in Seq(Event) /\ Len(events) <= RingSize
  BY <1>2, TypesOf DEF Unsubmitted, RingTypes
<1>4. state[t] \in Nodes /\ ret[t] \in Tid \cup {NoTid}
  BY TypesOf DEF SysExitFill, Inside, InSysExit, TaskTypes
<1>5. node[state[t]].call \in Call
  BY <1>4, TypesOf DEF SyscallData, EntryTypes
<1>6. Copied(m) \in SUBSET Call
  BY <1>1, TypesOf DEF Copied, SnapshotTypes
<1>7. (ret[t] # NoTid /\ IsProcessClone(node[state[t]].call, args)) \in BOOLEAN
  BY DEF IsProcessClone
<1>8. events[i] \in Event
  BY <1>3
<1>9. Filled(t, events[i], m, args) \in Event
  BY <1>4, <1>5, <1>6, <1>7, <1>8 DEF Filled, Event
<1> QED BY <1>1, <1>2, <1>3, <1>9, RecordReplaced

LEMMA SubmittedRecord ==
    ASSUME TypeOK, NEW t \in Tid, SysExitSubmit(t)
    PROVE  /\ events' \in Seq(Event) /\ Len(events') = Len(events) /\ Len(events') <= RingSize
           /\ \E i \in 1..Len(events) :
                 /\ events[i].tid = t /\ ~events[i].ready
                 /\ Complete(t, events[i]) \in Event
                 /\ events' = [events EXCEPT ![i] = Complete(t, events[i])]
<1>1. PICK i \in Unsubmitted(t) : events' = [events EXCEPT ![i] = Complete(t, events[i])]
  BY DEF SysExitSubmit
<1>2. /\ i \in 1..Len(events) /\ events[i].tid = t /\ ~events[i].ready
      /\ events \in Seq(Event) /\ Len(events) <= RingSize
  BY <1>1, TypesOf DEF Unsubmitted, RingTypes
<1>3. events[i] \in Event
  BY <1>2
<1>4. Copied(snapshot[t]) \in SUBSET Call
  BY TypesOf DEF Copied, SnapshotTypes, Map
<1>5. (IF events[i].call.id = "execve" THEN Fate(t) ELSE "kept") \in {"kept", "dropped", "mixed"}
  BY DEF Fate
<1>6. events[i].snapshot \cup Copied(snapshot[t]) \in SUBSET Call
  BY <1>3, <1>4 DEF Event
<1>7. (t \in stale) \in BOOLEAN
  OBVIOUS
<1>8. Complete(t, events[i]) \in Event
  BY <1>3, <1>5, <1>6, <1>7 DEF Complete, Event
<1> QED BY <1>1, <1>2, <1>8, RecordReplaced

\* A step of the kernel or of a BPF program keeps the types.
LEMMA TypeStep == TypeOK /\ Inside /\ [Next]_vars => TypeOK'
<1> SUFFICES ASSUME TypeOK, Inside, [Next]_vars PROVE TypeOK'
  OBVIOUS
<1>0. TaskTypes /\ RingTypes /\ EntryTypes /\ SnapshotTypes
  BY TypesOf
<1> USE <1>0
<1> DEFINE Goal == TaskTypes' /\ RingTypes' /\ EntryTypes' /\ SnapshotTypes'
<1> SUFFICES Goal
  BY TypesNext
<1> USE DEF Places, Map
<1>1. CASE UNCHANGED vars
  BY <1>1 DEF vars, kernelVars, mapVars, inflightVars, snapshotVars, historyVars, entryHistory,
              snapshotHistory, familyHistory, TaskTypes, RingTypes, EntryTypes, SnapshotTypes, Unshared
<1>2. ASSUME UNCHANGED <<node, state, inflight_syscalls, stale, recycled, evicted>>
      PROVE  EntryTypes'
  BY <1>2 DEF EntryTypes, Unshared
<1>3. ASSUME UNCHANGED <<captured, snapshot, execve_snapshots, dropped, mixed>>
      PROVE  SnapshotTypes'
  BY <1>3 DEF SnapshotTypes, Unshared
<1>4. CASE ReadEvent
  <2>1. events' \in Seq(Event) /\ Len(events') = Len(events) - 1 /\ Len(events) \in Nat
    BY <1>4 DEF ReadEvent, RingTypes
  <2>2. RingTypes'
    BY <2>1, SizeAssumption DEF RingTypes
  <2>3. TaskTypes' /\ EntryTypes' /\ SnapshotTypes'
    BY <1>2, <1>3, <1>4 DEF ReadEvent, kernelVars, inflightVars, snapshotVars, historyVars,
                            entryHistory, snapshotHistory, familyHistory, TaskTypes
  <2> QED BY <2>2, <2>3
<1>5. ASSUME NEW t \in Tid, Task(t) PROVE Goal
  <2> USE DEF mapVars, inflightVars, snapshotVars, historyVars, entryHistory, snapshotHistory,
              familyHistory
  <2>0. ASSUME UNCHANGED events PROVE RingTypes'
    BY <2>0 DEF RingTypes
  <2>1. ASSUME NEW k \in Kinds, SysEnterIgnored(t, k) PROVE Goal
    <3>1. TaskTypes'
      BY <2>1, EnterTyped DEF SysEnterIgnored
    <3>2. EntryTypes' /\ SnapshotTypes' /\ RingTypes'
      BY <2>0, <2>1, <1>3 DEF SysEnterIgnored, EntryTypes, Unshared
    <3> QED BY <3>1, <3>2
  <2>2. ASSUME NEW k \in Kinds, NEW n \in Nodes, SysEnterTracked(t, k, n) PROVE Goal
    <3>1. TaskTypes' /\ call'[t] \in Call
      BY <2>2, EnterTyped DEF SysEnterTracked
    <3>2. EntryTypes'
      BY <2>2, <3>1, StoreTyped DEF SysEnterTracked
    <3>3. SnapshotTypes' /\ RingTypes'
      BY <2>0, <2>2, <1>3 DEF SysEnterTracked
    <3> QED BY <3>1, <3>2, <3>3
  <2>3. ASSUME NEW k \in Kinds, NEW m \in Nodes, SysEnterExecve(t, k, m) PROVE Goal
    <3>1. TaskTypes'
      BY <2>3, EnterTyped DEF SysEnterExecve, InSysEnter
    <3>2. EntryTypes' /\ RingTypes'
      BY <2>0, <2>3, <1>2 DEF SysEnterExecve
    <3>3. execve_snapshots' \in Map /\ Unshared(execve_snapshots')
      BY <2>3, Updated DEF SysEnterExecve, SnapshotTypes
    <3>4. captured' \in [Nodes -> SUBSET Call] /\ dropped' \subseteq Tid /\ mixed' \subseteq Tid
      BY <2>3 DEF SysEnterExecve, Owners, SnapshotTypes
    <3>5. SnapshotTypes'
      BY <2>3, <3>3, <3>4 DEF SysEnterExecve, SnapshotTypes, Unshared
    <3> QED BY <3>1, <3>2, <3>5
  <2>4. ASSUME AppendPath(t) \/ AppendArgv(t) PROVE Goal
    <3>1. \A m \in Nodes \cup {NoNode} : Appended(t, m) \in [Nodes -> SUBSET Call]
      <4>1. call[t] \in Call /\ captured \in [Nodes -> SUBSET Call]
        BY DEF TaskTypes, SnapshotTypes
      <4> QED BY <4>1, NodesAreNat DEF Appended
    <3>2. captured' \in [Nodes -> SUBSET Call] /\ snapshot' \in Map
      BY <2>4, <3>1 DEF AppendPath, AppendArgv, SnapshotTypes
    <3>3. SnapshotTypes'
      BY <2>4, <3>2 DEF AppendPath, AppendArgv, SnapshotTypes, Unshared
    <3>4. TaskTypes'
      BY <2>4 DEF AppendPath, AppendArgv, InSysEnter, TaskTypes
    <3>5. EntryTypes' /\ RingTypes'
      BY <2>0, <2>4, <1>2 DEF AppendPath, AppendArgv
    <3> QED BY <3>3, <3>4, <3>5
  <2>5. ASSUME NEW n \in Nodes, StoreExecve(t, n) PROVE Goal
    <3>1. StoreSyscall(t, call[t], n) /\ call[t] \in Call
      BY <2>5 DEF StoreExecve, TaskTypes
    <3>2. TaskTypes'
      BY <2>5 DEF StoreExecve, TaskTypes
    <3>3. SnapshotTypes' /\ RingTypes'
      BY <2>0, <2>5, <1>3 DEF StoreExecve
    <3> QED BY <3>1, <3>2, <3>3, StoreTyped
  <2>6. ASSUME NEW c \in Tid, Clone(t, c) PROVE Goal
    <3>1. NumberedCall(c, call[c].n + 1, call[t]) \in Call
      <4>1. call[c].n + 1 \in Nat /\ call[t] \in Call
        BY DEF Call, TaskTypes
      <4> QED BY <4>1, CallNumbered
    <3>2. TaskTypes'
      BY <2>6, <3>1 DEF Clone, NewTask, TaskTypes
    <3>3. SnapshotTypes' /\ RingTypes' /\ EntryTypes'
      BY <2>0, <2>6, <1>3 DEF Clone, NewTask, EntryTypes, Unshared
    <3> QED BY <3>2, <3>3
  <2>7. ASSUME NEW r \in Tid \cup {NoTid}, SysExitLookup(t, r) PROVE Goal
    <3>1. TaskTypes'
      BY <2>7 DEF SysExitLookup, InSysExit, TaskTypes
    <3>2. SnapshotTypes' /\ RingTypes'
      BY <2>0, <2>7, <1>3 DEF SysExitLookup
    <3>3. EntryTypes'
      BY <2>7 DEF SysExitLookup, EntryOf, EntryTypes, Unshared
    <3> QED BY <3>1, <3>2, <3>3
  <2>8. ASSUME NEW args \in CloneArgs, SysExitTrack(t, args) PROVE Goal
    <3>1. target_pids' \subseteq Tid
      <4>1. ret[t] \in Tid \cup {NoTid}
        BY <2>8 DEF SysExitTrack, Inside, InSysExit, TaskTypes
      <4> QED BY <2>8, <4>1 DEF SysExitTrack, TrackChildProcess, ChildOf, TaskTypes
    <3>2. RingTypes'
      <4>1. events' = events \/ (~RingFull /\ events' = Append(events, Reserved(t)))
        BY <2>8 DEF SysExitTrack
      <4>2. Reserved(t) \in Event
        <5>1. call[t] \in Call /\ tgid[t] \in Tid
          BY DEF TaskTypes
        <5> QED BY <5>1 DEF Reserved, Event
      <4>3. CASE ~RingFull /\ events' = Append(events, Reserved(t))
        <5>1. Len(events) < RingSize /\ Len(events) \in Nat
          BY <4>3, SizeAssumption DEF RingFull, RingTypes
        <5>2. events' \in Seq(Event) /\ Len(events') = Len(events) + 1
          BY <4>2, <4>3 DEF RingTypes
        <5> QED BY <5>1, <5>2, SizeAssumption DEF RingTypes
      <4> QED BY <2>0, <4>1, <4>3
    <3>3. inflight_syscalls' \in Map /\ Unshared(inflight_syscalls')
      <4>1. inflight_syscalls' = inflight_syscalls \/ inflight_syscalls' = Without(inflight_syscalls, t)
        BY <2>8 DEF SysExitTrack
      <4> QED BY <4>1, Deleted DEF EntryTypes
    <3>4. EntryTypes'
      BY <2>8, <3>3 DEF SysExitTrack, Return, EntryTypes, Unshared
    <3>5. TaskTypes'
      BY <2>8, <3>1 DEF SysExitTrack, Return, InSysExit, TaskTypes
    <3>6. SnapshotTypes'
      BY <2>8, <1>3 DEF SysExitTrack
    <3> QED BY <3>2, <3>4, <3>5, <3>6
  <2>9. ASSUME NEW args \in CloneArgs, SysExitFill(t, args) PROVE Goal
    <3>1. RingTypes'
      BY <2>9, FilledRecord DEF RingTypes
    <3>2. TaskTypes' /\ EntryTypes'
      BY <2>9, <1>2 DEF SysExitFill, InSysExit, TaskTypes
    <3>3. SnapshotTypes'
      BY <2>9 DEF SysExitFill, SnapshotOf, SnapshotTypes, Unshared
    <3> QED BY <3>1, <3>2, <3>3
  <2>10. ASSUME SysExitSubmit(t) PROVE Goal
    <3>1. RingTypes'
      BY <2>10, SubmittedRecord DEF RingTypes
    <3>2. inflight_syscalls' \in Map /\ Unshared(inflight_syscalls')
      BY <2>10, Deleted DEF SysExitSubmit, EntriesAfterSubmit, EntryTypes
    <3>3. execve_snapshots' \in Map /\ Unshared(execve_snapshots')
      <4>1. execve_snapshots' = execve_snapshots \/ execve_snapshots' = Without(execve_snapshots, t)
        BY <2>10 DEF SysExitSubmit
      <4> QED BY <4>1, Deleted DEF SnapshotTypes
    <3>4. EntryTypes'
      BY <2>10, <3>2 DEF SysExitSubmit, EntryTypes, Unshared
    <3>5. SnapshotTypes'
      BY <2>10, <3>3 DEF SysExitSubmit, SnapshotTypes, Unshared
    <3>6. TaskTypes'
      BY <2>10 DEF SysExitSubmit, InSysExit, TaskTypes
    <3> QED BY <3>1, <3>4, <3>5, <3>6
  <2>11. ASSUME SysExitCleanup(t) \/ SchedProcessExit(t) PROVE Goal
    <3>1. /\ inflight_syscalls' \in Map /\ Unshared(inflight_syscalls')
          /\ execve_snapshots' \in Map /\ Unshared(execve_snapshots')
      <4>1. /\ inflight_syscalls' = inflight_syscalls \/ inflight_syscalls' = Without(inflight_syscalls, t)
            /\ execve_snapshots' = execve_snapshots \/ execve_snapshots' = Without(execve_snapshots, t)
        BY <2>11 DEF SysExitCleanup, SchedProcessExit, CleanupTid
      <4> QED BY <4>1, Deleted DEF EntryTypes, SnapshotTypes
    <3>2. EntryTypes' /\ SnapshotTypes'
      BY <2>11, <3>1 DEF SysExitCleanup, Return, SchedProcessExit, EntryTypes, SnapshotTypes, Unshared
    <3>3. target_pids' \subseteq target_pids /\ late' \subseteq late /\ orphaned' \subseteq Tid
      BY <2>11 DEF SysExitCleanup, SchedProcessExit, TargetsAfterExit, ParentsOf, TaskTypes
    <3>4. TaskTypes' /\ RingTypes'
      BY <2>0, <2>11, <3>3 DEF SysExitCleanup, Return, SchedProcessExit, TaskTypes
    <3> QED BY <3>2, <3>4
  <2>12. ASSUME Spawn(t) \/ Kill(t) PROVE Goal
    <3>1. TaskTypes' /\ RingTypes'
      BY <2>0, <2>12 DEF Spawn, NewTask, Kill, TaskTypes
    <3>2. EntryTypes' /\ SnapshotTypes'
      BY <2>12, <1>3 DEF Spawn, NewTask, Kill, EntryTypes, Unshared
    <3> QED BY <3>1, <3>2
  <2> HIDE DEF Goal
  <2> QED BY <1>5, <2>1, <2>2, <2>3, <2>4, <2>5, <2>6, <2>7, <2>8, <2>9, <2>10, <2>11, <2>12 DEF Task
<1> QED BY <1>1, <1>4, <1>5 DEF Next

LEMMA InsideInit == Init => Inside
BY DEF Init, Inside, InSysExit, InSysEnter

LEMMA InsideStep == TypeOK /\ Inside /\ [Next]_vars => Inside'
<1> SUFFICES ASSUME TypeOK, Inside, [Next]_vars, NEW u \in Tid
             PROVE  /\ pc'[u] \in InSysExit =>
                         state'[u] \in Nodes /\ ret'[u] # Pending /\ call'[u].id \notin ExitIds
                    /\ pc'[u] \in InSysEnter => call'[u].id = "execve"
  BY DEF Inside
<1> DEFINE Goal == /\ pc'[u] \in InSysExit =>
                         state'[u] \in Nodes /\ ret'[u] # Pending /\ call'[u].id \notin ExitIds
                   /\ pc'[u] \in InSysEnter => call'[u].id = "execve"
<1>0. TaskTypes /\ EntryTypes
  BY TypesOf
<1> USE <1>0, NodesAreNat, RootAssumption, NoTidAssumption DEF Map, TaskTypes, EntryTypes, Inside, InSysExit, InSysEnter
<1>1. CASE UNCHANGED <<pc, state, ret, call>>
  BY <1>1
<1>2. ASSUME NEW t \in Tid, Task(t) PROVE Goal
  <2>1. CASE (\E k \in Kinds : SysEnterIgnored(t, k)) \/ (\E k \in Kinds, n \in Nodes : SysEnterTracked(t, k, n))
    BY <2>1 DEF SysEnterIgnored, SysEnterTracked, StoreSyscall, EnterKernel, mapVars, inflightVars
  <2>2. CASE \E k \in Kinds, m \in Nodes : SysEnterExecve(t, k, m)
    BY <2>2 DEF SysEnterExecve, EnterKernel, NumberedCall, inflightVars
  <2>3. CASE AppendPath(t) \/ AppendArgv(t) \/ \E n \in Nodes : StoreExecve(t, n)
    BY <2>3 DEF AppendPath, AppendArgv, StoreExecve, StoreSyscall, inflightVars
  <2>4. CASE \E c \in Tid : Clone(t, c)
    BY <2>4 DEF Clone, NewTask, mapVars, inflightVars, FreeTid, Live
  <2>5. CASE \E r \in Tid \cup {NoTid} : SysExitLookup(t, r)
    BY <2>5 DEF SysExitLookup, EntryOf
  <2>6. CASE \E args \in CloneArgs : SysExitTrack(t, args)
    BY <2>6 DEF SysExitTrack, Return
  <2>7. CASE (\E args \in CloneArgs : SysExitFill(t, args)) \/ SysExitSubmit(t)
    BY <2>7 DEF SysExitFill, SysExitSubmit, inflightVars
  <2>8. CASE SysExitCleanup(t)
    BY <2>8 DEF SysExitCleanup, Return
  <2>9. CASE SchedProcessExit(t)
    BY <2>9 DEF SchedProcessExit
  <2>10. CASE Spawn(t)
    BY <2>10 DEF Spawn, NewTask, mapVars, inflightVars
  <2>11. CASE Kill(t)
    BY <2>11, <1>1 DEF Kill, mapVars, inflightVars
  <2> QED BY <1>2, <2>1, <2>2, <2>3, <2>4, <2>5, <2>6, <2>7, <2>8, <2>9, <2>10, <2>11 DEF Task
<1> QED BY <1>1, <1>2 DEF Next, ReadEvent, vars, kernelVars, mapVars, inflightVars

\* Every variable of the programs and their maps keeps its type: the ring
\* buffer never holds more than RingSize records, and no two tasks share a
\* value of inflight_syscalls or of execve_snapshots.
THEOREM TypeCorrect == Spec => []TypeOK
<1>1. Init => TypeOK /\ Inside
  BY TypeInit, InsideInit
<1>2. TypeOK /\ Inside /\ [Next]_vars => (TypeOK /\ Inside)'
  BY TypeStep, InsideStep
<1> QED BY <1>1, <1>2, PTL DEF Spec

-----------------------------------------------------------------------------
(***************************************************************************)
(* The inductive invariant.  It says of every task outside stale what its  *)
(* map entry and sys_exit's pointer refer to: a value stored for the call  *)
(* the task is in; and of every execve outside mixed what its snapshot and *)
(* the pointers to it refer to: a value only that execve writes.           *)
(***************************************************************************)
Describes(n, t) == node[n].call = call[t] /\ node[n].selected = IsSelected(call[t].id)
Pointing == {"looked_up", "reserved", "filled"}

\* An entry describes the call its task is still in.
Linked ==
    \A t \in Tid : (t \notin stale /\ inflight_syscalls[t] # NoNode) =>
        pc[t] \in {"kernel"} \cup Pointing /\ Describes(inflight_syscalls[t], t)

\* So does sys_exit's pointer, which passed the selected test once a record
\* is reserved; after the submit only the call still matters.
Pointed ==
    \A t \in Tid :
        /\ (pc[t] \in Pointing /\ t \notin stale) => Describes(state[t], t)
        /\ (pc[t] \in {"reserved", "filled"} /\ t \notin stale) => node[state[t]].selected
        /\ (pc[t] = "submitted" /\ t \notin recycled) => node[state[t]].call = call[t]

\* The tasks in an execve whose snapshot is being taken or may be shown.
Snapping(t) ==
    \/ pc[t] \in InSysEnter
    \/ /\ t \notin stale /\ call[t].id = "execve"
       /\ inflight_syscalls[t] # NoNode \/ pc[t] \in Pointing

\* Their snapshot holds the strings of that execve alone, or was dropped.
Captured ==
    \A t \in Tid : (Snapping(t) /\ t \notin mixed) =>
        IF execve_snapshots[t] = NoNode THEN t \in dropped
        ELSE /\ t \notin dropped
             /\ captured[execve_snapshots[t]] = IF pc[t] = "stored" THEN {} ELSE {call[t]}

\* A pointer into execve_snapshots was taken from the task's own entry, which
\* a reader that is not mixed still has; and whoever may still write through
\* one to another's snapshot has mixed it.
Reads(t) == pc[t] = "filled" /\ t \notin stale /\ call[t].id = "execve"
Held ==
    \A t \in Tid :
        /\ (pc[t] = "path" \/ Reads(t)) => execve_snapshots[t] \in {NoNode, snapshot[t]}
        /\ (Reads(t) /\ t \notin mixed) => execve_snapshots[t] = snapshot[t]
        /\ \A u \in Tid \ {t} :
              (pc[u] = "path" /\ execve_snapshots[t] = snapshot[u] /\ snapshot[u] # NoNode) => t \in mixed

\* An unsubmitted record belongs to the one call its task is returning from.
PendingOK ==
    \A i \in 1..Len(events) : ~events[i].ready =>
        /\ pc[events[i].tid] \in {"reserved", "filled"}
        /\ events[i].truth = call[events[i].tid]
        /\ \A j \in 1..Len(events) : (j # i /\ ~events[j].ready) => events[j].tid # events[i].tid

\* Once filled, it holds that call, and of its snapshot what the task reads.
FilledAt(i) ==
    LET t == events[i].tid IN
    (~events[i].ready /\ pc[t] = "filled" /\ t \notin stale) =>
        /\ events[i].call = call[t] /\ IsSelected(call[t].id)
        /\ (call[t].id = "execve" /\ t \notin mixed) =>
             events[i].snapshot = IF snapshot[t] = NoNode THEN {} ELSE {call[t]}
FilledOK == \A i \in 1..Len(events) : FilledAt(i)

\* What has been submitted came from such a pointer.
Intact(e) ==
    /\ e.call = e.truth
    /\ IsSelected(e.call.id)
    /\ e.call.id = "execve" =>
          \/ e.fate = "kept" /\ e.snapshot = {e.call}
          \/ e.fate = "dropped" /\ e.snapshot = {}
          \/ e.fate = "mixed"
EventsOK == \A i \in 1..Len(events) : (events[i].ready /\ ~events[i].suspect) => Intact(events[i])

\* A watched task's entry, if its call needs one, is there until evicted.
Entered(t) == IsSelected(call[t].id) \/ ShouldTrackUnselected(call[t].id)
WatchedOK ==
    \A t \in watched :
        (pc[t] = "kernel" /\ Entered(t)) => inflight_syscalls[t] # NoNode \/ t \in evicted

\* Until a process clone of a family member has returned, the number it is to
\* return names a live process of the family, or the task is orphaned.
Child(c) == c \in family /\ Live(c) /\ tgid[c] = c
Expects(t) ==
    /\ pc[t] \in {"kernel", "looked_up"} /\ call[t].id \in CloneIds /\ ~call[t].thread
    /\ ret[t] \in Tid /\ t \notin orphaned /\ tgid[t] \in family
ChildKnown ==
    \A t \in Tid : (call[t].id = "fork" => ~call[t].thread) /\ (Expects(t) => Child(ret[t]))

IInv ==
    /\ TypeOK /\ Inside
    /\ Linked /\ Pointed
    /\ Captured /\ Held
    /\ PendingOK /\ FilledOK /\ EventsOK
    /\ WatchedOK /\ ChildKnown

LEMMA IInvInit == Init => IInv
<1> SUFFICES ASSUME Init PROVE IInv
  OBVIOUS
<1>1. TypeOK /\ Inside
  BY TypeInit, InsideInit
<1>2. Linked /\ Pointed /\ Captured /\ Held /\ WatchedOK
  BY DEF Init, Linked, Pointed, Pointing, Captured, Snapping, InSysEnter, Held, Reads, WatchedOK
<1>3. PendingOK /\ FilledOK /\ EventsOK
  BY DEF Init, PendingOK, FilledOK, EventsOK
<1>4. ChildKnown
  BY NoTidAssumption, RootAssumption
  DEF Init, ChildKnown, Expects, FirstExecve, NumberedCall, CloneIds
<1> QED BY <1>1, <1>2, <1>3, <1>4 DEF IInv

\* What the update of inflight_syscalls does to the task's own entry and value,
\* and to those of another task.
LEMMA StoredOwn ==
    ASSUME TypeOK, NEW t \in Tid, NEW c \in Call, NEW n \in Nodes, StoreSyscall(t, c, n)
    PROVE  /\ inflight_syscalls'[t] = n /\ t \notin evicted'
           /\ node'[n].call = c /\ node'[n].selected = IsSelected(c.id)
           /\ state' = state
<1>1. EntryTypes
  BY TypesOf
<1> QED BY <1>1, NodesAreNat DEF EntryTypes, Map, StoreSyscall, LruUpdate

LEMMA StoredOther ==
    ASSUME TypeOK, NEW t \in Tid, NEW c \in Call, NEW n \in Nodes, StoreSyscall(t, c, n),
           NEW u \in Tid \ {t}
    PROVE  /\ inflight_syscalls'[u] # NoNode =>
                /\ inflight_syscalls'[u] = inflight_syscalls[u]
                /\ node'[inflight_syscalls[u]] = node[inflight_syscalls[u]]
           /\ inflight_syscalls'[u] = inflight_syscalls[u] \/ u \in evicted'
           /\ state[u] \in Nodes =>
                \/ node'[state[u]] = node[state[u]]
                \/ u \in recycled' /\ (pc[u] # "submitted" => u \in stale')
           /\ u \in stale => u \in stale'
           /\ u \in recycled => u \in recycled'
           /\ u \in evicted => u \in evicted'
<1>1. EntryTypes
  BY TypesOf
<1>2. inflight_syscalls'[u] = IF inflight_syscalls[u] = n THEN NoNode ELSE inflight_syscalls[u]
  BY DEF StoreSyscall, LruUpdate
<1>3. inflight_syscalls[u] \in Nodes \cup {NoNode}
  BY <1>1 DEF EntryTypes, Map
<1>4. \A x \in Nodes \ {n} : node'[x] = node[x]
  BY <1>1 DEF EntryTypes, StoreSyscall
<1>5. state[u] = n => u \in recycled' /\ (pc[u] # "submitted" => u \in stale')
  BY DEF StoreSyscall, Owners
<1>6. inflight_syscalls[u] = n => u \in evicted'
  BY DEF StoreSyscall, Owners
<1> QED BY <1>2, <1>3, <1>4, <1>5, <1>6, NodesAreNat DEF StoreSyscall

\* Entries: only StoreSyscall makes one, and whoever leaves one behind joins
\* stale.
LEMMA LinkedStep == IInv /\ [Next]_vars => Linked'
<1> SUFFICES ASSUME IInv, [Next]_vars, NEW u \in Tid,
                    u \notin stale', inflight_syscalls'[u] # NoNode
             PROVE  /\ pc'[u] \in {"kernel"} \cup Pointing
                    /\ Describes(inflight_syscalls[u], u)'
  BY DEF Linked
<1> DEFINE Goal == pc'[u] \in {"kernel"} \cup Pointing /\ Describes(inflight_syscalls[u], u)'
<1>0. TaskTypes /\ EntryTypes
  BY TypesOf DEF IInv
<1> USE <1>0, NodesAreNat DEF IInv, TaskTypes, EntryTypes, Map, Pointing, Linked, Describes
<1>1. CASE UNCHANGED <<pc, call, stale, inflight_syscalls, node>>
  BY <1>1 DEF IsSelected
<1>2. ASSUME NEW t \in Tid, Task(t) PROVE Goal
  <2>1. CASE \E k \in Kinds : SysEnterIgnored(t, k)
    BY <2>1 DEF SysEnterIgnored, EnterKernel, mapVars, inflightVars
  <2>2. ASSUME NEW k \in Kinds, NEW n \in Nodes, SysEnterTracked(t, k, n) PROVE Goal
    <3>1. EnterKernel(t, k, "kernel") /\ StoreSyscall(t, call'[t], n) /\ UNCHANGED target_pids
      BY <2>2 DEF SysEnterTracked
    <3>2. call'[t] \in Call
      BY <3>1, EnterTyped DEF Places
    <3>3. CASE u = t
      <4>1. pc'[t] = "kernel"
        BY <3>1 DEF EnterKernel
      <4> QED BY <3>1, <3>2, <3>3, <4>1, StoredOwn
    <3>4. CASE u # t
      <4>1. pc'[u] = pc[u] /\ call'[u] = call[u]
        BY <3>1, <3>4 DEF EnterKernel
      <4>2. /\ u \notin stale /\ inflight_syscalls[u] # NoNode
            /\ inflight_syscalls'[u] = inflight_syscalls[u]
            /\ node'[inflight_syscalls[u]] = node[inflight_syscalls[u]]
        BY <3>1, <3>2, <3>4, StoredOther
      <4> QED BY <4>1, <4>2 DEF IsSelected
    <3> QED BY <3>3, <3>4
  <2>3. CASE \E k \in Kinds, m \in Nodes : SysEnterExecve(t, k, m)
    BY <2>3 DEF SysEnterExecve, EnterKernel, inflightVars, entryHistory
  <2>4. CASE AppendPath(t) \/ AppendArgv(t)
    BY <2>4 DEF AppendPath, AppendArgv, inflightVars, historyVars, entryHistory
  <2>5. ASSUME NEW n \in Nodes, StoreExecve(t, n) PROVE Goal
    <3>1. StoreSyscall(t, call[t], n) /\ call[t] \in Call /\ call' = call
      BY <2>5 DEF StoreExecve
    <3>2. CASE u = t
      <4>1. pc'[t] = "kernel"
        BY <2>5 DEF StoreExecve
      <4> QED BY <3>1, <3>2, <4>1, StoredOwn
    <3>3. CASE u # t
      <4>1. pc'[u] = pc[u]
        BY <2>5, <3>3 DEF StoreExecve
      <4>2. /\ u \notin stale /\ inflight_syscalls[u] # NoNode
            /\ inflight_syscalls'[u] = inflight_syscalls[u]
            /\ node'[inflight_syscalls[u]] = node[inflight_syscalls[u]]
        BY <3>1, <3>3, StoredOther
      <4> QED BY <3>1, <4>1, <4>2 DEF IsSelected
    <3> QED BY <3>2, <3>3
  <2>6. CASE \E c \in Tid : Clone(t, c)
    BY <2>6 DEF Clone, NewTask, mapVars, inflightVars, FreeTid, Live
  <2>7. CASE \E r \in Tid \cup {NoTid} : SysExitLookup(t, r)
    <3>1. UNCHANGED <<call, node, inflight_syscalls>> /\ u \notin stale
      BY <2>7 DEF SysExitLookup
    <3>2. pc'[u] \in {pc[u], "looked_up"}
      BY <2>7 DEF SysExitLookup, EntryOf
    <3> QED BY <3>1, <3>2 DEF IsSelected
  <2>8. CASE \E args \in CloneArgs : SysExitTrack(t, args)
    BY <2>8 DEF SysExitTrack, Return, Without
  <2>9. CASE \E args \in CloneArgs : SysExitFill(t, args)
    BY <2>9 DEF SysExitFill, inflightVars, historyVars, entryHistory
  <2>10. CASE SysExitSubmit(t)
    BY <2>10 DEF SysExitSubmit, EntriesAfterSubmit, Without
  <2>11. CASE SysExitCleanup(t)
    BY <2>11 DEF SysExitCleanup, Return, Without
  <2>12. CASE SchedProcessExit(t)
    BY <2>12 DEF SchedProcessExit, Without, CleanupTid
  <2>13. CASE Spawn(t)
    BY <2>13 DEF Spawn, NewTask, mapVars, inflightVars, FreeTid, Live
  <2>14. CASE Kill(t)
    BY <2>14, <1>1 DEF Kill, mapVars, inflightVars, historyVars, entryHistory
  <2> QED BY <1>2, <2>1, <2>2, <2>3, <2>4, <2>5, <2>6, <2>7, <2>8, <2>9, <2>10, <2>11, <2>12,
             <2>13, <2>14 DEF Task
<1> QED BY <1>1, <1>2 DEF Next, ReadEvent, vars, kernelVars, mapVars, inflightVars, historyVars,
                          entryHistory

\* Pointers: whoever stores a value marks every task that points at its node.
LEMMA PointedStep == IInv /\ [Next]_vars => Pointed'
<1> SUFFICES ASSUME IInv, [Next]_vars, NEW u \in Tid
             PROVE  /\ (pc[u] \in Pointing /\ u \notin stale)' => Describes(state[u], u)'
                    /\ (pc[u] \in {"reserved", "filled"} /\ u \notin stale)' => node'[state'[u]].selected
                    /\ (pc[u] = "submitted" /\ u \notin recycled)' => node'[state'[u]].call = call'[u]
  BY DEF Pointed
<1> DEFINE Goal == /\ (pc[u] \in Pointing /\ u \notin stale)' => Describes(state[u], u)'
                   /\ (pc[u] \in {"reserved", "filled"} /\ u \notin stale)' => node'[state'[u]].selected
                   /\ (pc[u] = "submitted" /\ u \notin recycled)' => node'[state'[u]].call = call'[u]
<1>0. TaskTypes /\ EntryTypes
  BY TypesOf DEF IInv
<1> USE <1>0, NodesAreNat DEF IInv, TaskTypes, EntryTypes, Map, Pointing, Pointed, Describes
<1>1. CASE UNCHANGED <<pc, call, stale, recycled, state, node>>
  BY <1>1 DEF IsSelected
<1>2. ASSUME NEW t \in Tid, Task(t) PROVE Goal
  <2>1. CASE \E k \in Kinds : SysEnterIgnored(t, k)
    BY <2>1 DEF SysEnterIgnored, EnterKernel, mapVars, inflightVars
  <2>2. ASSUME NEW n \in Nodes,
               (\E k \in Kinds : SysEnterTracked(t, k, n)) \/ StoreExecve(t, n)
        PROVE  Goal
    <3>1. PICK c \in Call : StoreSyscall(t, c, n)
      <4>1. CASE \E k \in Kinds : SysEnterTracked(t, k, n)
        <5>1. PICK k \in Kinds : EnterKernel(t, k, "kernel") /\ StoreSyscall(t, call'[t], n)
                                 /\ UNCHANGED target_pids
          BY <4>1 DEF SysEnterTracked
        <5>2. call'[t] \in Call
          BY <5>1, EnterTyped DEF Places
        <5> QED BY <5>1, <5>2
      <4>2. CASE StoreExecve(t, n)
        BY <4>2 DEF StoreExecve
      <4> QED BY <2>2, <4>1, <4>2
    <3>2. state' = state
      BY <3>1 DEF StoreSyscall
    <3>3. pc'[t] = "kernel" /\ \A v \in Tid \ {t} : pc'[v] = pc[v] /\ call'[v] = call[v]
      BY <2>2 DEF SysEnterTracked, EnterKernel, StoreExecve
    <3>4. CASE u = t
      BY <3>3, <3>4
    <3>5. CASE u # t /\ pc[u] \in InSysExit
      <4>1. state[u] \in Nodes
        BY <3>5 DEF Inside
      <4>2. /\ \/ node'[state[u]] = node[state[u]]
               \/ u \in recycled' /\ (pc[u] # "submitted" => u \in stale')
            /\ u \in stale => u \in stale'
            /\ u \in recycled => u \in recycled'
        BY <3>1, <3>5, <4>1, StoredOther
      <4> QED BY <3>2, <3>3, <3>5, <4>1, <4>2 DEF IsSelected
    <3>6. CASE u # t /\ pc[u] \notin InSysExit
      BY <3>3, <3>6 DEF InSysExit
    <3> QED BY <3>4, <3>5, <3>6
  <2>3. CASE \E k \in Kinds, m \in Nodes : SysEnterExecve(t, k, m)
    BY <2>3 DEF SysEnterExecve, EnterKernel, inflightVars, entryHistory
  <2>4. CASE AppendPath(t) \/ AppendArgv(t)
    BY <2>4 DEF AppendPath, AppendArgv, inflightVars, historyVars, entryHistory
  <2>6. CASE \E c \in Tid : Clone(t, c)
    BY <2>6 DEF Clone, NewTask, mapVars, inflightVars, FreeTid, Live
  <2>7. CASE \E r \in Tid \cup {NoTid} : SysExitLookup(t, r)
    <3>1. UNCHANGED <<call, node, recycled>> /\ stale \subseteq stale'
      BY <2>7 DEF SysExitLookup
    <3>2. u # t => pc'[u] = pc[u] /\ state'[u] = state[u]
      BY <2>7 DEF SysExitLookup
    <3>3. \/ pc'[t] = "looked_up" /\ state'[t] = inflight_syscalls[t] /\ state'[t] # NoNode
          \/ pc'[t] = "user"
      BY <2>7 DEF SysExitLookup, EntryOf
    <3>4. (pc'[t] = "looked_up" /\ t \notin stale') => Describes(state[t], t)'
      <4> HAVE pc'[t] = "looked_up" /\ t \notin stale'
      <4>1. t \notin stale /\ state'[t] = inflight_syscalls[t] /\ inflight_syscalls[t] # NoNode
        BY <3>1, <3>3
      <4>2. Describes(inflight_syscalls[t], t)
        BY <4>1 DEF Linked
      <4> QED BY <3>1, <4>1, <4>2 DEF IsSelected
    <3>5. CASE u = t
      BY <3>3, <3>4, <3>5
    <3>6. CASE u # t
      BY <3>1, <3>2, <3>6 DEF IsSelected
    <3> QED BY <3>5, <3>6
  <2>8. CASE \E args \in CloneArgs : SysExitTrack(t, args)
    BY <2>8 DEF SysExitTrack, Return, StateSelected
  <2>9. CASE \E args \in CloneArgs : SysExitFill(t, args)
    BY <2>9 DEF SysExitFill, inflightVars, historyVars, entryHistory
  <2>10. CASE SysExitSubmit(t)
    BY <2>10 DEF SysExitSubmit
  <2>11. CASE SysExitCleanup(t)
    BY <2>11 DEF SysExitCleanup, Return
  <2>12. CASE SchedProcessExit(t)
    BY <2>12 DEF SchedProcessExit
  <2>13. CASE Spawn(t)
    BY <2>13 DEF Spawn, NewTask, mapVars, inflightVars
  <2>14. CASE Kill(t)
    BY <2>14, <1>1 DEF Kill, mapVars, inflightVars, historyVars, entryHistory
  <2> QED BY <1>2, <2>1, <2>2, <2>3, <2>4, <2>6, <2>7, <2>8, <2>9, <2>10, <2>11, <2>12,
             <2>13, <2>14 DEF Task
<1> QED BY <1>1, <1>2 DEF Next, ReadEvent, vars, kernelVars, mapVars, inflightVars, historyVars,
                          entryHistory

\* Whoever is given the node of another task's snapshot marks the readers of
\* that node, and itself if somebody may still write to it.
LEMMA SnapshotStored ==
    ASSUME TypeOK, NEW t \in Tid, NEW k \in Kinds, NEW m \in Nodes, SysEnterExecve(t, k, m)
    PROVE  /\ execve_snapshots'[t] = m /\ captured'[m] = {} /\ t \notin dropped'
           /\ \A v \in Tid \ {t} : (snapshot[v] = m /\ pc[v] # "filled") => t \in mixed'
           /\ \A u \in Tid \ {t} :
                 /\ execve_snapshots'[u] = IF execve_snapshots[u] = m THEN NoNode ELSE execve_snapshots[u]
                 /\ execve_snapshots[u] = m => u \in dropped'
                 /\ (execve_snapshots[u] # m /\ u \in dropped') => u \in dropped
                 /\ (snapshot[u] = m /\ pc[u] = "filled") => u \in mixed'
                 /\ u \in mixed => u \in mixed'
           /\ \A n \in Nodes \ {m} : captured'[n] = captured[n]
<1>0. SnapshotTypes
  BY TypesOf
<1>1. /\ execve_snapshots' = LruUpdate(execve_snapshots, t, m)
      /\ captured' = [captured EXCEPT ![m] = {}]
      /\ dropped' = (dropped \cup Owners(execve_snapshots, m)) \ {t}
  BY DEF SysEnterExecve
<1> DEFINE holders == Owners(snapshot, m)
           spoilt == {u \in holders : pc[u] = "filled"}
<1>2. mixed' = spoilt \cup IF holders = spoilt THEN mixed \ {t} ELSE mixed \cup {t}
  BY DEF SysEnterExecve
<1>3. \A v \in Tid \ {t} : (snapshot[v] = m /\ pc[v] # "filled") => t \in mixed'
  <2> TAKE v \in Tid \ {t}
  <2> HAVE snapshot[v] = m /\ pc[v] # "filled"
  <2>1. v \in holders /\ v \notin spoilt
    BY DEF Owners
  <2>2. holders # spoilt
    BY <2>1
  <2> QED BY <1>2, <2>2
<1>4. \A u \in Tid \ {t} : /\ (snapshot[u] = m /\ pc[u] = "filled") => u \in mixed'
                           /\ u \in mixed => u \in mixed'
  BY <1>2 DEF Owners
<1>5. \A u \in Tid \ {t} :
         execve_snapshots'[u] = IF execve_snapshots[u] = m THEN NoNode ELSE execve_snapshots[u]
  BY <1>1 DEF LruUpdate
<1>6. execve_snapshots'[t] = m /\ captured'[m] = {} /\ \A n \in Nodes \ {m} : captured'[n] = captured[n]
  BY <1>0, <1>1 DEF LruUpdate, SnapshotTypes
<1> QED BY <1>1, <1>3, <1>4, <1>5, <1>6 DEF Owners

LEMMA HeldStep == IInv /\ [Next]_vars => Held'
<1> SUFFICES ASSUME IInv, [Next]_vars, NEW u \in Tid, NEW v \in Tid
             PROVE  /\ (pc[u] = "path" \/ Reads(u))' => execve_snapshots'[u] \in {NoNode, snapshot'[u]}
                    /\ (Reads(u) /\ u \notin mixed)' => execve_snapshots'[u] = snapshot'[u]
                    /\ (v # u /\ pc'[v] = "path" /\ execve_snapshots'[u] = snapshot'[v]
                        /\ snapshot'[v] # NoNode) => u \in mixed'
  BY DEF Held
<1> DEFINE Goal == /\ (pc[u] = "path" \/ Reads(u))' => execve_snapshots'[u] \in {NoNode, snapshot'[u]}
                   /\ (Reads(u) /\ u \notin mixed)' => execve_snapshots'[u] = snapshot'[u]
                   /\ (v # u /\ pc'[v] = "path" /\ execve_snapshots'[u] = snapshot'[v]
                       /\ snapshot'[v] # NoNode) => u \in mixed'
<1>0. TaskTypes /\ EntryTypes /\ SnapshotTypes
  BY TypesOf DEF IInv
<1>1. /\ (pc[u] = "path" \/ Reads(u)) => execve_snapshots[u] \in {NoNode, snapshot[u]}
      /\ (Reads(u) /\ u \notin mixed) => execve_snapshots[u] = snapshot[u]
      /\ (v # u /\ pc[v] = "path" /\ execve_snapshots[u] = snapshot[v] /\ snapshot[v] # NoNode) => u \in mixed
  BY DEF IInv, Held
<1> USE <1>0, <1>1, NodesAreNat DEF TaskTypes, EntryTypes, SnapshotTypes, Map, Reads
\* Most steps leave the snapshots alone, and no task becomes a reader or a writer.
<1>2. ASSUME UNCHANGED <<execve_snapshots, snapshot, mixed>>,
             pc'[u] \in {"path", "filled"} => pc'[u] = pc[u] /\ call'[u] = call[u]
                                              /\ (u \in stale => u \in stale'),
             pc'[v] = "path" => pc[v] = "path"
      PROVE  Goal
  BY <1>2
<1>3. ASSUME NEW t \in Tid, Task(t) PROVE Goal
  <2>1. CASE \E k \in Kinds : SysEnterIgnored(t, k)
    BY <2>1, <1>2 DEF SysEnterIgnored, EnterKernel, mapVars, snapshotVars, snapshotHistory
  <2>2. CASE \E k \in Kinds, n \in Nodes : SysEnterTracked(t, k, n)
    BY <2>2, <1>2 DEF SysEnterTracked, EnterKernel, StoreSyscall, snapshotVars, snapshotHistory
  <2>3. ASSUME NEW k \in Kinds, NEW m \in Nodes, SysEnterExecve(t, k, m) PROVE Goal
    <3>1. /\ pc'[t] = "stored" /\ \A x \in Tid \ {t} : pc'[x] = pc[x] /\ call'[x] = call[x]
          /\ snapshot' = snapshot /\ stale' = stale
      BY <2>3 DEF SysEnterExecve, EnterKernel, entryHistory
    <3>2. CASE u = t
      BY <2>3, <3>1, <3>2, SnapshotStored DEF IInv
    <3>3. CASE u # t
      <4>1. /\ execve_snapshots'[u] = IF execve_snapshots[u] = m THEN NoNode ELSE execve_snapshots[u]
            /\ (snapshot[u] = m /\ pc[u] = "filled") => u \in mixed'
            /\ u \in mixed => u \in mixed'
        BY <2>3, <3>3, SnapshotStored DEF IInv
      <4> QED BY <3>1, <3>3, <4>1
    <3> QED BY <3>2, <3>3
  <2>4. CASE AppendPath(t)
    BY <2>4 DEF AppendPath, historyVars, snapshotHistory, entryHistory, Unshared
  <2>5. CASE AppendArgv(t)
    BY <2>5 DEF AppendArgv, historyVars, snapshotHistory, entryHistory
  <2>6. CASE \E n \in Nodes : StoreExecve(t, n)
    BY <2>6, <1>2 DEF StoreExecve, StoreSyscall, snapshotVars, snapshotHistory
  <2>7. CASE \E c \in Tid : Clone(t, c)
    BY <2>7, <1>2 DEF Clone, NewTask, mapVars, snapshotVars, snapshotHistory
  <2>8. CASE \E r \in Tid \cup {NoTid} : SysExitLookup(t, r)
    BY <2>8, <1>2 DEF SysExitLookup, snapshotVars, snapshotHistory
  <2>9. CASE \E args \in CloneArgs : SysExitTrack(t, args)
    BY <2>9, <1>2 DEF SysExitTrack, Return, snapshotVars, snapshotHistory
  <2>10. CASE \E args \in CloneArgs : SysExitFill(t, args)
    <3>1. t \notin stale => node[state[t]].call = call[t]
      BY <2>10 DEF SysExitFill, IInv, Pointed, Pointing, Describes
    <3> QED BY <2>10, <3>1 DEF SysExitFill, SnapshotOf, historyVars, snapshotHistory, entryHistory
  <2>11. CASE SysExitSubmit(t)
    BY <2>11 DEF SysExitSubmit, Without, snapshotHistory
  <2>12. CASE SysExitCleanup(t)
    BY <2>12 DEF SysExitCleanup, Return, Without, snapshotHistory
  <2>13. CASE SchedProcessExit(t)
    BY <2>13 DEF SchedProcessExit, Without, CleanupTid, snapshotHistory
  <2>14. CASE Spawn(t)
    BY <2>14, <1>2 DEF Spawn, NewTask, mapVars, snapshotVars, snapshotHistory
  <2>15. CASE Kill(t)
    BY <2>15, <1>2 DEF Kill, mapVars, snapshotVars, historyVars, snapshotHistory, entryHistory
  <2> QED BY <1>3, <2>1, <2>2, <2>3, <2>4, <2>5, <2>6, <2>7, <2>8, <2>9, <2>10, <2>11, <2>12,
             <2>13, <2>14, <2>15 DEF Task
<1>4. CASE UNCHANGED vars \/ ReadEvent
  BY <1>2, <1>4 DEF ReadEvent, vars, kernelVars, mapVars, snapshotVars, historyVars,
                    snapshotHistory, entryHistory
<1> QED BY <1>3, <1>4 DEF Next

\* Of the execves that may still be shown, every snapshot is dropped, mixed, or
\* holds what its own sys_enter wrote, and nothing before it does.
LEMMA CapturedStep == IInv /\ [Next]_vars => Captured'
<1> DEFINE Own(u) == IF execve_snapshots[u] = NoNode THEN u \in dropped
                     ELSE /\ u \notin dropped
                          /\ captured[execve_snapshots[u]] = IF pc[u] = "stored" THEN {} ELSE {call[u]}
<1> SUFFICES ASSUME IInv, [Next]_vars, NEW u \in Tid, Snapping(u)', u \notin mixed'
             PROVE  Own(u)'
  BY DEF Captured
<1>0. TaskTypes /\ EntryTypes /\ SnapshotTypes
  BY TypesOf DEF IInv
<1>1. (Snapping(u) /\ u \notin mixed) => Own(u)
  BY DEF IInv, Captured
<1>2. u \notin stale /\ inflight_syscalls[u] # NoNode => pc[u] \in {"kernel"} \cup Pointing
  BY DEF IInv, Linked
<1> USE <1>0, <1>1, <1>2, NodesAreNat
    DEF TaskTypes, EntryTypes, SnapshotTypes, Map, Snapping, InSysEnter, Pointing
\* Most steps leave the snapshots alone, and no task comes to show one.
<1>3. ASSUME UNCHANGED <<execve_snapshots, captured, dropped, mixed>>, Snapping(u),
             call'[u] = call[u], (pc'[u] = "stored") = (pc[u] = "stored")
      PROVE  Own(u)'
  BY <1>3
<1>4. ASSUME NEW t \in Tid, Task(t) PROVE Own(u)'
  <2>1. CASE \E k \in Kinds : SysEnterIgnored(t, k)
    <3>1. UNCHANGED <<execve_snapshots, captured, dropped, mixed, stale, inflight_syscalls>>
      BY <2>1 DEF SysEnterIgnored, mapVars, inflightVars, snapshotVars, snapshotHistory
    <3>2. u # t
      BY <2>1, <3>1 DEF SysEnterIgnored, EnterKernel
    <3> QED BY <2>1, <3>1, <3>2, <1>3 DEF SysEnterIgnored, EnterKernel
  <2>2. ASSUME NEW k \in Kinds, NEW n \in Nodes, SysEnterTracked(t, k, n) PROVE Own(u)'
    <3>1. EnterKernel(t, k, "kernel") /\ k.id # "execve" /\ StoreSyscall(t, call'[t], n)
          /\ UNCHANGED <<target_pids, execve_snapshots, captured, dropped, mixed>>
      BY <2>2 DEF SysEnterTracked, snapshotVars, snapshotHistory
    <3>2. call'[t] \in Call /\ call'[t] = NumberedCall(t, call[t].n + 1, k)
      BY <3>1, EnterTyped DEF Places, IInv
    <3>3. u # t
      BY <3>1, <3>2 DEF EnterKernel, NumberedCall
    <3>4. (u \in stale => u \in stale') /\ (inflight_syscalls'[u] # NoNode => inflight_syscalls[u] # NoNode)
      BY <3>1, <3>2, <3>3, StoredOther DEF IInv
    <3> QED BY <3>1, <3>3, <3>4, <1>3 DEF EnterKernel
  <2>3. ASSUME NEW k \in Kinds, NEW m \in Nodes, SysEnterExecve(t, k, m) PROVE Own(u)'
    <3>1. /\ pc'[t] = "stored" /\ \A x \in Tid \ {t} : pc'[x] = pc[x] /\ call'[x] = call[x]
          /\ stale' = stale /\ inflight_syscalls' = inflight_syscalls
      BY <2>3 DEF SysEnterExecve, EnterKernel, entryHistory, inflightVars
    <3>2. CASE u = t
      BY <2>3, <3>1, <3>2, SnapshotStored DEF IInv
    <3>3. CASE u # t
      <4>1. Snapping(u) /\ u \notin mixed
        BY <2>3, <3>1, <3>3, SnapshotStored DEF IInv
      <4>2. /\ execve_snapshots'[u] = IF execve_snapshots[u] = m THEN NoNode ELSE execve_snapshots[u]
            /\ execve_snapshots[u] = m => u \in dropped'
            /\ (execve_snapshots[u] # m /\ u \in dropped') => u \in dropped
            /\ \A n \in Nodes \ {m} : captured'[n] = captured[n]
        BY <2>3, <3>3, SnapshotStored DEF IInv
      <4>3. CASE execve_snapshots[u] = m
        BY <4>2, <4>3
      <4>4. CASE execve_snapshots[u] = NoNode
        <5>1. u \in dropped
          BY <4>1, <4>4
        <5>2. u \in dropped'
          BY <2>3, <3>3, <5>1 DEF SysEnterExecve
        <5> QED BY <4>2, <4>4, <5>2
      <4>5. CASE execve_snapshots[u] \in Nodes \ {m}
        BY <3>1, <3>3, <4>1, <4>2, <4>5
      <4> QED BY <4>3, <4>4, <4>5
    <3> QED BY <3>2, <3>3
  <2>4. CASE AppendPath(t)
    <3>1. /\ pc[t] = "stored" /\ pc' = [pc EXCEPT ![t] = "path"] /\ call' = call
          /\ captured' = Appended(t, execve_snapshots[t])
          /\ UNCHANGED <<execve_snapshots, dropped, mixed, stale, inflight_syscalls>>
      BY <2>4 DEF AppendPath, inflightVars, historyVars, entryHistory, snapshotHistory
    <3>2. CASE u = t
      BY <3>1, <3>2 DEF Appended
    <3>3. CASE u # t
      <4>1. Snapping(u) /\ pc'[u] = pc[u]
        BY <3>1, <3>3
      <4>2. execve_snapshots[u] # NoNode => captured'[execve_snapshots[u]] = captured[execve_snapshots[u]]
        BY <3>1, <3>3 DEF Appended, Unshared
      <4> QED BY <3>1, <4>1, <4>2
    <3> QED BY <3>2, <3>3
  <2>5. CASE AppendArgv(t)
    <3>1. /\ pc[t] = "path" /\ pc' = [pc EXCEPT ![t] = "argv"] /\ call' = call
          /\ captured' = Appended(t, snapshot[t])
          /\ UNCHANGED <<execve_snapshots, dropped, mixed, stale, inflight_syscalls>>
      BY <2>5 DEF AppendArgv, inflightVars, historyVars, entryHistory, snapshotHistory
    <3>2. CASE u = t
      <4>1. execve_snapshots[t] \in {NoNode, snapshot[t]}
        BY <3>1 DEF IInv, Held
      <4> QED BY <3>1, <3>2, <4>1 DEF Appended
    <3>3. CASE u # t
      <4>1. Snapping(u) /\ pc'[u] = pc[u]
        BY <3>1, <3>3
      <4>2. execve_snapshots[u] # NoNode => execve_snapshots[u] # snapshot[t]
        BY <3>1, <3>3 DEF IInv, Held
      <4>3. execve_snapshots[u] # NoNode => captured'[execve_snapshots[u]] = captured[execve_snapshots[u]]
        BY <3>1, <4>2 DEF Appended
      <4> QED BY <3>1, <4>1, <4>3
    <3> QED BY <3>2, <3>3
  <2>6. ASSUME NEW n \in Nodes, StoreExecve(t, n) PROVE Own(u)'
    <3>1. /\ StoreSyscall(t, call[t], n) /\ call[t] \in Call /\ call' = call
          /\ pc[t] = "argv" /\ pc' = [pc EXCEPT ![t] = "kernel"]
          /\ UNCHANGED <<execve_snapshots, captured, dropped, mixed>>
      BY <2>6 DEF StoreExecve, snapshotVars, snapshotHistory
    <3>2. CASE u = t
      BY <3>1, <3>2, <1>3
    <3>3. CASE u # t
      <4>1. (u \in stale => u \in stale') /\ (inflight_syscalls'[u] # NoNode => inflight_syscalls[u] # NoNode)
        BY <3>1, <3>3, StoredOther DEF IInv
      <4> QED BY <3>1, <3>3, <4>1, <1>3
    <3> QED BY <3>2, <3>3
  <2>7. ASSUME NEW c \in Tid, Clone(t, c) PROVE Own(u)'
    <3>1. /\ pc' = [pc EXCEPT ![c] = "kernel"] /\ pc[c] = "free" /\ call[t].id \in CloneIds
          /\ call' = [call EXCEPT ![c] = NumberedCall(c, call[c].n + 1, call[t])]
          /\ UNCHANGED <<execve_snapshots, captured, dropped, mixed, stale, inflight_syscalls>>
      BY <2>7 DEF Clone, NewTask, FreeTid, Live, mapVars, inflightVars, snapshotVars, snapshotHistory
    <3> QED BY <3>1, <1>3
  <2>8. CASE \E r \in Tid \cup {NoTid} : SysExitLookup(t, r)
    <3>1. /\ UNCHANGED <<execve_snapshots, captured, dropped, mixed, inflight_syscalls, call>>
          /\ stale \subseteq stale'
      BY <2>8 DEF SysExitLookup, snapshotVars, snapshotHistory
    <3>2. \/ pc'[u] = pc[u]
          \/ pc[u] = "kernel" /\ pc'[u] = "looked_up" /\ inflight_syscalls[u] # NoNode
          \/ pc[u] = "kernel" /\ pc'[u] = "user"
      BY <2>8 DEF SysExitLookup, EntryOf
    <3> QED BY <3>1, <3>2, <1>3
  <2>9. CASE \E args \in CloneArgs : SysExitTrack(t, args)
    <3>1. UNCHANGED <<execve_snapshots, captured, dropped, mixed, call>>
      BY <2>9 DEF SysExitTrack, snapshotVars, snapshotHistory
    <3>2. CASE u = t
      BY <2>9, <3>1, <3>2, <1>3 DEF SysExitTrack, Return, Without
    <3>3. CASE u # t
      <4>1. pc'[u] = pc[u] /\ inflight_syscalls'[u] = inflight_syscalls[u] /\ (u \in stale => u \in stale')
        BY <2>9, <3>3 DEF SysExitTrack, Return, Without
      <4> QED BY <3>1, <4>1, <1>3
    <3> QED BY <3>2, <3>3
  <2>10. CASE \E args \in CloneArgs : SysExitFill(t, args)
    BY <2>10, <1>3 DEF SysExitFill, inflightVars, historyVars, entryHistory, snapshotHistory
  <2>11. CASE SysExitSubmit(t) \/ SysExitCleanup(t) \/ SchedProcessExit(t)
    <3>1. /\ UNCHANGED <<captured, dropped, mixed, call>>
          /\ pc'[t] \in {"submitted", "user", "free"}
          /\ inflight_syscalls'[t] # NoNode => inflight_syscalls[t] # NoNode
          /\ (t \in stale /\ inflight_syscalls'[t] # NoNode) => t \in stale'
      BY <2>11 DEF SysExitSubmit, EntriesAfterSubmit, SysExitCleanup, Return, SchedProcessExit,
                   Without, CleanupTid, snapshotHistory
    <3>2. \A x \in Tid \ {t} :
             /\ pc'[x] = pc[x] /\ execve_snapshots'[x] = execve_snapshots[x]
             /\ inflight_syscalls'[x] = inflight_syscalls[x] /\ (x \in stale => x \in stale')
      BY <2>11 DEF SysExitSubmit, EntriesAfterSubmit, SysExitCleanup, Return, SchedProcessExit,
                   Without, CleanupTid
    <3>3. u # t
      <4>1. CASE SysExitSubmit(t)
        BY <4>1 DEF SysExitSubmit, EntriesAfterSubmit, Without
      <4>2. CASE SysExitCleanup(t)
        <5>1. pc[t] = "submitted" /\ stale' = stale
          BY <4>2 DEF SysExitCleanup
        <5> QED BY <3>1, <5>1
      <4>3. CASE SchedProcessExit(t)
        BY <4>3 DEF SchedProcessExit, Without, CleanupTid
      <4> QED BY <2>11, <4>1, <4>2, <4>3
    <3> QED BY <3>1, <3>2, <3>3
  <2>12. CASE Spawn(t)
    <3>1. /\ pc' = [pc EXCEPT ![t] = "user"] /\ pc[t] = "free" /\ call' = call
          /\ UNCHANGED <<execve_snapshots, captured, dropped, mixed, stale, inflight_syscalls>>
      BY <2>12 DEF Spawn, NewTask, FreeTid, Live, mapVars, inflightVars, snapshotVars, snapshotHistory
    <3> QED BY <3>1, <1>3
  <2>13. CASE Kill(t)
    BY <2>13, <1>3 DEF Kill, mapVars, inflightVars, snapshotVars, historyVars, entryHistory, snapshotHistory
  <2> QED BY <1>4, <2>1, <2>2, <2>3, <2>4, <2>5, <2>6, <2>7, <2>8, <2>9, <2>10, <2>11, <2>12, <2>13
      DEF Task
<1>5. CASE UNCHANGED vars \/ ReadEvent
  BY <1>3, <1>5 DEF ReadEvent, vars, kernelVars, mapVars, inflightVars, snapshotVars, historyVars,
                    entryHistory, snapshotHistory
<1> QED BY <1>4, <1>5 DEF Next

\* The records.  Most steps leave them alone, or read the first, and leave the
\* task that fills one where it is.
RecordsOK == PendingOK /\ FilledOK /\ EventsOK

\* Every record has the type of an event.
LEMMA EventAt ==
    ASSUME events \in Seq(Event)
    PROVE  \A i \in 1..Len(events) : events[i] \in Event /\ events[i].tid \in Tid
<1> SUFFICES ASSUME NEW i \in 1..Len(events)
             PROVE  events[i] \in Event /\ events[i].tid \in Tid
  OBVIOUS
<1>1. events[i] \in Event
  OBVIOUS
<1> QED BY <1>1 DEF Event

\* What a step does to a task that has a record to submit: nothing.
Undisturbed(u) ==
    pc[u] \in {"reserved", "filled"} =>
        /\ pc'[u] = pc[u] /\ call'[u] = call[u] /\ snapshot'[u] = snapshot[u]
        /\ (u \in stale => u \in stale') /\ (u \in mixed => u \in mixed')

LEMMA RecordsKept ==
    ASSUME IInv, \A u \in Tid : Undisturbed(u),
           \/ events' = events
           \/ events # <<>> /\ events' = Tail(events)
    PROVE  RecordsOK'
<1>0. events \in Seq(Event) /\ \A i \in 1..Len(events) : events[i].tid \in Tid
  BY TypesOf, EventAt DEF IInv, RingTypes
<1>1. PICK d \in {0, 1} :
          /\ Len(events') = Len(events) - d
          /\ \A i \in 1..Len(events') : i + d \in 1..Len(events) /\ events'[i] = events[i + d]
  <2>1. CASE events' = events
    BY <1>0, <2>1
  <2>2. CASE events # <<>> /\ events' = Tail(events)
    <3>1. Len(events') = Len(events) - 1 /\ \A i \in 1..Len(events') : events'[i] = events[i + 1]
      BY <1>0, <2>2
    <3>2. Len(events) \in Nat
      BY <1>0
    <3> QED BY <3>1, <3>2
  <2> QED BY <2>1, <2>2
<1>2. ASSUME NEW i \in 1..Len(events'), ~events'[i].ready
      PROVE  /\ pc'[events'[i].tid] \in {"reserved", "filled"}
             /\ events'[i].truth = call'[events'[i].tid]
             /\ \A j \in 1..Len(events') :
                   (j # i /\ ~events'[j].ready) => events'[j].tid # events'[i].tid
  <2>1. i + d \in 1..Len(events) /\ events'[i] = events[i + d]
    BY <1>1
  <2>2. Undisturbed(events[i + d].tid)
    BY <1>0, <2>1
  <2>3. /\ pc[events[i + d].tid] \in {"reserved", "filled"} /\ events[i + d].truth = call[events[i + d].tid]
        /\ \A j \in 1..Len(events) :
              (j # i + d /\ ~events[j].ready) => events[j].tid # events[i + d].tid
    BY <1>2, <2>1 DEF IInv, PendingOK
  <2>4. \A j \in 1..Len(events') : j # i => j + d # i + d
    OBVIOUS
  <2> QED BY <1>1, <2>1, <2>2, <2>3, <2>4 DEF Undisturbed
<1>3. ASSUME NEW i \in 1..Len(events')
      PROVE  FilledAt(i)'
  <2>1. i + d \in 1..Len(events) /\ events'[i] = events[i + d]
    BY <1>1
  <2> DEFINE t == events[i + d].tid
  <2>2. Undisturbed(t)
    BY <1>0, <2>1
  <2>3. ~events[i + d].ready => pc[t] \in {"reserved", "filled"}
    BY <2>1 DEF IInv, PendingOK
  <2>4. FilledAt(i + d)
    BY <2>1 DEF IInv, FilledOK
  <2>5. ASSUME ~events[i + d].ready, pc'[t] = "filled", t \notin stale'
        PROVE  /\ pc[t] = "filled" /\ t \notin stale /\ call'[t] = call[t] /\ snapshot'[t] = snapshot[t]
               /\ t \in mixed => t \in mixed'
    <3>1. pc[t] \in {"reserved", "filled"}
      BY <2>3, <2>5
    <3> QED BY <2>2, <2>5, <3>1 DEF Undisturbed
  <2> HIDE DEF t
  <2> QED BY <2>1, <2>4, <2>5 DEF t, FilledAt, IsSelected
<1>4. EventsOK'
  <2> SUFFICES ASSUME NEW i \in 1..Len(events'), events'[i].ready, ~events'[i].suspect
               PROVE  Intact(events'[i])
    BY DEF EventsOK, Intact, IsSelected
  <2> QED BY <1>1 DEF IInv, EventsOK
<1> QED BY <1>2, <1>3, <1>4 DEF RecordsOK, PendingOK, FilledOK

\* The reservation adds the only unsubmitted record of its task.
LEMMA RecordReserved ==
    ASSUME IInv, NEW t \in Tid, NEW args \in CloneArgs, SysExitTrack(t, args),
           events' = Append(events, Reserved(t)), pc' = [pc EXCEPT ![t] = "reserved"]
    PROVE  RecordsOK'
<1>0. TaskTypes /\ events \in Seq(Event) /\ \A i \in 1..Len(events) : events[i].tid \in Tid
  BY TypesOf, EventAt DEF IInv, RingTypes
<1>1. /\ Len(events') = Len(events) + 1 /\ events'[Len(events) + 1] = Reserved(t)
      /\ \A i \in 1..Len(events) : events'[i] = events[i]
      /\ \A i \in 1..Len(events') : i \in 1..Len(events) \/ i = Len(events) + 1
  BY <1>0
<1>2. Reserved(t).tid = t /\ Reserved(t).truth = call[t] /\ ~Reserved(t).ready
  BY DEF Reserved
<1>3. pc[t] = "looked_up" /\ UNCHANGED <<call, snapshot, mixed, stale>>
  <2>1. Reserved(t) \in Event
    BY <1>0 DEF Reserved, Event, TaskTypes
  <2>2. events' # events
    BY <1>0, <1>1
  <2> QED BY <2>2 DEF SysExitTrack, snapshotVars, snapshotHistory
<1>4. \A i \in 1..Len(events) : ~events[i].ready => events[i].tid # t
  BY <1>3 DEF IInv, PendingOK
<1>5. \A u \in Tid \ {t} : pc'[u] = pc[u]
  OBVIOUS
<1>6. pc'[t] = "reserved"
  BY <1>0 DEF TaskTypes
<1>7. PendingOK'
  <2> SUFFICES ASSUME NEW i \in 1..Len(events'), ~events'[i].ready
               PROVE  /\ pc'[events'[i].tid] \in {"reserved", "filled"}
                      /\ events'[i].truth = call'[events'[i].tid]
                      /\ \A j \in 1..Len(events') :
                            (j # i /\ ~events'[j].ready) => events'[j].tid # events'[i].tid
    BY DEF PendingOK
  <2>1. CASE i \in 1..Len(events)
    <3>1. events'[i] = events[i] /\ events[i].tid \in Tid \ {t}
      BY <1>0, <1>1, <1>4, <2>1
    <3>2. /\ pc[events[i].tid] \in {"reserved", "filled"} /\ events[i].truth = call[events[i].tid]
          /\ \A j \in 1..Len(events) : (j # i /\ ~events[j].ready) => events[j].tid # events[i].tid
      BY <2>1, <3>1 DEF IInv, PendingOK
    <3> QED BY <1>1, <1>2, <1>3, <1>5, <3>1, <3>2
  <2>2. CASE i = Len(events) + 1
    BY <1>1, <1>2, <1>3, <1>4, <1>6, <2>2
  <2> QED BY <1>1, <2>1, <2>2
<1>8. FilledOK'
  <2> SUFFICES ASSUME NEW i \in 1..Len(events'), ~events'[i].ready,
                      pc'[events'[i].tid] = "filled"
               PROVE  FilledAt(i)'
    BY DEF FilledOK, FilledAt
  <2>1. i \in 1..Len(events) /\ events'[i] = events[i] /\ events[i].tid \in Tid \ {t}
    BY <1>0, <1>1, <1>2, <1>4, <1>6
  <2>2. pc'[events[i].tid] = pc[events[i].tid]
    BY <1>5, <2>1
  <2>3. FilledAt(i)
    BY <2>1 DEF IInv, FilledOK
  <2> QED BY <1>3, <2>1, <2>2, <2>3 DEF FilledAt, IsSelected
<1>9. EventsOK'
  <2> SUFFICES ASSUME NEW i \in 1..Len(events'), events'[i].ready, ~events'[i].suspect
               PROVE  Intact(events'[i])
    BY DEF EventsOK, Intact, IsSelected
  <2> QED BY <1>1, <1>2 DEF IInv, EventsOK
<1> QED BY <1>7, <1>8, <1>9 DEF RecordsOK

\* A step of t that only changes its own unsubmitted record, the i-th, leaves
\* the others what they were.
LEMMA OtherRecords ==
    ASSUME IInv, NEW t \in Tid, NEW i \in 1..Len(events), events[i].tid = t, ~events[i].ready,
           NEW e \in Event, events' = [events EXCEPT ![i] = e], e.tid = t,
           e.ready \/ (e.truth = events[i].truth /\ pc'[t] \in {"reserved", "filled"}),
           UNCHANGED <<call, mixed>>,
           \A u \in Tid \ {t} : pc'[u] = pc[u] /\ snapshot'[u] = snapshot[u] /\ (u \in stale => u \in stale'),
           FilledAt(i)', (e.ready /\ ~e.suspect) => Intact(e)
    PROVE  RecordsOK'
<1>0. /\ Len(events') = Len(events)
      /\ \A j \in 1..Len(events) : events'[j] = (IF j = i THEN e ELSE events[j]) /\ events[j].tid \in Tid
  <2>1. events \in Seq(Event)
    BY TypesOf DEF IInv, RingTypes
  <2>2. Len(events') = Len(events) /\ \A j \in 1..Len(events) : events'[j] = IF j = i THEN e ELSE events[j]
    BY <2>1, RecordReplaced
  <2> QED BY <2>1, <2>2, EventAt
<1>1. \A j \in 1..Len(events) : (j # i /\ ~events[j].ready) => events[j].tid # t
  BY DEF IInv, PendingOK
<1>2. PendingOK'
  <2> SUFFICES ASSUME NEW j \in 1..Len(events), ~events'[j].ready
               PROVE  /\ pc'[events'[j].tid] \in {"reserved", "filled"}
                      /\ events'[j].truth = call'[events'[j].tid]
                      /\ \A k \in 1..Len(events) :
                            (k # j /\ ~events'[k].ready) => events'[k].tid # events'[j].tid
    BY <1>0 DEF PendingOK
  <2>1. CASE j = i
    <3>1. events'[j] = e /\ ~e.ready
      BY <1>0, <2>1
    <3>2. events[i].truth = call[t]
      BY DEF IInv, PendingOK
    <3>3. \A k \in 1..Len(events) : (k # i /\ ~events'[k].ready) => events'[k].tid # t
      BY <1>0, <1>1
    <3> QED BY <2>1, <3>1, <3>2, <3>3
  <2>2. CASE j # i
    <3>1. events'[j] = events[j] /\ ~events[j].ready /\ events[j].tid \in Tid \ {t}
      BY <1>0, <1>1, <2>2
    <3>2. pc'[events[j].tid] = pc[events[j].tid]
      BY <3>1
    <3>3. /\ pc[events[j].tid] \in {"reserved", "filled"} /\ events[j].truth = call[events[j].tid]
          /\ \A k \in 1..Len(events) : (k # j /\ ~events[k].ready) => events[k].tid # events[j].tid
      BY <3>1 DEF IInv, PendingOK
    <3>4. \A k \in 1..Len(events) : (k # j /\ ~events'[k].ready) => events'[k].tid # events[j].tid
      BY <1>0, <3>1, <3>3
    <3> QED BY <3>1, <3>2, <3>3, <3>4
  <2> QED BY <2>1, <2>2
<1>3. ASSUME NEW j \in 1..Len(events), j # i PROVE FilledAt(j)'
  <2>1. events'[j] = events[j] /\ FilledAt(j) /\ (~events[j].ready => events[j].tid \in Tid \ {t})
    BY <1>0, <1>1, <1>3 DEF IInv, FilledOK
  <2>2. ~events[j].ready => /\ pc'[events[j].tid] = pc[events[j].tid]
                            /\ snapshot'[events[j].tid] = snapshot[events[j].tid]
                            /\ events[j].tid \in stale => events[j].tid \in stale'
    BY <2>1
  <2> DEFINE u == events[j].tid
  <2>3. ASSUME ~events[j].ready, pc'[u] = "filled", u \notin stale'
        PROVE  /\ events[j].call = call[u] /\ IsSelected(call[u].id)
               /\ (call[u].id = "execve" /\ u \notin mixed) =>
                    events[j].snapshot = IF snapshot'[u] = NoNode THEN {} ELSE {call[u]}
    BY <2>1, <2>2, <2>3 DEF FilledAt
  <2>4. call' = call /\ mixed' = mixed
    OBVIOUS
  <2>5. FilledAt(j)' =
          ((~events'[j].ready /\ pc'[events'[j].tid] = "filled" /\ events'[j].tid \notin stale') =>
            /\ events'[j].call = call'[events'[j].tid] /\ IsSelected(call'[events'[j].tid].id)
            /\ (call'[events'[j].tid].id = "execve" /\ events'[j].tid \notin mixed') =>
                 events'[j].snapshot = IF snapshot'[events'[j].tid] = NoNode THEN {}
                                       ELSE {call'[events'[j].tid]})
    BY DEF FilledAt, IsSelected
  <2> QED BY <2>1, <2>3, <2>4, <2>5
<1>4. FilledOK'
  BY <1>0, <1>3 DEF FilledOK
<1>5. EventsOK'
  <2> SUFFICES ASSUME NEW j \in 1..Len(events), events'[j].ready, ~events'[j].suspect
               PROVE  Intact(events'[j])
    BY <1>0 DEF EventsOK, Intact, IsSelected
  <2> QED BY <1>0 DEF IInv, EventsOK
<1> QED BY <1>2, <1>4, <1>5 DEF RecordsOK

\* The record is filled with the task's own call, and of its own snapshot.
LEMMA RecordFilled ==
    ASSUME IInv, NEW t \in Tid, NEW args \in CloneArgs, SysExitFill(t, args)
    PROVE  RecordsOK'
<1>0. TaskTypes /\ SnapshotTypes /\ NoNode \notin Nodes
  BY TypesOf, NodesAreNat DEF IInv
<1> DEFINE m == snapshot'[t]
<1>1. PICK i \in 1..Len(events) :
          /\ events[i].tid = t /\ ~events[i].ready
          /\ events' = [events EXCEPT ![i] = Filled(t, events[i], m, args)]
          /\ Filled(t, events[i], m, args) \in Event
  BY FilledRecord DEF IInv
<1> DEFINE e == Filled(t, events[i], m, args)
<1>2. /\ Len(events') = Len(events) /\ events'[i] = e
      /\ \A j \in 1..Len(events) : j # i => events'[j] = events[j]
  BY <1>1, RecordReplaced, TypesOf DEF IInv, RingTypes
<1>3. /\ e.tid = t /\ ~e.ready /\ e.truth = events[i].truth
      /\ e.call = node[state[t]].call /\ e.snapshot = Copied(m)
  <2>1. events[i] \in Event
    BY TypesOf, EventAt DEF IInv, RingTypes
  <2> QED BY <1>1, <2>1 DEF Filled, Event
<1>4. /\ pc[t] = "reserved" /\ pc'[t] = "filled" /\ UNCHANGED <<call, mixed, captured>> /\ stale' = stale
      /\ m = IF node[state[t]].call.id = "execve" THEN execve_snapshots[t] ELSE NoNode
      /\ \A u \in Tid \ {t} : pc'[u] = pc[u] /\ snapshot'[u] = snapshot[u]
  BY <1>0 DEF SysExitFill, SnapshotOf, TaskTypes, SnapshotTypes, Map, historyVars, entryHistory, snapshotHistory
<1>5. e.truth = call[t]
  BY <1>1, <1>3 DEF IInv, PendingOK
<1>6. t \notin stale => node[state[t]].call = call[t] /\ IsSelected(call[t].id)
  BY <1>4 DEF IInv, Pointed, Pointing, Describes
<1>7. (t \notin stale /\ call[t].id = "execve" /\ t \notin mixed) =>
          Copied(m) = IF m = NoNode THEN {} ELSE {call[t]}
  <2> HAVE t \notin stale /\ call[t].id = "execve" /\ t \notin mixed
  <2>1. m = execve_snapshots[t]
    BY <1>4, <1>6
  <2>2. Snapping(t)
    BY <1>4 DEF Snapping, Pointing
  <2>3. m = NoNode \/ captured[m] = {call[t]}
    BY <1>4, <2>1, <2>2 DEF IInv, Captured
  <2> QED BY <2>3 DEF Copied
<1>8. FilledAt(i)'
  <2> HIDE DEF m, e
  <2>1. events'[i] = e /\ e.tid = t /\ call'[t] = call[t] /\ e.snapshot = Copied(m)
    BY <1>2, <1>3, <1>4
  <2> QED BY <1>3, <1>4, <1>6, <1>7, <2>1 DEF FilledAt, m, IsSelected
<1> QED BY <1>1, <1>3, <1>4, <1>8, OtherRecords

\* And submitted with the rest of that snapshot, if it is not mixed.
LEMMA RecordSubmitted ==
    ASSUME IInv, NEW t \in Tid, SysExitSubmit(t)
    PROVE  RecordsOK'
<1>0. TaskTypes /\ SnapshotTypes /\ NoNode \notin Nodes
  BY TypesOf, NodesAreNat DEF IInv
<1>1. PICK i \in 1..Len(events) :
          /\ events[i].tid = t /\ ~events[i].ready
          /\ events' = [events EXCEPT ![i] = Complete(t, events[i])]
          /\ Complete(t, events[i]) \in Event
  BY SubmittedRecord DEF IInv
<1> DEFINE e == Complete(t, events[i])
<1>2. /\ Len(events') = Len(events) /\ events'[i] = e
      /\ \A j \in 1..Len(events) : j # i => events'[j] = events[j]
  BY <1>1, RecordReplaced, TypesOf DEF IInv, RingTypes
<1>3. /\ e.ready /\ e.suspect = (t \in stale) /\ e.truth = events[i].truth /\ e.call = events[i].call
      /\ e.snapshot = events[i].snapshot \cup Copied(snapshot[t])
      /\ e.fate = IF events[i].call.id = "execve" THEN Fate(t) ELSE "kept"
  <2>1. events[i] \in Event
    BY TypesOf, EventAt DEF IInv, RingTypes
  <2> QED BY <2>1 DEF Complete, Event
<1>4. /\ pc[t] = "filled" /\ UNCHANGED <<call, mixed>>
      /\ \A u \in Tid \ {t} : pc'[u] = pc[u] /\ snapshot'[u] = snapshot[u] /\ (u \in stale => u \in stale')
  BY <1>0 DEF SysExitSubmit, TaskTypes, SnapshotTypes, Map, snapshotHistory
<1>5. events[i].truth = call[t]
  BY <1>1 DEF IInv, PendingOK
<1>6. t \notin stale =>
          /\ events[i].call = call[t] /\ IsSelected(call[t].id)
          /\ (call[t].id = "execve" /\ t \notin mixed) =>
               events[i].snapshot = IF snapshot[t] = NoNode THEN {} ELSE {call[t]}
  BY <1>1, <1>4 DEF IInv, FilledOK, FilledAt
<1>7. ASSUME t \notin stale, call[t].id = "execve", t \notin mixed
      PROVE  \/ Fate(t) = "kept" /\ snapshot[t] # NoNode /\ captured[snapshot[t]] = {call[t]}
             \/ Fate(t) = "dropped" /\ snapshot[t] = NoNode
  <2>1. execve_snapshots[t] = snapshot[t]
    BY <1>4, <1>7 DEF IInv, Held, Reads
  <2>2. Snapping(t)
    BY <1>4, <1>7 DEF Snapping, Pointing
  <2>3. IF snapshot[t] = NoNode THEN t \in dropped
        ELSE t \notin dropped /\ captured[snapshot[t]] = {call[t]}
    BY <1>4, <1>7, <2>1, <2>2 DEF IInv, Captured
  <2> QED BY <1>7, <2>3 DEF Fate
<1>8. t \notin stale => Intact(e)
  <2> HAVE t \notin stale
  <2>1. e.call = e.truth /\ IsSelected(e.call.id) /\ e.call = call[t]
    BY <1>3, <1>5, <1>6
  <2>2. ASSUME call[t].id = "execve", t \notin mixed
        PROVE  \/ e.fate = "kept" /\ e.snapshot = {call[t]}
               \/ e.fate = "dropped" /\ e.snapshot = {}
    <3>1. e.fate = Fate(t) /\ events[i].snapshot = IF snapshot[t] = NoNode THEN {} ELSE {call[t]}
      BY <1>3, <1>6, <2>2
    <3>2. CASE Fate(t) = "kept" /\ snapshot[t] # NoNode /\ captured[snapshot[t]] = {call[t]}
      BY <1>3, <3>1, <3>2 DEF Copied
    <3>3. CASE Fate(t) = "dropped" /\ snapshot[t] = NoNode
      BY <1>3, <3>1, <3>3 DEF Copied
    <3> QED BY <1>7, <2>2, <3>2, <3>3
  <2>3. (call[t].id = "execve" /\ t \in mixed) => e.fate = "mixed"
    BY <1>3, <1>6 DEF Fate
  <2> HIDE DEF e
  <2> QED BY <2>1, <2>2, <2>3 DEF Intact
<1>9. FilledAt(i)'
  BY <1>2, <1>3 DEF FilledAt
<1>10. e.tid = t
  BY <1>1 DEF Complete
<1> HIDE DEF e
<1> QED BY <1>1, <1>3, <1>4, <1>8, <1>9, <1>10, OtherRecords DEF e

LEMMA RecordsStep == IInv /\ [Next]_vars => RecordsOK'
<1> SUFFICES ASSUME IInv, [Next]_vars PROVE RecordsOK'
  OBVIOUS
<1>0. TaskTypes /\ EntryTypes /\ SnapshotTypes
  BY TypesOf DEF IInv
<1>1. ASSUME NEW t \in Tid, Task(t) PROVE RecordsOK'
  <2> USE <1>0 DEF Undisturbed, TaskTypes, EntryTypes, SnapshotTypes, Map
  <2>1. CASE \E k \in Kinds : SysEnterIgnored(t, k)
    BY <2>1, RecordsKept DEF SysEnterIgnored, EnterKernel, mapVars, snapshotVars, snapshotHistory
  <2>2. CASE \E k \in Kinds, n \in Nodes : SysEnterTracked(t, k, n)
    BY <2>2, RecordsKept DEF SysEnterTracked, EnterKernel, StoreSyscall, snapshotVars, snapshotHistory
  <2>3. ASSUME NEW k \in Kinds, NEW m \in Nodes, SysEnterExecve(t, k, m) PROVE RecordsOK'
    <3>1. \A u \in Tid \ {t} : u \in mixed => u \in mixed'
      BY <2>3, SnapshotStored DEF IInv
    <3> QED BY <2>3, <3>1, RecordsKept DEF SysEnterExecve, EnterKernel, entryHistory
  <2>4. CASE AppendPath(t) \/ AppendArgv(t)
    BY <2>4, RecordsKept DEF AppendPath, AppendArgv, historyVars, entryHistory, snapshotHistory
  <2>5. CASE \E n \in Nodes : StoreExecve(t, n)
    BY <2>5, RecordsKept DEF StoreExecve, StoreSyscall, snapshotVars, snapshotHistory
  <2>6. CASE \E c \in Tid : Clone(t, c)
    BY <2>6, RecordsKept DEF Clone, NewTask, FreeTid, Live, mapVars, snapshotVars, snapshotHistory
  <2>7. CASE \E r \in Tid \cup {NoTid} : SysExitLookup(t, r)
    BY <2>7, RecordsKept DEF SysExitLookup, snapshotVars, snapshotHistory
  <2>8. ASSUME NEW args \in CloneArgs, SysExitTrack(t, args) PROVE RecordsOK'
    <3>1. CASE UNCHANGED events /\ Return(t)
      BY <2>8, <3>1, RecordsKept DEF SysExitTrack, Return, snapshotVars, snapshotHistory
    <3>2. CASE events' = Append(events, Reserved(t)) /\ pc' = [pc EXCEPT ![t] = "reserved"]
      BY <2>8, <3>2, RecordReserved
    <3> QED BY <2>8, <3>1, <3>2 DEF SysExitTrack
  <2>9. CASE \E args \in CloneArgs : SysExitFill(t, args)
    BY <2>9, RecordFilled
  <2>10. CASE SysExitSubmit(t)
    BY <2>10, RecordSubmitted
  <2>11. CASE SysExitCleanup(t)
    BY <2>11, RecordsKept DEF SysExitCleanup, Return, snapshotHistory
  <2>12. CASE SchedProcessExit(t)
    BY <2>12, RecordsKept DEF SchedProcessExit, snapshotHistory
  <2>13. CASE Spawn(t)
    BY <2>13, RecordsKept DEF Spawn, NewTask, FreeTid, Live, mapVars, snapshotVars, snapshotHistory
  <2>14. CASE Kill(t)
    BY <2>14, RecordsKept DEF Kill, mapVars, snapshotVars, historyVars, entryHistory, snapshotHistory
  <2> QED BY <1>1, <2>1, <2>2, <2>3, <2>4, <2>5, <2>6, <2>7, <2>8, <2>9, <2>10, <2>11, <2>12,
             <2>13, <2>14 DEF Task
<1>2. CASE UNCHANGED vars \/ ReadEvent
  BY <1>2, RecordsKept DEF Undisturbed, ReadEvent, vars, kernelVars, mapVars, snapshotVars,
                           historyVars, entryHistory, snapshotHistory
<1> QED BY <1>1, <1>2 DEF Next

LEMMA WatchedStep == IInv /\ [Next]_vars => WatchedOK'
<1> DEFINE Kept(u) == (pc[u] = "kernel" /\ Entered(u)) => inflight_syscalls[u] # NoNode \/ u \in evicted
<1> SUFFICES ASSUME IInv, [Next]_vars, NEW u \in watched' PROVE Kept(u)'
  BY DEF WatchedOK
<1>0. TaskTypes /\ EntryTypes /\ u \in Tid
  <2>1. TaskTypes /\ TaskTypes'
    BY TypesOf, TypesNext, TypeStep DEF IInv
  <2> QED BY <2>1, TypesOf DEF IInv, TaskTypes
<1>1. u \in watched => Kept(u)
  BY DEF IInv, WatchedOK
<1> USE <1>0, <1>1, NodesAreNat DEF TaskTypes, EntryTypes, Map, Entered
\* Most steps bring nobody into the kernel and drop no entry of one in it.
<1>2. ASSUME u \in watched, pc'[u] = "kernel" => pc[u] = "kernel", call'[u] = call[u],
             pc'[u] = "kernel" => inflight_syscalls'[u] = inflight_syscalls[u] \/ u \in evicted',
             u \in evicted => u \in evicted'
      PROVE  Kept(u)'
  BY <1>2 DEF IsSelected, ShouldTrackUnselected, IsProcessClone
<1>3. ASSUME NEW t \in Tid, Task(t) PROVE Kept(u)'
  <2>1. ASSUME NEW k \in Kinds, SysEnterIgnored(t, k) PROVE Kept(u)'
    <3>1. CASE u = t
      <4>1. IsTraced(t) /\ ~IsTracked(t, k.id)
        BY <2>1, <3>1 DEF SysEnterIgnored, EnterKernel
      <4>2. call'[t].id = k.id
        BY <2>1 DEF SysEnterIgnored, EnterKernel, NumberedCall
      <4> QED BY <3>1, <4>1, <4>2 DEF IsTracked, IsSelected, ShouldTrackUnselected, IsProcessClone
    <3>2. CASE u # t
      BY <2>1, <3>2, <1>2 DEF SysEnterIgnored, EnterKernel, mapVars, inflightVars
    <3> QED BY <3>1, <3>2
  <2>2. ASSUME NEW k \in Kinds, NEW n \in Nodes, SysEnterTracked(t, k, n) PROVE Kept(u)'
    <3>1. EnterKernel(t, k, "kernel") /\ StoreSyscall(t, call'[t], n) /\ UNCHANGED target_pids
      BY <2>2 DEF SysEnterTracked
    <3>2. call'[t] \in Call
      BY <3>1, EnterTyped DEF Places, IInv
    <3>3. CASE u = t
      BY <3>1, <3>2, <3>3, StoredOwn DEF IInv
    <3>4. CASE u # t
      <4>1. /\ inflight_syscalls'[u] = inflight_syscalls[u] \/ u \in evicted'
            /\ u \in evicted => u \in evicted'
        BY <3>1, <3>2, <3>4, StoredOther DEF IInv
      <4> QED BY <3>1, <3>4, <4>1, <1>2 DEF EnterKernel
    <3> QED BY <3>3, <3>4
  <2>3. CASE \E k \in Kinds, m \in Nodes : SysEnterExecve(t, k, m)
    BY <2>3, <1>2 DEF SysEnterExecve, EnterKernel, inflightVars, entryHistory
  <2>4. CASE AppendPath(t) \/ AppendArgv(t)
    BY <2>4, <1>2 DEF AppendPath, AppendArgv, inflightVars, historyVars, entryHistory
  <2>5. ASSUME NEW n \in Nodes, StoreExecve(t, n) PROVE Kept(u)'
    <3>1. /\ StoreSyscall(t, call[t], n) /\ call[t] \in Call /\ UNCHANGED <<call, watched>>
          /\ pc' = [pc EXCEPT ![t] = "kernel"]
      BY <2>5 DEF StoreExecve
    <3>2. CASE u = t
      BY <3>1, <3>2, StoredOwn DEF IInv
    <3>3. CASE u # t
      <4>1. /\ inflight_syscalls'[u] = inflight_syscalls[u] \/ u \in evicted'
            /\ u \in evicted => u \in evicted'
        BY <3>1, <3>3, StoredOther DEF IInv
      <4> QED BY <3>1, <3>3, <4>1, <1>2
    <3> QED BY <3>2, <3>3
  <2>6. CASE \E c \in Tid : Clone(t, c)
    BY <2>6, <1>2 DEF Clone, NewTask, mapVars, inflightVars
  <2>7. CASE \E r \in Tid \cup {NoTid} : SysExitLookup(t, r)
    BY <2>7, <1>2 DEF SysExitLookup
  <2>8. CASE \E args \in CloneArgs : SysExitTrack(t, args)
    BY <2>8, <1>2 DEF SysExitTrack, Return, Without
  <2>9. CASE \E args \in CloneArgs : SysExitFill(t, args)
    BY <2>9, <1>2 DEF SysExitFill, inflightVars, historyVars, entryHistory
  <2>10. CASE SysExitSubmit(t)
    BY <2>10, <1>2 DEF SysExitSubmit, EntriesAfterSubmit, Without
  <2>11. CASE SysExitCleanup(t)
    BY <2>11, <1>2 DEF SysExitCleanup, Return, Without
  <2>12. CASE SchedProcessExit(t)
    BY <2>12, <1>2 DEF SchedProcessExit, Without, CleanupTid
  <2>13. CASE Spawn(t)
    BY <2>13, <1>2 DEF Spawn, NewTask, mapVars, inflightVars
  <2>14. CASE Kill(t)
    BY <2>14, <1>2 DEF Kill, mapVars, inflightVars, historyVars, entryHistory
  <2> QED BY <1>3, <2>1, <2>2, <2>3, <2>4, <2>5, <2>6, <2>7, <2>8, <2>9, <2>10, <2>11, <2>12,
             <2>13, <2>14 DEF Task
<1>4. CASE UNCHANGED vars \/ ReadEvent
  BY <1>2, <1>4 DEF ReadEvent, vars, kernelVars, mapVars, inflightVars, historyVars, entryHistory
<1> QED BY <1>3, <1>4 DEF Next

\* Tasks that are born, exit or take a pid leave alone the child of a clone
\* that has not returned, or its parent joins orphaned.
LEMMA ChildKnownStep == IInv /\ [Next]_vars => ChildKnown'
<1> DEFINE Known(u) == (call[u].id = "fork" => ~call[u].thread) /\ (Expects(u) => Child(ret[u]))
<1> SUFFICES ASSUME IInv, [Next]_vars, NEW u \in Tid PROVE Known(u)'
  BY DEF ChildKnown
<1>0. TaskTypes
  BY TypesOf DEF IInv
<1>1. Known(u)
  BY DEF IInv, ChildKnown
<1> USE <1>0, <1>1, NoTidAssumption, RootAssumption DEF TaskTypes, Live
\* Most steps neither free a task nor make one.
<1>2. ASSUME UNCHANGED <<tgid, family>>, call'[u] = call[u], ret'[u] = ret[u],
             u \notin orphaned' => u \notin orphaned,
             pc'[u] \in {"kernel", "looked_up"} =>
                pc[u] \in {"kernel", "looked_up"} \/ call[u].id \notin CloneIds,
             \A c \in Tid : Live(c) => pc'[c] # "free"
      PROVE  Known(u)'
  BY <1>2 DEF Expects, Child
<1>3. ASSUME NEW t \in Tid, Task(t) PROVE Known(u)'
  <2>1. ASSUME NEW k \in Kinds, NEW at \in {"kernel", "stored"}, EnterKernel(t, k, at) PROVE Known(u)'
    <3>1. CASE u = t
      <4>1. call'[t].id = k.id /\ call'[t].thread = k.thread /\ ret'[t] = Pending
        BY <2>1 DEF EnterKernel, NumberedCall
      <4> QED BY <3>1, <4>1, KindsAssumption DEF Expects
    <3>2. CASE u # t
      BY <2>1, <3>2, <1>2 DEF EnterKernel
    <3> QED BY <3>1, <3>2
  <2>2. CASE \/ \E k \in Kinds : SysEnterIgnored(t, k)
             \/ \E k \in Kinds, n \in Nodes : SysEnterTracked(t, k, n)
             \/ \E k \in Kinds, m \in Nodes : SysEnterExecve(t, k, m)
    BY <2>1, <2>2 DEF SysEnterIgnored, SysEnterTracked, SysEnterExecve
  <2>3. CASE AppendPath(t) \/ AppendArgv(t) \/ \E n \in Nodes : StoreExecve(t, n)
    <3>1. call[t].id = "execve"
      BY <2>3 DEF AppendPath, AppendArgv, StoreExecve, IInv, Inside, InSysEnter
    <3> QED BY <2>3, <3>1, <1>2 DEF AppendPath, AppendArgv, StoreExecve, historyVars, familyHistory, CloneIds
  <2>4. ASSUME NEW c \in Tid, Clone(t, c) PROVE Known(u)'
    <3>1. /\ pc[t] = "kernel" /\ call[t].id \in CloneIds /\ FreeTid(c) /\ t # c
          /\ pc' = [pc EXCEPT ![c] = "kernel"]
          /\ tgid' = [tgid EXCEPT ![c] = IF call[t].thread THEN tgid[t] ELSE c]
          /\ call' = [call EXCEPT ![c] = NumberedCall(c, call[c].n + 1, call[t])]
          /\ ret' = [ret EXCEPT ![t] = c, ![c] = NoTid]
          /\ family' = IF ~call[t].thread /\ tgid[t] \in family THEN family \cup {c} ELSE family
          /\ orphaned' = orphaned \ {c}
      BY <2>4 DEF Clone, NewTask, FreeTid
    <3>2. \A x \in Tid : Live(x) => x # c /\ tgid[x] # c
      BY <3>1 DEF FreeTid, Threads
    <3>3. CASE u = c
      <4>1. ret'[c] = NoTid /\ call'[c].id = call[t].id /\ call'[c].thread = call[t].thread
        BY <3>1 DEF NumberedCall
      <4>2. call[t].id = "fork" => ~call[t].thread
        BY DEF IInv, ChildKnown
      <4> QED BY <3>3, <4>1, <4>2 DEF Expects
    <3>4. CASE u = t
      <4>1. /\ call'[t] = call[t] /\ ret'[t] = c /\ tgid'[t] = tgid[t] /\ pc'[c] = "kernel"
            /\ ~call[t].thread => tgid'[c] = c
        BY <3>1
      <4>2. tgid[t] # c
        BY <3>1, <3>2
      <4>3. (~call[t].thread /\ tgid[t] \in family') => c \in family'
        BY <3>1, <4>2
      <4> QED BY <3>4, <4>1, <4>3 DEF Expects, Child
    <3>5. CASE u \notin {c, t}
      <4>1. pc'[u] = pc[u] /\ call'[u] = call[u] /\ ret'[u] = ret[u] /\ tgid'[u] = tgid[u]
        BY <3>1, <3>5
      <4>2. (Live(u) /\ tgid[u] \in family') => tgid[u] \in family
        BY <3>1, <3>2
      <4>3. Expects(u)' => Expects(u)
        BY <3>1, <3>5, <4>1, <4>2 DEF Expects
      <4>4. ASSUME NEW x \in Tid, Child(x) PROVE Child(x)'
        <5>1. x # c
          BY <3>2, <4>4 DEF Child
        <5> QED BY <3>1, <4>4, <5>1 DEF Child
      <4> QED BY <4>1, <4>3, <4>4 DEF Expects
    <3> QED BY <3>3, <3>4, <3>5
  <2>5. ASSUME NEW r \in Tid \cup {NoTid}, SysExitLookup(t, r) PROVE Known(u)'
    <3>1. UNCHANGED <<tgid, family, orphaned, call>> /\ pc[t] = "kernel" /\ r \in Returns(t)
          /\ pc'[t] \in {"looked_up", "user"} /\ ret'[t] = r
          /\ \A x \in Tid \ {t} : pc'[x] = pc[x] /\ ret'[x] = ret[x]
      BY <2>5 DEF SysExitLookup, familyHistory
    <3>2. (call[t].id \in CloneIds /\ r \in Tid) => r = ret[t]
      BY <3>1 DEF Returns
    <3>3. Expects(u)' => Expects(u) /\ ret'[u] = ret[u]
      BY <3>1, <3>2 DEF Expects
    <3>4. \A x \in Tid : Child(x) => Child(x)'
      BY <3>1 DEF Child
    <3> QED BY <3>1, <3>3, <3>4 DEF Expects
  <2>6. CASE \E args \in CloneArgs : SysExitTrack(t, args)
    BY <2>6, <1>2 DEF SysExitTrack, Return
  <2>7. CASE \E args \in CloneArgs : SysExitFill(t, args)
    BY <2>7, <1>2 DEF SysExitFill, historyVars, familyHistory
  <2>8. CASE SysExitSubmit(t)
    BY <2>8, <1>2 DEF SysExitSubmit, familyHistory
  <2>9. CASE SysExitCleanup(t)
    BY <2>9, <1>2 DEF SysExitCleanup, Return
  <2>10. CASE SchedProcessExit(t)
    <3>1. /\ pc' = [pc EXCEPT ![t] = "free"] /\ pc[t] # "free" /\ UNCHANGED <<tgid, call, ret>>
          /\ orphaned' = orphaned \cup ParentsOf(t)
          /\ family' = family \ IF Threads(tgid[t]) = {t} THEN {tgid[t]} ELSE {}
      BY <2>10 DEF SchedProcessExit
    <3>2. ASSUME Expects(u)' PROVE Child(ret[u])'
      <4>1. Expects(u) /\ ret[u] \in Tid /\ ret[u] # t
        BY <3>1, <3>2 DEF Expects, ParentsOf
      <4>2. Child(ret[u])
        BY <4>1
      <4>3. Threads(tgid[t]) = {t} => ret[u] # tgid[t]
        BY <4>1, <4>2 DEF Child, Threads
      <4> QED BY <3>1, <4>1, <4>2, <4>3 DEF Child
    <3> QED BY <3>1, <3>2
  <2>11. CASE Spawn(t)
    <3>1. /\ FreeTid(t) /\ pc' = [pc EXCEPT ![t] = "user"] /\ tgid' = [tgid EXCEPT ![t] = t]
          /\ UNCHANGED <<call, ret, family>> /\ orphaned' = orphaned \ {t}
      BY <2>11 DEF Spawn, NewTask
    <3>2. Expects(u)' => Expects(u)
      BY <3>1 DEF Expects
    <3>3. \A x \in Tid : Child(x) => Child(x)'
      BY <3>1 DEF Child, FreeTid
    <3> QED BY <3>1, <3>2, <3>3 DEF Expects
  <2>12. CASE Kill(t)
    BY <2>12, <1>2 DEF Kill, historyVars, familyHistory
  <2> QED BY <1>3, <2>2, <2>3, <2>4, <2>5, <2>6, <2>7, <2>8, <2>9, <2>10, <2>11, <2>12 DEF Task
<1>4. CASE UNCHANGED vars \/ ReadEvent
  BY <1>2, <1>4 DEF ReadEvent, vars, kernelVars, historyVars, familyHistory
<1> QED BY <1>3, <1>4 DEF Next

\* The invariant is inductive.
LEMMA IInvStep == IInv /\ [Next]_vars => IInv'
<1> SUFFICES ASSUME IInv, [Next]_vars PROVE IInv'
  OBVIOUS
<1>1. TypeOK' /\ Inside'
  BY TypeStep, InsideStep DEF IInv
<1>2. Linked' /\ Pointed' /\ Captured' /\ Held'
  BY LinkedStep, PointedStep, CapturedStep, HeldStep
<1>3. PendingOK' /\ FilledOK' /\ EventsOK'
  BY RecordsStep DEF RecordsOK
<1>4. WatchedOK' /\ ChildKnown'
  BY WatchedStep, ChildKnownStep
<1> QED BY <1>1, <1>2, <1>3, <1>4 DEF IInv

\* In every reachable state, what sys_enter stored and sys_exit points to is of
\* the call its task is in, a snapshot is of its execve, and the number a clone
\* is to return is of its child, unless the task is marked.
THEOREM Invariant == Spec => []IInv
BY IInvInit, IInvStep, PTL DEF Spec

-----------------------------------------------------------------------------
(***************************************************************************)
(* What follows from it.                                                   *)
(***************************************************************************)
\* sys_exit reports the call its thread is returning from, for any number of
\* threads, evictions and reuses, unless the entry was left behind by an
\* earlier call or the value recycled.
THEOREM Faithful == Spec => []FaithfulUnlessSuspect
<1>1. IInv => FaithfulUnlessSuspect
  BY DEF IInv, EventsOK, Intact, FaithfulUnlessSuspect, Submitted
<1> QED BY <1>1, Invariant, PTL

\* With the same exception, a call the kernel filter leaves out never reaches
\* the ring buffer, though fork and clone are tracked all the same.
THEOREM Filtered == Spec => []FilterRespected
<1>1. IInv => FilterRespected
  BY DEF IInv, EventsOK, Intact, FilterRespected, Submitted
<1> QED BY <1>1, Invariant, PTL

\* An execve event carries the arguments of its own execve and no others, for
\* any interleaving of the copies, the evictions and the reuse of the values
\* they go through, unless such a reuse met a pointer that was still held.
THEOREM Snapshots == Spec => []SnapshotOfCall
<1>1. IInv => SnapshotOfCall
  BY DEF IInv, EventsOK, Intact, SnapshotOfCall, Submitted
<1> QED BY <1>1, Invariant, PTL

\* Only sys_exit brings a call back to user code, at its look-up or later.
LEMMA ReturnStep ==
    ASSUME IInv, [Next]_vars, NEW u \in Tid,
           pc[u] \in {"kernel", "looked_up"}, pc'[u] \in {"user", "reserved"}
    PROVE  \/ \E r \in Tid \cup {NoTid} : SysExitLookup(u, r)
           \/ \E args \in CloneArgs : SysExitTrack(u, args)
<1>0. TaskTypes
  BY TypesOf DEF IInv
<1> USE <1>0 DEF TaskTypes
<1>1. PICK t \in Tid : Task(t)
  BY DEF Next, ReadEvent, vars, kernelVars
<1>2. CASE t # u
  BY <1>1, <1>2 DEF Task, SysEnterIgnored, SysEnterTracked, SysEnterExecve, EnterKernel, AppendPath,
                    AppendArgv, StoreExecve, Clone, NewTask, FreeTid, Live, SysExitLookup,
                    SysExitTrack, SysExitFill, SysExitSubmit, SysExitCleanup, Return,
                    SchedProcessExit, Spawn, Kill
<1>3. CASE t = u
  BY <1>1, <1>3 DEF Task, SysEnterIgnored, SysEnterTracked, SysEnterExecve, EnterKernel, AppendPath,
                    AppendArgv, StoreExecve, Clone, NewTask, FreeTid, Live, SysExitFill,
                    SysExitSubmit, SysExitCleanup, SchedProcessExit, Spawn, Kill
<1> QED BY <1>2, <1>3

\* A selected call is lost only by exit of the process, eviction, a full ring
\* buffer, or a value of another call.
THEOREM LossesAccounted == Spec => NoSilentLoss
<1>1. IInv /\ [Next]_vars => [LossAccounted]_vars
  <2> SUFFICES ASSUME IInv, [Next]_vars, NEW u \in watched, IsSelected(call[u].id),
                      pc[u] \in {"kernel", "looked_up"}, pc'[u] = "user"
               PROVE  ~IsTraced(u) \/ u \in evicted \/ RingFull \/ u \in stale
    BY DEF LossAccounted
  <2>0. u \in Tid /\ NoNode \notin Nodes /\ TaskTypes
    BY TypesOf, NodesAreNat DEF IInv, TaskTypes
  <2>1. CASE \E r \in Tid \cup {NoTid} : SysExitLookup(u, r)
    BY <2>0, <2>1 DEF SysExitLookup, EntryOf, WatchedOK, Entered, IInv, TaskTypes
  <2>2. CASE \E args \in CloneArgs : SysExitTrack(u, args)
    <3>1. (RingFull \/ ~StateSelected(u)) /\ pc[u] = "looked_up"
      BY <2>0, <2>2 DEF SysExitTrack, TaskTypes
    <3> QED BY <2>0, <3>1 DEF StateSelected, Pointed, Pointing, Describes, IInv
  <2> QED BY <2>0, <2>1, <2>2, ReturnStep
<1> QED BY <1>1, Invariant, PTL DEF Spec, NoSilentLoss

\* A forked process is followed once its parent's sys_exit has run, for any
\* number of tasks and any filter, with the accepted causes of loss.
THEOREM ChildrenRegistered == Spec => ChildrenFollowed
<1>1. IInv /\ [Next]_vars => [ChildRegistered]_vars
  <2> SUFFICES ASSUME IInv, [Next]_vars, NEW u \in watched,
                      FollowForks, call[u].id \in CloneIds, ~call[u].thread, ret'[u] # NoTid,
                      pc[u] \in {"kernel", "looked_up"}, pc'[u] \in {"user", "reserved"}
               PROVE  \/ ret'[u] \in target_pids' \/ ~IsTraced(u) \/ u \in evicted \/ u \in stale
                      \/ u \in misread' \/ ~RoomForTarget
    BY DEF ChildRegistered
  <2>0. u \in Tid /\ NoNode \notin Nodes /\ TaskTypes
    BY TypesOf, NodesAreNat DEF IInv, TaskTypes
  <2>1. CASE \E r \in Tid \cup {NoTid} : SysExitLookup(u, r)
    <3>1. ShouldTrackUnselected(call[u].id)
      BY DEF ShouldTrackUnselected, IsProcessClone, CloneIds
    <3>2. pc[u] = "kernel" /\ (~IsTraced(u) \/ inflight_syscalls[u] = NoNode)
      BY <2>0, <2>1 DEF SysExitLookup, EntryOf, TaskTypes
    <3> QED BY <2>0, <3>1, <3>2 DEF WatchedOK, Entered, IInv
  <2>2. ASSUME NEW args \in CloneArgs, SysExitTrack(u, args), u \notin stale, u \notin misread',
               RoomForTarget
        PROVE  ret'[u] \in target_pids'
    <3>1. node[state[u]].call = call[u]
      BY <2>0, <2>2 DEF SysExitTrack, Pointed, Pointing, Describes, IInv
    <3>2. ret' = ret /\ target_pids' = TrackChildProcess(call[u], ret[u], args)
      BY <2>2, <3>1 DEF SysExitTrack
    <3>3. IsProcessClone(call[u], args)
      <4>1. ~Misread(call[u], args)
        BY <2>2 DEF SysExitTrack
      <4> QED BY <4>1 DEF IsProcessClone, Misread, CloneIds
    <3>4. ret[u] \in ChildOf(call[u], ret[u], args)
      BY <3>2, <3>3 DEF ChildOf
    <3> QED BY <2>2, <3>2, <3>4 DEF TrackChildProcess
  <2> QED BY <2>0, <2>1, <2>2, ReturnStep
<1> QED BY <1>1, Invariant, PTL DEF Spec, ChildrenFollowed

\* A process leaves target_pids only with its leader, or by a thread that
\* read a value of another call after its own entry was deleted.
THEOREM RemovalsAccounted == Spec => TargetRemoval
<1>1. IInv /\ [Next]_vars => [TargetLeaves]_vars
  <2> SUFFICES ASSUME IInv, [Next]_vars, NEW p \in target_pids, p \notin target_pids'
               PROVE  \/ Live(p) /\ pc'[p] = "free"
                      \/ \E t \in Tid : tgid[t] = p /\ t \in recycled
    BY DEF TargetLeaves
  <2>0. TaskTypes
    BY TypesOf DEF IInv
  <2>1. p \in Tid
    BY <2>0 DEF TaskTypes
  <2>2. PICK t \in Tid : SysExitCleanup(t) \/ SchedProcessExit(t)
    BY DEF Next, Task, ReadEvent, SysEnterIgnored, SysEnterTracked, SysEnterExecve, AppendPath,
           AppendArgv, StoreExecve, Clone, NewTask, SysExitLookup, SysExitTrack, TrackChildProcess,
           SysExitFill, SysExitSubmit, Spawn, Kill, mapVars, vars
  <2>3. CASE SysExitCleanup(t)
    <3>1. tgid[t] = p /\ pc[t] = "submitted" /\ node[state[t]].call.id = "exit_group"
      BY <2>3 DEF SysExitCleanup
    <3>2. call[t].id \notin ExitIds
      BY <3>1 DEF IInv, Inside, InSysExit
    <3>3. t \in recycled
      BY <3>1, <3>2 DEF IInv, Pointed, ExitIds
    <3> QED BY <3>1, <3>3
  <2>4. CASE SchedProcessExit(t)
    <3>1. t = p /\ pc'[t] = "free"
      BY <2>0, <2>4 DEF SchedProcessExit, TargetsAfterExit, TaskTypes
    <3>2. pc[t] # "free"
      BY <2>4 DEF SchedProcessExit
    <3> QED BY <3>1, <3>2 DEF Live
  <2> QED BY <2>2, <2>3, <2>4
<1> QED BY <1>1, Invariant, PTL DEF Spec, TargetRemoval

\* Whatever sys_exit registers is the child its task has just created, a live
\* process of the family, unless the entry is of another call, the child gone,
\* clone3's arguments changed, or the task itself no member; and it stays one
\* until its leader's exit removes it.
THEOREM TargetsFamily == Spec => []TargetsAreFamily
<1>1. Init => TargetsAreFamily
  BY RootAssumption, AttachedAssumption DEF Init, TargetsAreFamily, Live
<1>2. IInv /\ TargetsAreFamily /\ [Next]_vars => TargetsAreFamily'
  <2> SUFFICES ASSUME IInv, TargetsAreFamily, [Next]_vars,
                      NEW p \in target_pids', p \notin late'
               PROVE  Child(p)'
    BY DEF TargetsAreFamily, Child
  <2> USE DEF Live
  <2>0. p \in Tid /\ TaskTypes
    BY TypeStep, TypesNext, TypesOf DEF IInv, TaskTypes
  <2>1. ASSUME p \in target_pids, p \notin late PROVE Child(p)
    BY <2>1 DEF TargetsAreFamily, Child
  <2>2. ASSUME UNCHANGED <<tgid, family>>, target_pids' \subseteq target_pids, late \cap target_pids' \subseteq late',
               Live(p) => pc'[p] # "free"
        PROVE  Child(p)'
    BY <2>1, <2>2 DEF Child
  <2>3. ASSUME NEW t \in Tid, Task(t) PROVE Child(p)'
    <3> USE <2>0 DEF TaskTypes
    <3>1. CASE \/ \E k \in Kinds : SysEnterIgnored(t, k)
               \/ \E k \in Kinds, n \in Nodes : SysEnterTracked(t, k, n)
               \/ \E k \in Kinds, m \in Nodes : SysEnterExecve(t, k, m)
      BY <2>2, <3>1 DEF SysEnterIgnored, SysEnterTracked, SysEnterExecve, EnterKernel, mapVars
    <3>2. CASE AppendPath(t) \/ AppendArgv(t) \/ \E n \in Nodes : StoreExecve(t, n)
      BY <2>2, <3>2 DEF AppendPath, AppendArgv, StoreExecve, historyVars, familyHistory
    <3>3. ASSUME NEW c \in Tid, Clone(t, c) PROVE Child(p)'
      <4>1. p \in target_pids /\ p \notin late
        BY <3>3 DEF Clone, NewTask, mapVars
      <4>2. p # c
        BY <2>1, <3>3, <4>1 DEF Clone, NewTask, FreeTid, Child
      <4> QED BY <2>1, <3>3, <4>1, <4>2 DEF Clone, NewTask, Child
    <3>4. CASE \E r \in Tid \cup {NoTid} : SysExitLookup(t, r)
      BY <2>2, <3>4 DEF SysExitLookup, familyHistory
    <3>5. ASSUME NEW args \in CloneArgs, SysExitTrack(t, args) PROVE Child(p)'
      <4>1. UNCHANGED <<tgid, family>> /\ pc[t] = "looked_up" /\ pc'[t] # "free"
            /\ \A x \in Tid \ {t} : pc'[x] = pc[x]
        BY <3>5 DEF SysExitTrack, Return
      <4>2. target_pids' \ target_pids \subseteq ChildOf(node[state[t]].call, ret[t], args)
        BY <3>5 DEF SysExitTrack, TrackChildProcess
      <4>3. CASE Misregisters(t, args)
        <5>1. p \in target_pids /\ p \notin late
          BY <3>5, <4>3 DEF SysExitTrack
        <5> QED BY <2>1, <4>1, <5>1 DEF Child
      <4>4. CASE ~Misregisters(t, args)
        <5>1. node[state[t]].call = call[t]
          BY <4>1, <4>4 DEF Misregisters, IInv, Pointed, Pointing, Describes
        <5>2. late' = late \ ChildOf(call[t], ret[t], args)
          BY <3>5, <4>4 DEF SysExitTrack
        <5>3. CASE p \in ChildOf(call[t], ret[t], args)
          <6>1. p = ret[t] /\ IsProcessClone(call[t], args)
            BY <5>3 DEF ChildOf
          <6>2. call[t].id \in CloneIds /\ ~call[t].thread
            BY <4>4, <6>1 DEF Misregisters, Misread, IsProcessClone, CloneIds, IInv, ChildKnown
          <6>3. Expects(t)
            BY <4>1, <4>4, <6>1, <6>2 DEF Expects, Misregisters
          <6>4. Child(p)
            BY <6>1, <6>3 DEF IInv, ChildKnown
          <6> QED BY <4>1, <6>4 DEF Child
        <5>4. CASE p \notin ChildOf(call[t], ret[t], args)
          BY <2>1, <4>1, <4>2, <5>1, <5>2, <5>4 DEF Child
        <5> QED BY <5>3, <5>4
      <4> QED BY <4>3, <4>4
    <3>6. CASE \E args \in CloneArgs : SysExitFill(t, args)
      BY <2>2, <3>6 DEF SysExitFill, historyVars, familyHistory
    <3>7. CASE SysExitSubmit(t)
      BY <2>2, <3>7 DEF SysExitSubmit, familyHistory
    <3>8. CASE SysExitCleanup(t)
      BY <2>2, <3>8 DEF SysExitCleanup, Return
    <3>9. CASE SchedProcessExit(t)
      <4>1. /\ pc' = [pc EXCEPT ![t] = "free"] /\ pc[t] # "free" /\ UNCHANGED tgid
            /\ family' = family \ IF Threads(tgid[t]) = {t} THEN {tgid[t]} ELSE {}
            /\ target_pids' = (IF IsTraced(t) THEN TargetsAfterExit(t) ELSE target_pids)
            /\ late' = late \cap target_pids'
        BY <3>9 DEF SchedProcessExit
      <4>2. p \in target_pids /\ p \notin late /\ Child(p)
        BY <2>1, <4>1 DEF TargetsAfterExit
      <4>3. p # t
        BY <4>1, <4>2 DEF TargetsAfterExit, IsTraced, Child
      <4>4. Threads(tgid[t]) = {t} => tgid[t] # p
        BY <4>2, <4>3 DEF Threads, Child
      <4> QED BY <4>1, <4>2, <4>3, <4>4 DEF Child
    <3>10. CASE Spawn(t)
      <4>1. p \in target_pids /\ p \notin late
        BY <3>10 DEF Spawn, NewTask, mapVars
      <4>2. p # t
        BY <2>1, <3>10, <4>1 DEF Spawn, NewTask, FreeTid, Child
      <4> QED BY <2>1, <3>10, <4>1, <4>2 DEF Spawn, NewTask, Child
    <3>11. CASE Kill(t)
      BY <2>2, <3>11 DEF Kill, mapVars, historyVars, familyHistory
    <3> QED BY <2>3, <3>1, <3>2, <3>3, <3>4, <3>5, <3>6, <3>7, <3>8, <3>9, <3>10, <3>11 DEF Task
  <2>4. CASE UNCHANGED vars \/ ReadEvent
    BY <2>2, <2>4 DEF ReadEvent, vars, kernelVars, mapVars, historyVars, familyHistory
  <2> QED BY <2>3, <2>4 DEF Next
<1> QED BY <1>1, <1>2, Invariant, PTL DEF Spec

-----------------------------------------------------------------------------
(***************************************************************************)
(* The ring buffer implements the abstract log.  A record that is not yet  *)
(* readable is the only one of a task inside sys_exit, for the call that   *)
(* task is returning from: PendingOK.                                      *)
(***************************************************************************)
\* The abstract log follows the ring buffer.
RecordType == [tid : Tid, n : Nat, shows : {"pending", "suspect", "its call", "another call"}]

LEMMA RecordTyped ==
    ASSUME NEW e \in Event
    PROVE  RecordOf(e) \in RecordType
<1>1. e.tid \in Tid /\ e.truth \in Call
  BY DEF Event
<1>2. e.truth.n \in Nat
  BY <1>1 DEF Call
<1> QED BY <1>1, <1>2 DEF RecordOf, Shows, RecordType

LEMMA RecordsAreSeq ==
    ASSUME events \in Seq(Event)
    PROVE  /\ Records \in Seq(RecordType)
           /\ Len(Records) = Len(events) /\ DOMAIN Records = 1..Len(events)
           /\ \A i \in 1..Len(events) : Records[i] = RecordOf(events[i])
<1>1. Len(events) \in Nat
  OBVIOUS
<1>2. \A i \in 1..Len(events) : RecordOf(events[i]) \in RecordType
  BY RecordTyped, EventAt
<1> QED BY <1>1, <1>2 DEF Records

LEMMA RecordsAppend ==
    ASSUME events \in Seq(Event), NEW e \in Event, events' = Append(events, e)
    PROVE  Records' = Append(Records, RecordOf(e))
<1>1. /\ Len(events) \in Nat /\ Len(events') = Len(events) + 1 /\ events' \in Seq(Event)
      /\ \A i \in 1..Len(events) : events'[i] = events[i]
      /\ events'[Len(events) + 1] = e
  BY AppendProperties
<1>2. /\ Records' \in Seq(RecordType) /\ Len(Records') = Len(events')
      /\ \A i \in 1..Len(events') : Records'[i] = RecordOf(events'[i])
  <2>1. \A i \in 1..Len(events') : RecordOf(events'[i]) \in RecordType
    BY <1>1, RecordTyped, ElementOfSeq
  <2> QED BY <1>1, <2>1 DEF Records
<1> DEFINE a == Append(Records, RecordOf(e))
<1>3. /\ a \in Seq(RecordType) /\ Len(a) = Len(events) + 1 /\ a[Len(events) + 1] = RecordOf(e)
      /\ \A i \in 1..Len(events) : a[i] = RecordOf(events[i])
  BY RecordsAreSeq, RecordTyped, AppendProperties
<1>4. ASSUME NEW i \in 1..Len(Records')
      PROVE  Records'[i] = a[i]
  <2>1. i \in 1..Len(events) \/ i = Len(events) + 1
    BY <1>1, <1>2
  <2> QED BY <1>1, <1>2, <1>3, <2>1
<1> HIDE DEF a
<1>5. Records' = a
  BY <1>1, <1>2, <1>3, <1>4, SeqEqual
<1> QED BY <1>5 DEF a

LEMMA RecordsTail ==
    ASSUME events \in Seq(Event), events # <<>>, events' = Tail(events)
    PROVE  Records # <<>> /\ Head(Records) = RecordOf(Head(events)) /\ Records' = Tail(Records)
<1>1. /\ Len(events) \in Nat \ {0} /\ Len(events') = Len(events) - 1 /\ events' \in Seq(Event)
      /\ \A i \in 1..(Len(events) - 1) : events'[i] = events[i + 1]
  BY HeadTailProperties, EmptySeq
<1>2. /\ Records' \in Seq(RecordType) /\ Len(Records') = Len(events')
      /\ \A i \in 1..Len(events') : Records'[i] = RecordOf(events'[i])
  <2>1. \A i \in 1..Len(events') : RecordOf(events'[i]) \in RecordType
    BY <1>1, RecordTyped, ElementOfSeq
  <2> QED BY <1>1, <2>1 DEF Records
<1>3. Records # <<>>
  BY <1>1, RecordsAreSeq
<1>4. Head(Records) = RecordOf(Head(events))
  BY <1>1, <1>3, RecordsAreSeq
<1> DEFINE a == Tail(Records)
<1>5. /\ a \in Seq(RecordType) /\ Len(a) = Len(events) - 1
      /\ \A i \in 1..(Len(events) - 1) : a[i] = Records[i + 1]
  BY <1>3, RecordsAreSeq, HeadTailProperties
<1>6. ASSUME NEW i \in 1..Len(Records')
      PROVE  Records'[i] = a[i]
  <2>1. i \in 1..(Len(events) - 1) /\ i + 1 \in 1..Len(events)
    BY <1>1, <1>2
  <2>2. Records'[i] = RecordOf(events[i + 1])
    BY <1>1, <1>2, <2>1
  <2> QED BY <1>5, <2>1, <2>2, RecordsAreSeq
<1> HIDE DEF a
<1>7. Records' = a
  BY <1>1, <1>2, <1>5, <1>6, SeqEqual
<1> QED BY <1>3, <1>4, <1>7 DEF a

LEMMA RecordsReplaced ==
    ASSUME events \in Seq(Event), NEW i \in 1..Len(events), NEW e \in Event,
           events' = [events EXCEPT ![i] = e]
    PROVE  Records' = [Records EXCEPT ![i] = RecordOf(e)]
<1>1. /\ Len(events') = Len(events)
      /\ \A j \in 1..Len(events) : events'[j] = IF j = i THEN e ELSE events[j]
  BY ExceptSeq
<1>2. Records' = [j \in 1..Len(events) |-> RecordOf(events'[j])]
  BY <1>1 DEF Records
<1>3. DOMAIN Records = 1..Len(events) /\ \A j \in 1..Len(events) : Records[j] = RecordOf(events[j])
  BY RecordsAreSeq
<1>4. [Records EXCEPT ![i] = RecordOf(e)]
          = [j \in 1..Len(events) |-> IF j = i THEN RecordOf(e) ELSE Records[j]]
  BY <1>3
<1> QED BY <1>1, <1>2, <1>3, <1>4

\* A task that has reserved nothing has no pending record.
LEMMA NonePending ==
    ASSUME IInv, NEW t \in Tid, pc[t] \notin {"reserved", "filled"}
    PROVE  \A i \in 1..Len(events) : Records[i] # Log!Record(t, "pending")
<1> SUFFICES ASSUME NEW i \in 1..Len(events), Records[i] = Log!Record(t, "pending")
             PROVE  FALSE
  OBVIOUS
<1>1. Records[i] = RecordOf(events[i])
  BY RecordsAreSeq, TypesOf DEF IInv, RingTypes
<1>2. events[i].tid = t /\ Shows(events[i]) = "pending"
  BY <1>1 DEF RecordOf, Log!Record
<1>3. ~events[i].ready
  BY <1>2 DEF Shows
<1> QED BY <1>2, <1>3 DEF IInv, PendingOK

\* Steps that leave the ring buffer alone: a task begins a call, ends one, or
\* moves on inside one.
Unclaimed == {"kernel", "looked_up"} \cup InSysEnter
Moves(t) ==
    /\ UNCHANGED events
    /\ \A u \in Tid \ {t} : pc'[u] = pc[u] /\ call'[u] = call[u]
    /\ \/ pc[t] \in {"free", "user"} /\ pc'[t] \in {"kernel", "stored"} /\ call'[t].n = call[t].n + 1
       \/ /\ call'[t] = call[t]
          /\ \/ pc[t] \in {"kernel", "looked_up", "submitted"} /\ pc'[t] \in {"user", "free"}
             \/ pc[t] \in {"free", "user"} /\ pc'[t] \in {"free", "user"}
             \/ pc[t] \in Unclaimed /\ pc'[t] \in Unclaimed
             \/ pc'[t] = pc[t]

LEMMA TaskMoves ==
    ASSUME IInv, NEW t \in Tid, Moves(t)
    PROVE  [Log!Next]_(Log!vars)
<1> USE DEF Moves, Unclaimed, Open, Claimed, InSysEnter, InSysExit
<1>1. Records' = Records
  BY DEF Records
<1>2. CASE pc[t] \in {"free", "user"} /\ pc'[t] \in {"kernel", "stored"} /\ call'[t].n = call[t].n + 1
  <2>1. t \notin Open
    BY <1>2
  <2>2. Begun' = [Begun EXCEPT ![t] = Begun[t] + 1]
    BY <1>2 DEF Begun
  <2>3. Open' = Open \cup {t}
    BY <1>2
  <2>4. Claimed' = Claimed
    BY <1>2
  <2>5. Log!Begin(t)
    BY <1>1, <2>1, <2>2, <2>3, <2>4 DEF Log!Begin
  <2> QED BY <2>5 DEF Log!Next
<1>3. CASE /\ call'[t] = call[t]
           /\ pc[t] \in {"kernel", "looked_up", "submitted"} /\ pc'[t] \in {"user", "free"}
  <2>1. t \in Open /\ pc[t] \notin {"reserved", "filled"}
    BY <1>3
  <2>2. \A i \in DOMAIN Records : Records[i] # Log!Record(t, "pending")
    BY <2>1, NonePending, RecordsAreSeq, TypesOf DEF IInv, RingTypes
  <2>3. Begun' = Begun
    BY <1>3 DEF Begun
  <2>4. Open' = Open \ {t}
    BY <1>3
  <2>5. Claimed' = Claimed \ {t}
    BY <1>3
  <2>6. Log!End(t)
    BY <1>1, <2>1, <2>2, <2>3, <2>4, <2>5 DEF Log!End
  <2> QED BY <2>6 DEF Log!Next
<1>4. CASE /\ call'[t] = call[t]
           /\ \/ pc[t] \in {"free", "user"} /\ pc'[t] \in {"free", "user"}
              \/ pc[t] \in Unclaimed /\ pc'[t] \in Unclaimed
              \/ pc'[t] = pc[t]
  <2>1. Begun' = Begun
    BY <1>4 DEF Begun
  <2>2. Open' = Open
    BY <1>4
  <2>3. Claimed' = Claimed
    BY <1>4
  <2> QED BY <1>1, <2>1, <2>2, <2>3 DEF Log!vars
<1> QED BY <1>2, <1>3, <1>4

\* bpf_ringbuf_reserve begins a record.
LEMMA ReserveClaims ==
    ASSUME IInv, NEW t \in Tid, NEW args \in CloneArgs, SysExitTrack(t, args),
           events' = Append(events, Reserved(t)), pc' = [pc EXCEPT ![t] = "reserved"]
    PROVE  Log!Claim(t)
<1>0. TaskTypes /\ events \in Seq(Event) /\ Len(events) \in Nat
  BY TypesOf DEF IInv, RingTypes
<1>1. Reserved(t) \in Event
  BY <1>0 DEF Reserved, Event, TaskTypes
<1>2. ~RingFull /\ pc[t] = "looked_up" /\ call' = call
  <2>1. events' # events
    BY <1>0, <1>1
  <2> QED BY <2>1 DEF SysExitTrack
<1>3. Records' = Append(Records, RecordOf(Reserved(t)))
  BY <1>0, <1>1, RecordsAppend
<1>4. RecordOf(Reserved(t)) = Log!Record(t, "pending")
  BY DEF RecordOf, Reserved, Shows, Log!Record, Begun
<1>5. t \in Open \ Claimed
  BY <1>2 DEF Open, Claimed, InSysExit
<1>6. Begun' = Begun /\ Open' = Open /\ Claimed' = Claimed \cup {t}
  BY <1>0, <1>2 DEF Begun, Open, Claimed, InSysEnter, InSysExit, TaskTypes
<1>7. Len(Records) < RingSize
  <2>1. Len(Records) = Len(events)
    BY <1>0, RecordsAreSeq
  <2> QED BY <1>0, <1>2, <2>1, SizeAssumption DEF RingFull
<1> QED BY <1>3, <1>4, <1>5, <1>6, <1>7 DEF Log!Claim

\* Filling a record that is not readable yet does not show.
LEMMA FillUnseen ==
    ASSUME IInv, NEW t \in Tid, NEW args \in CloneArgs, SysExitFill(t, args)
    PROVE  UNCHANGED Log!vars
<1>0. TaskTypes /\ events \in Seq(Event)
  BY TypesOf DEF IInv, RingTypes
<1>1. PICK i \in 1..Len(events) :
          /\ events[i].tid = t /\ ~events[i].ready
          /\ events' = [events EXCEPT ![i] = Filled(t, events[i], snapshot'[t], args)]
          /\ Filled(t, events[i], snapshot'[t], args) \in Event
  BY FilledRecord DEF IInv
<1> DEFINE e == Filled(t, events[i], snapshot'[t], args)
<1>2. e.tid = events[i].tid /\ e.truth = events[i].truth /\ e.ready = events[i].ready
  <2>1. events[i] \in Event
    BY <1>0, EventAt
  <2> QED BY <2>1 DEF Filled, Event
<1>3. RecordOf(e) = RecordOf(events[i])
  BY <1>1, <1>2 DEF RecordOf, Shows
<1> HIDE DEF e
<1>4. Records' = [Records EXCEPT ![i] = RecordOf(e)]
  BY <1>0, <1>1, RecordsReplaced DEF e
<1>5. Records' = Records
  BY <1>0, <1>1, <1>3, <1>4, RecordsAreSeq
<1>6. pc[t] = "reserved" /\ pc' = [pc EXCEPT ![t] = "filled"] /\ call' = call
  BY DEF SysExitFill
<1>7. Begun' = Begun /\ Open' = Open /\ Claimed' = Claimed
  BY <1>0, <1>6 DEF Begun, Open, Claimed, InSysEnter, InSysExit, TaskTypes
<1> QED BY <1>5, <1>7 DEF Log!vars

\* bpf_ringbuf_submit finishes the record of the call the task returns from.
LEMMA SubmitFinishes ==
    ASSUME IInv, NEW t \in Tid, SysExitSubmit(t)
    PROVE  Log!Finish(t)
<1>0. TaskTypes /\ events \in Seq(Event)
  BY TypesOf DEF IInv, RingTypes
<1>1. PICK i \in 1..Len(events) :
          /\ events[i].tid = t /\ ~events[i].ready
          /\ events' = [events EXCEPT ![i] = Complete(t, events[i])]
          /\ Complete(t, events[i]) \in Event
  BY SubmittedRecord DEF IInv
<1> DEFINE e == Complete(t, events[i])
<1>2. pc[t] = "filled" /\ pc' = [pc EXCEPT ![t] = "submitted"] /\ call' = call
  BY DEF SysExitSubmit
<1>3. Records' = [Records EXCEPT ![i] = RecordOf(e)]
  BY <1>0, <1>1, RecordsReplaced
<1>4. events[i].truth = call[t]
  BY <1>1 DEF IInv, PendingOK
<1>5. Records[i] = Log!Record(t, "pending")
  <2>1. Records[i] = RecordOf(events[i])
    BY <1>0, RecordsAreSeq
  <2> QED BY <1>1, <1>4, <2>1 DEF RecordOf, Shows, Log!Record, Begun
<1>6. \E shows \in {"its call", "suspect"} : RecordOf(e) = Log!Record(t, shows)
  <2>1. t \notin stale => events[i].call = call[t]
    BY <1>1, <1>2 DEF IInv, FilledOK, FilledAt
  <2>2. events[i] \in Event
    BY <1>0, EventAt
  <2>3. /\ e.tid = t /\ e.ready /\ e.suspect = (t \in stale)
        /\ e.call = events[i].call /\ e.truth = call[t]
    BY <1>1, <1>4, <2>2 DEF Complete, Event
  <2> HIDE DEF e
  <2>4. Shows(e) \in {"its call", "suspect"}
    BY <2>1, <2>3 DEF Shows
  <2> QED BY <2>3, <2>4 DEF RecordOf, Log!Record, Begun
<1> HIDE DEF e
<1>7. t \in Claimed /\ i \in DOMAIN Records
  BY <1>0, <1>2, RecordsAreSeq DEF Claimed
<1>8. Begun' = Begun /\ Open' = Open /\ Claimed' = Claimed
  BY <1>0, <1>2 DEF Begun, Open, Claimed, InSysEnter, InSysExit, TaskTypes
<1> QED BY <1>3, <1>5, <1>6, <1>7, <1>8 DEF Log!Finish

LEMMA LogStep == IInv /\ [Next]_vars => [Log!Next]_(Log!vars)
<1> SUFFICES ASSUME IInv, [Next]_vars PROVE [Log!Next]_(Log!vars)
  OBVIOUS
<1>0. TaskTypes /\ events \in Seq(Event)
  BY TypesOf DEF IInv, RingTypes
<1> USE <1>0 DEF TaskTypes
<1>1. CASE ReadEvent
  <2>1. events # <<>> /\ Head(events).ready /\ events' = Tail(events) /\ UNCHANGED <<pc, call>>
    BY <1>1 DEF ReadEvent, kernelVars
  <2>2. Records # <<>> /\ Head(Records) = RecordOf(Head(events)) /\ Records' = Tail(Records)
    BY <2>1, RecordsTail
  <2>3. Head(Records).shows # "pending"
    <3>1. RecordOf(Head(events)).shows = Shows(Head(events))
      BY DEF RecordOf
    <3>2. Shows(Head(events)) # "pending"
      BY <2>1 DEF Shows
    <3> QED BY <2>2, <3>1, <3>2
  <2>4. Begun' = Begun /\ Open' = Open /\ Claimed' = Claimed
    BY <2>1 DEF Begun, Open, Claimed
  <2>5. Log!Read
    BY <2>2, <2>3, <2>4 DEF Log!Read
  <2> QED BY <2>5 DEF Log!Next
<1>2. ASSUME NEW t \in Tid, Task(t) PROVE [Log!Next]_(Log!vars)
  <2> USE DEF Unclaimed, InSysEnter
  <2>1. ASSUME NEW k \in Kinds, NEW at \in {"kernel", "stored"}, EnterKernel(t, k, at), UNCHANGED events
        PROVE  Moves(t)
    BY <2>1 DEF Moves, EnterKernel, NumberedCall
  <2>2. CASE \/ \E k \in Kinds : SysEnterIgnored(t, k)
             \/ \E k \in Kinds, n \in Nodes : SysEnterTracked(t, k, n)
             \/ \E k \in Kinds, m \in Nodes : SysEnterExecve(t, k, m)
    BY <2>1, <2>2, TaskMoves DEF SysEnterIgnored, SysEnterTracked, SysEnterExecve, mapVars
  <2>3. CASE AppendPath(t) \/ AppendArgv(t) \/ \E n \in Nodes : StoreExecve(t, n)
    <3>1. Moves(t)
      BY <2>3 DEF Moves, AppendPath, AppendArgv, StoreExecve
    <3> QED BY <3>1, TaskMoves
  <2>4. ASSUME NEW c \in Tid, Clone(t, c) PROVE [Log!Next]_(Log!vars)
    <3>1. Moves(c)
      BY <2>4 DEF Moves, Clone, NewTask, FreeTid, Live, NumberedCall, mapVars
    <3> QED BY <3>1, TaskMoves
  <2>5. CASE \E r \in Tid \cup {NoTid} : SysExitLookup(t, r)
    <3>1. Moves(t)
      BY <2>5 DEF Moves, SysExitLookup
    <3> QED BY <3>1, TaskMoves
  <2>6. ASSUME NEW args \in CloneArgs, SysExitTrack(t, args) PROVE [Log!Next]_(Log!vars)
    <3>1. CASE UNCHANGED events /\ Return(t)
      <4>1. Moves(t)
        BY <2>6, <3>1 DEF Moves, SysExitTrack, Return
      <4> QED BY <4>1, TaskMoves
    <3>2. CASE events' = Append(events, Reserved(t)) /\ pc' = [pc EXCEPT ![t] = "reserved"]
      BY <2>6, <3>2, ReserveClaims DEF Log!Next
    <3> QED BY <2>6, <3>1, <3>2 DEF SysExitTrack
  <2>7. CASE \E args \in CloneArgs : SysExitFill(t, args)
    BY <2>7, FillUnseen
  <2>8. CASE SysExitSubmit(t)
    BY <2>8, SubmitFinishes DEF Log!Next
  <2>9. CASE SysExitCleanup(t)
    <3>1. Moves(t)
      BY <2>9 DEF Moves, SysExitCleanup, Return
    <3> QED BY <3>1, TaskMoves
  <2>10. CASE SchedProcessExit(t)
    <3>1. Moves(t)
      BY <2>10 DEF Moves, SchedProcessExit
    <3> QED BY <3>1, TaskMoves
  <2>11. CASE Spawn(t)
    <3>1. Moves(t)
      BY <2>11 DEF Moves, Spawn, NewTask, FreeTid, Live, mapVars
    <3> QED BY <3>1, TaskMoves
  <2>12. CASE Kill(t)
    <3>1. Moves(t)
      BY <2>12 DEF Moves, Kill, mapVars
    <3> QED BY <3>1, TaskMoves
  <2> QED BY <1>2, <2>2, <2>3, <2>4, <2>5, <2>6, <2>7, <2>8, <2>9, <2>10, <2>11, <2>12 DEF Task
<1>3. CASE UNCHANGED vars
  <2>1. Records' = Records /\ Begun' = Begun /\ Open' = Open /\ Claimed' = Claimed
    BY <1>3 DEF vars, kernelVars, mapVars, Records, Begun, Open, Claimed
  <2> QED BY <2>1 DEF Log!vars
<1> QED BY <1>1, <1>2, <1>3 DEF Next

\* The three BPF programs over their maps implement the abstract log: at most
\* one record for each call, made within it and read in order.
THEOREM Refinement == Spec => RefinesTraceLog
<1>1. Init => Log!Init
  <2> SUFFICES ASSUME Init PROVE Log!Init
    OBVIOUS
  <2>1. events = <<>> /\ Len(events) = 0
    BY DEF Init
  <2>2. Records = <<>>
    BY <2>1 DEF Records
  <2>3. Begun = [t \in Tid |-> 0] /\ Open \subseteq Tid
    BY DEF Init, Begun, Open, FirstExecve, NumberedCall
  <2>4. Claimed = {}
    BY DEF Init, Claimed
  <2> QED BY <2>1, <2>2, <2>3, <2>4 DEF Log!Init
<1> QED BY <1>1, Invariant, LogStep, PTL DEF Spec, RefinesTraceLog, Log!Spec
=============================================================================
