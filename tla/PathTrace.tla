------------------------------ MODULE PathTrace ------------------------------
(***************************************************************************)
(* The path filter at work: traced processes open, duplicate, close and    *)
(* rename files while their events wait in the ring buffer, and the filter *)
(* follows behind.  The processes (the kernel's descriptor tables, working *)
(* directories and files) are the environment; what they really did is     *)
(* kept beside what the filter believes.                                   *)
(*                                                                         *)
(* The threads of a process share its descriptors, and the events of two   *)
(* of them may be queued in another order than their calls took effect     *)
(* (Overtake).  A fork is two steps, because the child runs, and may be    *)
(* traced, before its parent's event is reserved.  Files are known by      *)
(* name; there are no links.                                               *)
(***************************************************************************)
EXTENDS PathFilter, FiniteSets

CONSTANTS
    Names,          \* names of files and directories
    First,          \* the process litrace starts with
    InitDirs,       \* directories at the start
    InitFiles,      \* files at the start
    StartDirs,      \* working directories the first process may start in
    Raw,            \* path arguments the processes use
    Programs,       \* sets of calls, one of which the processes make
    MaxEvents       \* bound: events in a run

ASSUME FirstAssumption == First \in Pid
ASSUME TreeAssumption ==
    /\ ".." \notin Names /\ NoPath \notin Seq(Names) \cup Raw
    /\ InitDirs \subseteq Seq(Names) /\ InitFiles \subseteq Seq(Names) /\ StartDirs \subseteq InitDirs
    /\ Raw \subseteq [abs : BOOLEAN, comps : Seq(Names \cup {".."})]
ASSUME TracedAssumption == TracePaths # {}
ASSUME BoundAssumption == MaxEvents \in Nat /\ IsFiniteSet(Pid)

VARIABLES
    live, fdTable, cwd, dirs, files,    \* the kernel's truth
    forking,    \* parent -> child of a fork whose event is still to come, or 0
    queue,      \* events submitted and not yet read
    count,      \* events so far
    inherited,  \* history: children whose fork event was handled in time
    confused,   \* history: processes the filter may be wrong about
    lost,       \* history: descriptors it may be wrong about, per process
    program     \* the calls made in this behaviour

osVars == <<live, fdTable, cwd, dirs, files, forking, program>>
historyVars == <<inherited, confused, lost>>
vars == <<stateByPID, output, live, fdTable, cwd, dirs, files, forking, program, queue, count,
          inherited, confused, lost>>

NoFds == [i \in 0..5 |-> AT_FDCWD]
NoPaths == [i \in {0, 1, 3} |-> NoPath]

\* hit, at and doubt are history: whether the call touched a traced path, the
\* caller's working directory when it was made, and whether the filter may be
\* wrong about one of its descriptors.
Event(p, id, ret, fd, path, clone, hit) ==
    [pid |-> p, id |-> id, ret |-> ret, fd |-> fd, path |-> path, clone |-> clone,
     hit |-> hit, at |-> cwd[p], doubt |-> \E i \in 0..5 : fd[i] \in lost[p]]

\* A call the kernel filters out leaves no event.
Submit(ev) ==
    /\ queue' = IF KernelSelects(ev.id) THEN Append(queue, ev) ELSE queue
    /\ count' = count + 1

\* bpf_ringbuf_reserve failed: the call happened and no event tells of it.
Drop == queue' = queue /\ count' = count + 1

\* The filter learns what fd is from its descriptors sources.
Learns(p, fd, sources) ==
    lost' = [lost EXCEPT ![p] = IF sources \cap lost[p] = {} THEN @ \ {fd} ELSE @ \cup {fd}]

\* The filter is not told that these descriptors have changed.
Misses(p, fds) == lost' = [lost EXCEPT ![p] = @ \cup fds]

-----------------------------------------------------------------------------
(***************************************************************************)
(* The processes (external).                                               *)
(***************************************************************************)
Init ==
    /\ InitFilter
    /\ live = {First}
    /\ fdTable = [p \in Pid |-> [fd \in Fd |-> NoPath]]
    /\ \E d \in StartDirs : cwd = [p \in Pid |-> d]
    /\ dirs = InitDirs
    /\ files = InitFiles
    /\ forking = [p \in Pid |-> 0]
    /\ queue = <<>>
    /\ count = 0
    /\ inherited = {First}
    /\ confused = {}
    /\ lost = [p \in Pid |-> {}]
    /\ program \in Programs

CanCall(p, id) == p \in live /\ forking[p] = 0 /\ id \in program /\ count < MaxEvents

FreeFds(p) == {fd \in Fd : fdTable[p][fd] = NoPath}
LowestFree(p, fd) == fd \in FreeFds(p) /\ \A other \in FreeFds(p) : fd <= other

\* The path a raw argument really names: the kernel walks from the root, the
\* caller's directory or dirfd.
Named(p, dirfd, raw) ==
    LET base == IF dirfd = AT_FDCWD THEN cwd[p] ELSE fdTable[p][dirfd]
    IN IF raw.abs THEN Walk(<<>>, raw.comps)
       ELSE IF base = NoPath THEN NoPath ELSE Walk(base, raw.comps)

\* The traced paths among what a call names: its path arguments and the files
\* behind its descriptor arguments.
Touches(p, fds, paths) ==
    (paths \cup {fdTable[p][fd] : fd \in fds \ {AT_FDCWD}}) \cap TracePaths # {}

OpensAt(p, id, dirfd, raw, fd, path) ==
    /\ CanCall(p, id)
    /\ LET name == Named(p, dirfd, raw)
           Returning(ret) == Submit(Event(p, id, ret, fd, path, FALSE, Touches(p, {dirfd}, {name})))
       IN \/ /\ name \in files \cup dirs
             /\ \E new \in Fd : /\ LowestFree(p, new)
                               /\ fdTable' = [fdTable EXCEPT ![p][new] = name]
                               /\ Returning(new)
                               /\ Learns(p, new, IF raw.abs THEN {} ELSE {dirfd})
          \/ /\ name \notin files \cup dirs \/ FreeFds(p) = {}
             /\ Returning(-1)
             /\ UNCHANGED <<fdTable, lost>>
    /\ UNCHANGED <<filterVars, live, cwd, dirs, files, forking, program, inherited, confused>>

Open(p, raw) == OpensAt(p, "open", AT_FDCWD, raw, NoFds, [NoPaths EXCEPT ![0] = raw])

OpenAt(p, dirfd, raw) ==
    OpensAt(p, "openat", dirfd, raw, [NoFds EXCEPT ![0] = dirfd], [NoPaths EXCEPT ![1] = raw])

\* Calls that only look at a path or a descriptor.
Stat(p, raw) ==
    /\ CanCall(p, "newstat")
    /\ Submit(Event(p, "newstat", 0, NoFds, [NoPaths EXCEPT ![0] = raw], FALSE,
                    Touches(p, {}, {Named(p, AT_FDCWD, raw)})))
    /\ UNCHANGED <<filterVars, osVars, historyVars>>

StatAt(p, dirfd, raw) ==
    /\ CanCall(p, "newfstatat")
    /\ Submit(Event(p, "newfstatat", 0, [NoFds EXCEPT ![0] = dirfd], [NoPaths EXCEPT ![1] = raw],
                    FALSE, Touches(p, {dirfd}, {Named(p, dirfd, raw)})))
    /\ UNCHANGED <<filterVars, osVars, historyVars>>

\* The descriptor-typed arguments that are none: counts or descriptors of
\* another process, and pointers.
NumberArgs(id) == IF id \in {"poll", "ppoll", "pidfd_getfd"} THEN {1} ELSE {}
PointerArgs(id) ==
    CASE id \in {"poll", "ppoll", "pipe", "pipe2"} -> {0}
      [] id = "execve" -> {1, 2}
      [] id = "execveat" -> {2, 3}
      [] OTHER -> {}
RealFdArgs(id) == FdArgs(id) \ (NumberArgs(id) \cup PointerArgs(id))

\* The calls of the table that have descriptors and no handler in the filter.
UseIds == {id \in Listed : FdArgs(id) # {}} \ (SupportIds \cup {"execve", "execveat", "close_range"})

Use(p, id, arg) ==
    /\ CanCall(p, id)
    /\ LET used == {arg[i] : i \in RealFdArgs(id)}
       IN Submit(Event(p, id, IF \E fd \in used : fdTable[p][fd] = NoPath THEN -1 ELSE 0,
                       [i \in 0..5 |-> IF i \in DOMAIN arg THEN arg[i] ELSE AT_FDCWD],
                       NoPaths, FALSE, Touches(p, used, {})))
    /\ UNCHANGED <<filterVars, osVars, historyVars>>

Close(p, fd) ==
    /\ CanCall(p, "close") /\ fdTable[p][fd] # NoPath
    /\ fdTable' = [fdTable EXCEPT ![p][fd] = NoPath]
    /\ Submit(Event(p, "close", 0, [NoFds EXCEPT ![0] = fd], NoPaths, FALSE,
                    Touches(p, {fd}, {})))
    /\ Learns(p, fd, {})
    /\ UNCHANGED <<filterVars, live, cwd, dirs, files, forking, program, inherited, confused>>

\* An open and a close whose events are lost.
OpenLost(p, raw, new) ==
    /\ CanCall(p, "open_lost") /\ Named(p, AT_FDCWD, raw) \in files \cup dirs /\ LowestFree(p, new)
    /\ fdTable' = [fdTable EXCEPT ![p][new] = Named(p, AT_FDCWD, raw)]
    /\ Drop
    /\ Misses(p, {new})
    /\ UNCHANGED <<filterVars, live, cwd, dirs, files, forking, program, inherited, confused>>

CloseLost(p, fd) ==
    /\ CanCall(p, "close_lost") /\ fdTable[p][fd] # NoPath
    /\ fdTable' = [fdTable EXCEPT ![p][fd] = NoPath]
    /\ Drop
    /\ Misses(p, {fd})
    /\ UNCHANGED <<filterVars, live, cwd, dirs, files, forking, program, inherited, confused>>

\* Calls that close descriptors and that the filter does not observe.
ClosesUnobserved(p, id, fds, fd, used) ==
    /\ CanCall(p, id)
    /\ fdTable' = [fdTable EXCEPT ![p] = [n \in Fd |-> IF n \in fds THEN NoPath ELSE @[n]]]
    /\ Submit(Event(p, id, 0, fd, NoPaths, FALSE, Touches(p, used, {})))
    /\ Misses(p, {n \in fds : fdTable[p][n] # NoPath})
    /\ UNCHANGED <<filterVars, live, cwd, dirs, files, forking, program, inherited, confused>>

CloseRange(p, first, last) ==
    ClosesUnobserved(p, "close_range", Fd \cap first..last,
                     [NoFds EXCEPT ![0] = first, ![1] = last], {first, last})

\* A successful execve closes some descriptors, those marked close-on-exec.
Execve(p, marked) == ClosesUnobserved(p, "execve", marked, NoFds, {})

Dup(p, fd, new) ==
    /\ CanCall(p, "dup") /\ fdTable[p][fd] # NoPath /\ LowestFree(p, new)
    /\ fdTable' = [fdTable EXCEPT ![p][new] = fdTable[p][fd]]
    /\ Submit(Event(p, "dup", new, [NoFds EXCEPT ![0] = fd], NoPaths, FALSE,
                    Touches(p, {fd}, {})))
    /\ Learns(p, new, {fd})
    /\ UNCHANGED <<filterVars, live, cwd, dirs, files, forking, program, inherited, confused>>

\* The new descriptor's old file counts: it is an argument of the call.
Dup2(p, fd, new) ==
    /\ CanCall(p, "dup2") /\ fdTable[p][fd] # NoPath
    /\ fdTable' = [fdTable EXCEPT ![p][new] = fdTable[p][fd]]
    /\ Submit(Event(p, "dup2", new, [NoFds EXCEPT ![0] = fd, ![1] = new], NoPaths, FALSE,
                    Touches(p, {fd, new}, {})))
    /\ Learns(p, new, {fd})
    /\ UNCHANGED <<filterVars, live, cwd, dirs, files, forking, program, inherited, confused>>

\* A duplicate of an untracked descriptor is one the filter never hears of.
FcntlDup(p, fd, new) ==
    /\ CanCall(p, "fcntl_dupfd") /\ fdTable[p][fd] # NoPath /\ LowestFree(p, new)
    /\ fdTable' = [fdTable EXCEPT ![p][new] = fdTable[p][fd]]
    /\ Submit(Event(p, "fcntl_dupfd", new, [NoFds EXCEPT ![0] = fd], NoPaths, FALSE,
                    Touches(p, {fd}, {})))
    /\ IF fdTable[p][fd] \in TracePaths THEN Learns(p, new, {fd}) ELSE Misses(p, {new})
    /\ UNCHANGED <<filterVars, live, cwd, dirs, files, forking, program, inherited, confused>>

Chdir(p, raw) ==
    /\ CanCall(p, "chdir")
    /\ LET name == Named(p, AT_FDCWD, raw)
       IN /\ cwd' = IF name \in dirs THEN [cwd EXCEPT ![p] = name] ELSE cwd
          /\ Submit(Event(p, "chdir", IF name \in dirs THEN 0 ELSE -1, NoFds,
                          [NoPaths EXCEPT ![0] = raw], FALSE, Touches(p, {}, {name})))
    /\ UNCHANGED <<filterVars, live, fdTable, dirs, files, forking, program, historyVars>>

Fchdir(p, fd) ==
    /\ CanCall(p, "fchdir") /\ fdTable[p][fd] \in dirs
    /\ cwd' = [cwd EXCEPT ![p] = fdTable[p][fd]]
    /\ Submit(Event(p, "fchdir", 0, [NoFds EXCEPT ![0] = fd], NoPaths, FALSE,
                    Touches(p, {fd}, {})))
    /\ confused' = IF fd \in lost[p] THEN confused \cup {p} ELSE confused
    /\ UNCHANGED <<filterVars, live, fdTable, dirs, files, forking, program, inherited, lost>>

\* A file or directory called from, and all below it, is now called to; what
\* was called to is gone.
Moved(path, from, to) ==
    IF path = NoPath \/ path = to THEN NoPath
    ELSE IF IsPrefix(from, path) THEN to \o SubSeq(path, Len(from) + 1, Len(path))
    ELSE path

\* The filter resolves the path from a descriptor it may be wrong about.
Misled(p, dirfd, raw) == ~raw.abs /\ dirfd \in lost[p]

\* The kernel renames for everybody, the filter for the caller alone; nor does
\* it notice a file of the caller's that the new name replaces.
Renames(p, id, dirfd, old, newdirfd, new, fd, path) ==
    LET from == Named(p, dirfd, old)
        to == Named(p, newdirfd, new)
    IN /\ CanCall(p, id)
       /\ from \in files \cup dirs /\ to # NoPath /\ ~IsPrefix(from, to) /\ ~IsPrefix(to, from)
       /\ Parent(to) \in dirs /\ to \notin dirs /\ (from \in dirs => to \notin files)
       /\ files' = {Moved(f, from, to) : f \in files \ {to}}
       /\ dirs' = {Moved(d, from, to) : d \in dirs}
       /\ fdTable' = [q \in Pid |-> [n \in Fd |-> Moved(fdTable[q][n], from, to)]]
       /\ cwd' = [q \in Pid |-> Moved(cwd[q], from, to)]
       /\ Submit(Event(p, id, 0, fd, path, FALSE, Touches(p, {dirfd, newdirfd}, {from, to})))
       /\ confused' = confused \cup {q \in live \ {p} : fdTable'[q] # fdTable[q] \/ cwd'[q] # cwd[q]}
                               \cup {q \in {p} : \/ \E n \in Fd : fdTable[q][n] = to
                                                 \/ Misled(q, dirfd, old) \/ Misled(q, newdirfd, new)}
       /\ UNCHANGED <<filterVars, live, forking, program, inherited, lost>>

Rename(p, old, new) ==
    Renames(p, "rename", AT_FDCWD, old, AT_FDCWD, new, NoFds,
            [NoPaths EXCEPT ![0] = old, ![1] = new])

RenameAt(p, dirfd, old, newdirfd, new) ==
    Renames(p, "renameat", dirfd, old, newdirfd, new,
            [NoFds EXCEPT ![0] = dirfd, ![2] = newdirfd],
            [NoPaths EXCEPT ![1] = old, ![3] = new])

Unlinks(p, id, dirfd, raw, fd, path) ==
    LET name == Named(p, dirfd, raw)
    IN /\ CanCall(p, id) /\ name \in files
       /\ files' = files \ {name}
       /\ fdTable' = [q \in Pid |-> [n \in Fd |-> IF fdTable[q][n] = name THEN NoPath
                                                  ELSE fdTable[q][n]]]
       /\ Submit(Event(p, id, 0, fd, path, FALSE, Touches(p, {dirfd}, {name})))
       /\ confused' = confused \cup {q \in live \ {p} : fdTable'[q] # fdTable[q]}
                               \cup {q \in {p} : Misled(q, dirfd, raw)}
       /\ UNCHANGED <<filterVars, live, cwd, dirs, forking, program, inherited, lost>>

Unlink(p, raw) == Unlinks(p, "unlink", AT_FDCWD, raw, NoFds, [NoPaths EXCEPT ![0] = raw])

UnlinkAt(p, dirfd, raw) ==
    Unlinks(p, "unlinkat", dirfd, raw, [NoFds EXCEPT ![0] = dirfd], [NoPaths EXCEPT ![1] = raw])

\* Events about p are still on their way to the filter.
Awaited(p) ==
    \/ \E i \in 1..Len(queue) : queue[i].pid = p \/ p \in ChildPID(queue[i])
    \/ \E q \in Pid : forking[q] = p

\* The child exists and runs; its parent's event comes later.  A pid reused
\* while events about its former owner are queued is lost on the filter.
Fork(p, child) ==
    /\ CanCall(p, "fork") /\ child \notin live
    /\ live' = live \cup {child}
    /\ fdTable' = [fdTable EXCEPT ![child] = fdTable[p]]
    /\ cwd' = [cwd EXCEPT ![child] = cwd[p]]
    /\ forking' = [forking EXCEPT ![p] = child]
    /\ inherited' = inherited \ {child}
    /\ confused' = IF p \in confused \/ Awaited(child) THEN confused \cup {child}
                                                      ELSE confused \ {child}
    /\ lost' = [lost EXCEPT ![child] = lost[p]]
    /\ UNCHANGED <<filterVars, dirs, files, program, queue, count>>

ForkReturn(p) ==
    /\ forking[p] # 0
    /\ forking' = [forking EXCEPT ![p] = 0]
    /\ Submit(Event(p, "fork", forking[p], NoFds, NoPaths, TRUE, FALSE))
    /\ UNCHANGED <<filterVars, live, fdTable, cwd, dirs, files, program, historyVars>>

Exit(p) ==
    /\ CanCall(p, "exit") /\ p # First
    /\ live' = live \ {p}
    /\ UNCHANGED <<filterVars, fdTable, cwd, dirs, files, forking, program, queue, count, historyVars>>

-----------------------------------------------------------------------------
(***************************************************************************)
(* The event loop of Run: the oldest event goes through shouldOutput,      *)
(* which may look at /proc as it is now.                                   *)
(***************************************************************************)
ProcCwd(p) == IF p \in live THEN cwd[p] ELSE NoPath

\* The filter learns the working directory now, and it is no longer the one
\* the call was made in.
LearnsLate(ev) ==
    /\ \E j \in 1..Len(PathArgs(ev.id)) : UsesCwd(ev, PathArgs(ev.id)[j])
    /\ stateByPID[ev.pid].cwd = NoPath
    /\ ProcCwd(ev.pid) # ev.at

HandleEvent ==
    /\ queue # <<>>
    /\ LET ev == Head(queue)
           children == ChildPID(ev)
       IN /\ ShouldOutput(ev, ProcCwd(ev.pid))
          /\ inherited' = inherited \cup children
          /\ confused' = confused
                \cup (IF LearnsLate(ev) \/ ev.pid \notin inherited THEN {ev.pid} ELSE {})
                \cup (IF ev.pid \in confused \/ ev.pid \notin inherited THEN children ELSE {})
    /\ queue' = Tail(queue)
    /\ UNCHANGED <<osVars, count, lost>>

\* The descriptors an event is about.
Descriptors(ev) ==
    {ev.fd[i] : i \in 0..5} \cup (IF ev.id \in {"open", "openat", "dup", "fcntl_dupfd"} THEN {ev.ret} ELSE {})

\* Neither event depends on the other: each is about its own descriptors, and
\* neither changes the directory, the tree or the processes.
Independent(a, b) ==
    /\ {a.id, b.id} \subseteq UseIds \cup {"open", "openat", "newstat", "newfstatat", "close", "dup",
                                          "dup2", "fcntl_dupfd"}
    /\ Descriptors(a) \cap Descriptors(b) \subseteq {AT_FDCWD}

\* Two threads of a process reserve their events in the order opposite to
\* their calls.
Overtake(i) ==
    /\ i < Len(queue) /\ queue[i].pid = queue[i + 1].pid /\ "overtake" \in program
    /\ queue' = [queue EXCEPT ![i] = queue[i + 1], ![i + 1] = queue[i]]
    /\ confused' = IF Independent(queue[i], queue[i + 1]) THEN confused
                   ELSE confused \cup {queue[i].pid}
    /\ UNCHANGED <<filterVars, osVars, count, inherited, lost>>

Process(p) ==
    \/ \E raw \in Raw : Open(p, raw) \/ Stat(p, raw) \/ Chdir(p, raw) \/ Unlink(p, raw)
    \/ \E raw \in Raw, new \in Fd : OpenLost(p, raw, new)
    \/ \E raw \in Raw, dirfd \in Fd \cup {AT_FDCWD} :
            OpenAt(p, dirfd, raw) \/ StatAt(p, dirfd, raw) \/ UnlinkAt(p, dirfd, raw)
    \/ \E old, new \in Raw :
            \/ Rename(p, old, new)
            \/ \E dirfd, newdirfd \in Fd \cup {AT_FDCWD} : RenameAt(p, dirfd, old, newdirfd, new)
    \/ \E id \in UseIds \cap program : \E arg \in [RealFdArgs(id) \cup NumberArgs(id) -> Fd] :
            Use(p, id, arg)
    \/ \E fd \in Fd : Close(p, fd) \/ CloseLost(p, fd) \/ Fchdir(p, fd)
    \/ \E first, last \in Fd : CloseRange(p, first, last)
    \/ \E marked \in SUBSET Fd : Execve(p, marked)
    \/ \E fd, new \in Fd : Dup(p, fd, new) \/ Dup2(p, fd, new) \/ FcntlDup(p, fd, new)
    \/ \E child \in Pid : Fork(p, child)
    \/ ForkReturn(p)
    \/ Exit(p)

Next ==
    \/ HandleEvent
    \/ \E i \in 1..Len(queue) : Overtake(i)
    \/ \E p \in Pid : Process(p)

Spec == Init /\ [][Next]_vars
-----------------------------------------------------------------------------
(***************************************************************************)
(* Properties                                                              *)
(***************************************************************************)
AbsPath == Seq(Names) \cup {NoPath}

\* The filter's tables and the kernel's have the types the code gives them.
TypeOK ==
    /\ \A p \in Pid : /\ stateByPID[p].cwd \in AbsPath
                      /\ stateByPID[p].trackedFDs \subseteq Fd
                      /\ stateByPID[p].fdPaths \in [Fd -> AbsPath]
    /\ output \in BOOLEAN
    /\ live \subseteq Pid /\ inherited \subseteq Pid /\ confused \subseteq Pid
    /\ lost \in [Pid -> SUBSET Fd] /\ program \in Programs
    /\ fdTable \in [Pid -> [Fd -> AbsPath]]
    /\ dirs \subseteq Seq(Names) /\ files \subseteq Seq(Names) /\ cwd \in [Pid -> dirs]
    /\ forking \in [Pid -> Pid \cup {0}]
    /\ count \in 0..MaxEvents + Cardinality(Pid)

\* An event is printed exactly when its call touched a traced path, for every
\* process whose working directory was learnt in time, whose files only it
\* renames and whose threads' dependent events are queued in order.  Losing
\* sight of a descriptor (a lost close, close_range, execve) spoils only the
\* calls on that descriptor, until its number is opened or duplicated anew.
PrintsHits ==
    (queue # <<>> /\ queue' = Tail(queue)) =>
        LET ev == Head(queue)
        IN (ev.pid \notin confused' /\ ~ev.doubt) => output' = (UserAllows(ev.id) /\ ev.hit)
OutputExact == [][PrintsHits]_vars

\* Once the filter has caught up with a process it knows its descriptors and
\* its working directory, whatever other processes did and whichever of them,
\* or of its other descriptors, it is wrong about.
FilterKnows ==
    \A p \in live \ confused : (p \in inherited /\ ~Awaited(p)) =>
        /\ \A fd \in Fd \ lost[p] : stateByPID[p].fdPaths[fd] = fdTable[p][fd]
        /\ stateByPID[p].cwd \in {NoPath, cwd[p]}

(***************************************************************************)
(* What the help text promises of -P; checked to fail.                     *)
(***************************************************************************)
\* An event whose call touched a traced path is printed.
PrintsAllHits ==
    (queue # <<>> /\ queue' = Tail(queue) /\ Head(queue).hit /\ UserAllows(Head(queue).id)) => output'
NoMissedAccess == [][PrintsAllHits]_vars

\* An event that is printed is that of a call that touched a traced path.
PrintsOnlyHits ==
    (queue # <<>> /\ queue' = Tail(queue) /\ output') => Head(queue).hit
OnlyAccesses == [][PrintsOnlyHits]_vars
=============================================================================
