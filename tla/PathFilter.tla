----------------------------- MODULE PathFilter -----------------------------
(***************************************************************************)
(* The -P path filter of internal/path_filter.go: from the stream of       *)
(* decoded events it rebuilds, for every process, its working directory    *)
(* and the path behind each file descriptor, and decides which events      *)
(* touch a traced path.                                                    *)
(*                                                                         *)
(* An absolute path is the sequence of its components.  A path argument is *)
(* [abs, comps] with ".." among the components, or NoPath when it was not  *)
(* captured whole (eventTracePathAt) or is empty.  A process without an    *)
(* entry in stateByPID has the state Empty: every reader in the code       *)
(* treats a nil *processPathState as an empty one, and maybeDropPIDState   *)
(* and cloneProcessPathState turn an empty one back into none.             *)
(***************************************************************************)
EXTENDS SyscallSchema, SequencesExt

CONSTANTS
    Pid,            \* process ids
    Fd,             \* file descriptor numbers
    NoPath,         \* no path known
    TracePaths,     \* the -P arguments
    TraceIds        \* the -e trace= argument, {} when absent

ASSUME PidAssumption == Pid \subseteq Nat \ {0} /\ Fd \subseteq Nat
ASSUME PathAssumption == NoPath \notin TracePaths

VARIABLES
    stateByPID,     \* process -> [cwd, trackedFDs, fdPaths]
    output          \* what shouldOutput answered last

filterVars == <<stateByPID, output>>

AT_FDCWD == -100

Empty == [cwd |-> NoPath, trackedFDs |-> {}, fdPaths |-> [fd \in Fd |-> NoPath]]

-----------------------------------------------------------------------------
(***************************************************************************)
(* Paths: filepath.Clean and filepath.Join on components, and the rewrite  *)
(* of a renamed prefix.                                                    *)
(***************************************************************************)
Parent(path) == IF path = <<>> THEN <<>> ELSE Front(path)

\* One component at a time from base: a name leads down, ".." up, and at the
\* root nowhere.
Walk(base, comps) ==
    LET at[i \in 0..Len(comps)] == IF i = 0 THEN base
                                   ELSE IF comps[i] = ".." THEN Parent(at[i - 1])
                                   ELSE Append(at[i - 1], comps[i])
    IN at[Len(comps)]

Clean(comps) == Walk(<<>>, comps)

\* Joined without filepath.Clean.
JoinRaw(base, comps) == base \o comps

Join(base, comps) == Clean(base \o comps)

IsBelow(path, base) == base # <<>> /\ IsStrictPrefix(base, path)

RewritePathPrefix(path, oldBase, newBase) ==
    IF path = NoPath THEN NoPath
    ELSE IF path = oldBase THEN newBase
    ELSE IF IsBelow(path, oldBase) THEN newBase \o SubSeq(path, Len(oldBase) + 1, Len(path))
    ELSE path

-----------------------------------------------------------------------------
(***************************************************************************)
(* Which arguments of which call are paths and file descriptors.  The      *)
(* calls of one row below are treated alike and go by the first name;      *)
(* "fcntl_dupfd" is fcntl with F_DUPFD or F_DUPFD_CLOEXEC.                 *)
(***************************************************************************)
Alike == {{"openat", "openat2"}, {"dup2", "dup3"}, {"newstat", "newlstat", "access"},
          {"newfstatat", "faccessat", "faccessat2", "statx"}, {"renameat", "renameat2"}}
ASSUME AlikeAssumption == \A calls \in Alike : \A c, d \in calls : FdArgs(c) = FdArgs(d)

\* The arguments of an event that count as descriptors.  VAR_ARG_ARGV has the
\* value of ARG_FD, so execve's argv and envp do.
EventFdArgs(id) == FdArgs(IF id = "fcntl_dupfd" THEN "fcntl" ELSE id)

\* The arguments matchesPath looks at, in its order.
PathArgs(id) ==
    CASE id \in {"open", "newstat", "chdir", "unlink"} -> <<0>>
      [] id \in {"openat", "newfstatat", "unlinkat"} -> <<1>>
      [] id = "rename" -> <<0, 1>>
      [] id = "renameat" -> <<1, 3>>
      [] OTHER -> <<>>

\* pathBaseFDArgIndex: the descriptor a relative path starts from, -1 for the
\* working directory.
BaseFdArg(id, i) ==
    CASE id \in {"openat", "newfstatat", "unlinkat"} /\ i = 1 -> 0
      [] id = "renameat" /\ i = 1 -> 0
      [] id = "renameat" /\ i = 3 -> 2
      [] OTHER -> -1

-----------------------------------------------------------------------------
(***************************************************************************)
(* Resolving a path argument.  proc is what /proc/<pid>/cwd says at this   *)
(* moment, NoPath when it cannot be read; the first time it is needed it   *)
(* is remembered as the process's working directory.                       *)
(***************************************************************************)
UsesCwd(ev, i) ==
    LET b == BaseFdArg(ev.id, i)
    IN ev.path[i] # NoPath /\ ~ev.path[i].abs /\ (b = -1 \/ ev.fd[b] = AT_FDCWD)

CacheCwd(s, ev, i, proc) ==
    IF UsesCwd(ev, i) /\ s.cwd = NoPath THEN [s EXCEPT !.cwd = proc] ELSE s

FdPath(s, fd) == IF fd \in Fd THEN s.fdPaths[fd] ELSE NoPath

Base(s, ev, i) == IF UsesCwd(ev, i) THEN s.cwd ELSE FdPath(s, ev.fd[BaseFdArg(ev.id, i)])

\* Applied to a state that CacheCwd returned for the same argument.
ResolvePathAt(s, ev, i) ==
    IF ev.path[i] = NoPath THEN NoPath
    ELSE IF ev.path[i].abs THEN Join(<<>>, ev.path[i].comps)
    ELSE IF Base(s, ev, i) = NoPath THEN NoPath
    ELSE Join(Base(s, ev, i), ev.path[i].comps)

-----------------------------------------------------------------------------
(***************************************************************************)
(* shouldPrint                                                             *)
(***************************************************************************)
UserAllows(id) == TraceIds = {} \/ id \in TraceIds

\* pathFilterSupportSyscallIDs and, with -f, pathFilterForkSupportSyscallIDs.
SupportIds == {"open", "openat", "close", "dup", "dup2", "fcntl", "fcntl_dupfd", "chdir", "fchdir",
               "rename", "renameat", "unlink", "unlinkat", "newstat", "newfstatat"}
ForkSupportIds == {"fork"}

\* Only what -e asks for, whether -P is given or not.
UserTraceIds == TraceIds

\* handleTraceSyscallIDs, with -f: what the kernel is told to select, {} for
\* everything.
HandleTraceIds ==
    IF TracePaths = {} \/ TraceIds = {} THEN TraceIds
    ELSE TraceIds \cup SupportIds \cup ForkSupportIds

\* trace_filter_enabled and trace_syscall_filter, as applyConfig sets them.
KernelSelects(id) == HandleTraceIds = {} \/ id \in HandleTraceIds

MatchesPathAt(s, ev, i) == ResolvePathAt(s, ev, i) \in TracePaths

\* The state after matchesPath tried the first n path arguments; it stops at
\* the first that matches.
AfterMatch(s, ev, proc) ==
    LET args == PathArgs(ev.id)
        first == CacheCwd(s, ev, args[1], proc)
    IN IF args = <<>> \/ ~UserAllows(ev.id) THEN s
       ELSE IF Len(args) = 1 \/ MatchesPathAt(first, ev, args[1]) THEN first
       ELSE CacheCwd(first, ev, args[2], proc)

\* s is the state AfterMatch returned.
MatchesPath(s, ev) == \E j \in 1..Len(PathArgs(ev.id)) : MatchesPathAt(s, ev, PathArgs(ev.id)[j])

HasTrackedFDArg(s, ev) == \E i \in EventFdArgs(ev.id) : ev.fd[i] \in s.trackedFDs

ShouldPrint(s, ev) == UserAllows(ev.id) /\ (MatchesPath(s, ev) \/ HasTrackedFDArg(s, ev))

-----------------------------------------------------------------------------
(***************************************************************************)
(* observe: one operator per handler, from the state of the event's        *)
(* process to its next state.                                              *)
(***************************************************************************)
\* setFDPath then syncTrackedFD.
AssignFD(s, fd, path) ==
    [cwd |-> s.cwd,
     trackedFDs |-> IF path \in TracePaths THEN s.trackedFDs \cup {fd} ELSE s.trackedFDs \ {fd},
     fdPaths |-> [s.fdPaths EXCEPT ![fd] = path]]

\* unsetFDPath and untrackFD.
ClearFD(s, fd) ==
    [cwd |-> s.cwd, trackedFDs |-> s.trackedFDs \ {fd},
     fdPaths |-> [s.fdPaths EXCEPT ![fd] = NoPath]]

TrackFD(s, fd) == [s EXCEPT !.trackedFDs = @ \cup {fd}]

ObserveOpen(s, ev, i, proc) ==
    LET resolved == CacheCwd(s, ev, i, proc)
        path == ResolvePathAt(resolved, ev, i)
    IN IF path = NoPath THEN resolved ELSE AssignFD(resolved, ev.ret, path)

\* dup that copies the path and forgets to track the copy.
ObserveDupPathOnly(s, ev) == [s EXCEPT !.fdPaths[ev.ret] = FdPath(s, ev.fd[0])]

ObserveDupRet(s, ev) ==
    LET path == FdPath(s, ev.fd[0])
        copied == IF path # NoPath THEN AssignFD(s, ev.ret, path) ELSE s
    IN IF ev.fd[0] \in copied.trackedFDs THEN TrackFD(copied, ev.ret) ELSE copied

ObserveDupPair(s, ev) ==
    LET path == FdPath(s, ev.fd[0])
        copied == IF path # NoPath THEN AssignFD(s, ev.fd[1], path) ELSE ClearFD(s, ev.fd[1])
    IN IF ev.fd[0] \in copied.trackedFDs THEN TrackFD(copied, ev.fd[1])
       ELSE [copied EXCEPT !.trackedFDs = @ \ {ev.fd[1]}]

ObserveFcntl(s, ev) ==
    LET path == FdPath(s, ev.fd[0])
        copied == IF path # NoPath THEN AssignFD(s, ev.ret, path) ELSE s
    IN IF ev.fd[0] \in s.trackedFDs THEN TrackFD(copied, ev.ret) ELSE s

\* close that forgets unsetFDPath.
ObserveCloseUntracks(s, ev) == [s EXCEPT !.trackedFDs = @ \ {ev.fd[0]}]

ObserveClose(s, ev) == ClearFD(s, ev.fd[0])

ObserveChdir(s, ev, proc) ==
    LET resolved == CacheCwd(s, ev, 0, proc)
        path == ResolvePathAt(resolved, ev, 0)
    IN IF path = NoPath THEN resolved ELSE [resolved EXCEPT !.cwd = path]

\* fchdir taken for a call that changes nothing.
ObserveFchdirIgnored(s, ev) == s

ObserveFchdir(s, ev) ==
    LET path == FdPath(s, ev.fd[0]) IN IF path = NoPath THEN s ELSE [s EXCEPT !.cwd = path]

\* A rename that moves the paths and leaves the tracked set as it was.
RewritePathsOnly(s, oldPath, newPath) ==
    [s EXCEPT !.cwd = RewritePathPrefix(s.cwd, oldPath, newPath),
              !.fdPaths = [fd \in Fd |-> RewritePathPrefix(s.fdPaths[fd], oldPath, newPath)]]

\* rewritePIDPaths: tracking is synchronised for the descriptors that moved.
RewritePIDPaths(s, oldPath, newPath) ==
    LET moved == {fd \in Fd : /\ s.fdPaths[fd] # NoPath
                              /\ s.fdPaths[fd] = oldPath \/ IsBelow(s.fdPaths[fd], oldPath)}
        paths == [fd \in Fd |-> RewritePathPrefix(s.fdPaths[fd], oldPath, newPath)]
    IN [cwd |-> RewritePathPrefix(s.cwd, oldPath, newPath),
        trackedFDs |-> (s.trackedFDs \ moved) \cup {fd \in moved : paths[fd] \in TracePaths},
        fdPaths |-> paths]

ObserveRename(s, ev, oldIndex, newIndex, proc) ==
    LET one == CacheCwd(s, ev, oldIndex, proc)
        oldPath == ResolvePathAt(one, ev, oldIndex)
        two == CacheCwd(one, ev, newIndex, proc)
        newPath == ResolvePathAt(two, ev, newIndex)
    IN IF oldPath = NoPath THEN one
       ELSE IF newPath = NoPath THEN two
       ELSE RewritePIDPaths(two, oldPath, newPath)

DropPIDPaths(s, target) ==
    LET dropped == {fd \in Fd : s.fdPaths[fd] = target}
    IN [cwd |-> s.cwd, trackedFDs |-> s.trackedFDs \ dropped,
        fdPaths |-> [fd \in Fd |-> IF fd \in dropped THEN NoPath ELSE s.fdPaths[fd]]]

ObserveUnlink(s, ev, i, proc) ==
    LET resolved == CacheCwd(s, ev, i, proc)
        path == ResolvePathAt(resolved, ev, i)
    IN IF path = NoPath THEN resolved ELSE DropPIDPaths(resolved, path)

\* Every handler returns at once for a failed call.
ObserveCall(s, ev, proc) ==
    CASE ev.ret < 0 -> s
      [] ev.ret >= 0 /\ ev.id = "open" -> ObserveOpen(s, ev, 0, proc)
      [] ev.ret >= 0 /\ ev.id = "openat" -> ObserveOpen(s, ev, 1, proc)
      [] ev.ret >= 0 /\ ev.id = "dup" -> ObserveDupRet(s, ev)
      [] ev.ret >= 0 /\ ev.id = "dup2" -> ObserveDupPair(s, ev)
      [] ev.ret >= 0 /\ ev.id = "fcntl_dupfd" -> ObserveFcntl(s, ev)
      [] ev.ret >= 0 /\ ev.id = "close" -> ObserveClose(s, ev)
      [] ev.ret >= 0 /\ ev.id = "chdir" -> ObserveChdir(s, ev, proc)
      [] ev.ret >= 0 /\ ev.id = "fchdir" -> ObserveFchdir(s, ev)
      [] ev.ret >= 0 /\ ev.id = "rename" -> ObserveRename(s, ev, 0, 1, proc)
      [] ev.ret >= 0 /\ ev.id = "renameat" -> ObserveRename(s, ev, 1, 3, proc)
      [] ev.ret >= 0 /\ ev.id = "unlink" -> ObserveUnlink(s, ev, 0, proc)
      [] ev.ret >= 0 /\ ev.id = "unlinkat" -> ObserveUnlink(s, ev, 1, proc)
      [] OTHER -> s

\* processCloneChildPID and observeForkChild: the child starts from a copy of
\* its parent's state, whatever is known of that pid.
ChildPID(ev) == IF ev.clone /\ ev.ret > 0 THEN {ev.ret} ELSE {}

\* observe without the clone: the child is known by what its own calls show.
ObserveNoFork(states, s, ev, proc) ==
    [states EXCEPT ![ev.pid] = ObserveCall(s, ev, proc)]

Observe(states, s, ev, proc) ==
    [p \in Pid |-> IF p = ev.pid THEN ObserveCall(s, ev, proc)
                   ELSE IF p \in ChildPID(ev) THEN s
                   ELSE states[p]]

-----------------------------------------------------------------------------
InitFilter == stateByPID = [p \in Pid |-> Empty] /\ output = FALSE

\* shouldOutput for one event.
ShouldOutput(ev, proc) ==
    IF TracePaths = {}
    THEN output' = TRUE /\ UNCHANGED stateByPID
    ELSE LET matched == AfterMatch(stateByPID[ev.pid], ev, proc)
         IN /\ output' = ShouldPrint(matched, ev)
            /\ stateByPID' = Observe(stateByPID, matched, ev, proc)

-----------------------------------------------------------------------------
(***************************************************************************)
(* Properties of the filter for any stream of events.                      *)
(***************************************************************************)
\* A descriptor is tracked exactly when the path behind it is a traced one:
\* the two maps of processPathState, which every handler updates by separate
\* calls, never drift apart, over any sequence of opens, dups, closes,
\* renames, unlinks and forks.
TrackedIffTraced ==
    \A p \in Pid : stateByPID[p].trackedFDs = {fd \in Fd : stateByPID[p].fdPaths[fd] \in TracePaths}
=============================================================================
