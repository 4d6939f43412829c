----------------------------- MODULE PathProofs -----------------------------
(***************************************************************************)
(* The two maps of a process's path state never drift apart, for any file  *)
(* tree, any set of processes, descriptors and traced paths, and runs of   *)
(* any length.                                                             *)
(***************************************************************************)
EXTENDS PathTrace, TLAPS

\* What of processPathState the proof needs: the fields, and a path (perhaps
\* NoPath) for every descriptor.
IsState(s) ==
    /\ s = [cwd |-> s.cwd, trackedFDs |-> s.trackedFDs, fdPaths |-> s.fdPaths]
    /\ s.fdPaths = [fd \in Fd |-> s.fdPaths[fd]]

Synced(s) == IsState(s) /\ s.trackedFDs = {fd \in Fd : s.fdPaths[fd] \in TracePaths}

\* What the filter relies on in an event: a call that returns a descriptor
\* returns one, dup2 names one, a fork a process, and a path is one that was
\* passed.
EventPaths == [{0, 1, 3} -> Raw \cup {NoPath}]

WellFormed(ev) ==
    /\ ev.pid \in Pid
    /\ ev.ret \in Int
    /\ (ev.id \in {"open", "openat", "dup", "fcntl_dupfd"} /\ ev.ret >= 0) => ev.ret \in Fd
    /\ ev.id = "dup2" => ev.fd[1] \in Fd
    /\ ev.path \in EventPaths
    /\ ev.clone => ev.id = "fork" /\ ev.ret \in Pid

-----------------------------------------------------------------------------
(***************************************************************************)
(* The handlers.                                                           *)
(***************************************************************************)
LEMMA EmptySynced == Synced(Empty)
BY PathAssumption DEF Synced, IsState, Empty

LEMMA CacheSynced ==
    ASSUME NEW s, Synced(s), NEW ev, NEW i, NEW proc
    PROVE  Synced(CacheCwd(s, ev, i, proc))
BY DEF Synced, IsState, CacheCwd

LEMMA AssignSynced ==
    ASSUME NEW s, Synced(s), NEW fd \in Fd, NEW path
    PROVE  /\ Synced(AssignFD(s, fd, path))
           /\ AssignFD(s, fd, path).fdPaths = [s.fdPaths EXCEPT ![fd] = path]
<1> DEFINE new == AssignFD(s, fd, path)
           paths == [s.fdPaths EXCEPT ![fd] = path]
           tracked == IF path \in TracePaths THEN s.trackedFDs \cup {fd} ELSE s.trackedFDs \ {fd}
<1>1. new = [cwd |-> s.cwd, trackedFDs |-> tracked, fdPaths |-> paths]
  BY DEF AssignFD
<1>2. new.trackedFDs = tracked /\ new.fdPaths = paths /\ new.cwd = s.cwd
  BY <1>1
<1>3. paths = [g \in Fd |-> IF g = fd THEN path ELSE s.fdPaths[g]]
  BY DEF Synced, IsState
<1>4. tracked = {g \in Fd : paths[g] \in TracePaths}
  BY <1>3 DEF Synced
<1> HIDE DEF new, paths, tracked
<1>5. IsState(new)
  BY <1>1, <1>2, <1>3 DEF IsState
<1> QED BY <1>2, <1>4, <1>5 DEF Synced, new, paths

LEMMA ClearSynced ==
    ASSUME NEW s, Synced(s), NEW fd
    PROVE  /\ Synced(ClearFD(s, fd))
           /\ fd \notin ClearFD(s, fd).trackedFDs
<1> DEFINE new == ClearFD(s, fd)
           paths == [s.fdPaths EXCEPT ![fd] = NoPath]
           tracked == s.trackedFDs \ {fd}
<1>1. new = [cwd |-> s.cwd, trackedFDs |-> tracked, fdPaths |-> paths]
  BY DEF ClearFD
<1>2. new.trackedFDs = tracked /\ new.fdPaths = paths /\ new.cwd = s.cwd
  BY <1>1
<1>3. paths = [g \in Fd |-> IF g = fd THEN NoPath ELSE s.fdPaths[g]]
  BY DEF Synced, IsState
<1>4. tracked = {g \in Fd : paths[g] \in TracePaths}
  BY <1>3, PathAssumption DEF Synced
<1> HIDE DEF new, paths, tracked
<1>5. IsState(new)
  BY <1>1, <1>2, <1>3 DEF IsState
<1> QED BY <1>2, <1>4, <1>5 DEF Synced, new, tracked

\* Tracking a descriptor whose path is traced changes nothing.
LEMMA TrackSynced ==
    ASSUME NEW s, Synced(s), NEW fd \in Fd, s.fdPaths[fd] \in TracePaths
    PROVE  TrackFD(s, fd) = s
BY DEF Synced, IsState, TrackFD

\* The path of a tracked descriptor is known, and traced.
LEMMA TrackedPath ==
    ASSUME NEW s, Synced(s), NEW fd \in s.trackedFDs
    PROVE  fd \in Fd /\ FdPath(s, fd) = s.fdPaths[fd] /\ FdPath(s, fd) \in TracePaths
           /\ FdPath(s, fd) # NoPath
BY PathAssumption DEF Synced, FdPath

LEMMA OpenSynced ==
    ASSUME NEW s, Synced(s), NEW ev, NEW i, NEW proc, ev.ret \in Fd
    PROVE  Synced(ObserveOpen(s, ev, i, proc))
BY CacheSynced, AssignSynced DEF ObserveOpen

LEMMA DupRetSynced ==
    ASSUME NEW s, Synced(s), NEW ev, ev.ret \in Fd
    PROVE  Synced(ObserveDupRet(s, ev))
<1> DEFINE path == FdPath(s, ev.fd[0])
           copied == IF path # NoPath THEN AssignFD(s, ev.ret, path) ELSE s
<1>1. Synced(copied)
  BY AssignSynced
<1>2. ASSUME ev.fd[0] \in copied.trackedFDs PROVE Synced(TrackFD(copied, ev.ret))
  <2>1. ev.fd[0] \in Fd /\ copied.fdPaths[ev.fd[0]] \in TracePaths
    BY <1>1, <1>2, TrackedPath
  <2>2. path # NoPath
    BY <1>2, TrackedPath
  <2>3. copied.fdPaths = [s.fdPaths EXCEPT ![ev.ret] = path]
    BY <2>2, AssignSynced
  <2>4. path = s.fdPaths[ev.fd[0]]
    BY <2>1 DEF FdPath
  <2>5. copied.fdPaths[ev.ret] = path /\ copied.fdPaths[ev.fd[0]] = path
    BY <2>1, <2>3, <2>4 DEF Synced, IsState
  <2> QED BY <1>1, <2>1, <2>5, TrackSynced
<1> QED BY <1>1, <1>2 DEF ObserveDupRet

LEMMA DupPairSynced ==
    ASSUME NEW s, Synced(s), NEW ev, ev.fd[1] \in Fd
    PROVE  Synced(ObserveDupPair(s, ev))
<1> DEFINE path == FdPath(s, ev.fd[0])
           copied == IF path # NoPath THEN AssignFD(s, ev.fd[1], path) ELSE ClearFD(s, ev.fd[1])
<1>1. Synced(copied)
  BY AssignSynced, ClearSynced
<1>2. CASE path # NoPath
  <2>1. copied.fdPaths = [s.fdPaths EXCEPT ![ev.fd[1]] = path]
    BY <1>2, AssignSynced
  <2>2. ev.fd[0] \in Fd /\ path = s.fdPaths[ev.fd[0]]
    BY <1>2 DEF FdPath
  <2>3. copied.fdPaths[ev.fd[0]] = path /\ copied.fdPaths[ev.fd[1]] = path
    BY <2>1, <2>2 DEF Synced, IsState
  <2>4. ev.fd[0] \in copied.trackedFDs <=> ev.fd[1] \in copied.trackedFDs
    BY <1>1, <2>2, <2>3 DEF Synced
  <2>5. CASE ev.fd[0] \in copied.trackedFDs
    BY <1>1, <2>4, <2>5, TrackSynced DEF Synced, ObserveDupPair
  <2>6. CASE ev.fd[0] \notin copied.trackedFDs
    <3>1. [copied EXCEPT !.trackedFDs = @ \ {ev.fd[1]}] = copied
      BY <1>1, <2>4, <2>6 DEF Synced, IsState
    <3> QED BY <1>1, <2>6, <3>1 DEF ObserveDupPair
  <2> QED BY <2>5, <2>6
<1>3. CASE path = NoPath
  <2>1. ev.fd[0] \notin copied.trackedFDs
    <3>1. copied.trackedFDs \subseteq s.trackedFDs
      BY <1>3 DEF ClearFD, Synced, IsState
    <3> QED BY <1>3, <3>1, TrackedPath
  <2>2. [copied EXCEPT !.trackedFDs = @ \ {ev.fd[1]}] = copied
    BY <1>1, <1>3, ClearSynced DEF Synced, IsState
  <2> QED BY <1>1, <2>1, <2>2 DEF ObserveDupPair
<1> QED BY <1>2, <1>3

LEMMA FcntlSynced ==
    ASSUME NEW s, Synced(s), NEW ev, ev.ret \in Fd
    PROVE  Synced(ObserveFcntl(s, ev))
<1> DEFINE path == FdPath(s, ev.fd[0])
           copied == IF path # NoPath THEN AssignFD(s, ev.ret, path) ELSE s
<1>1. ASSUME ev.fd[0] \in s.trackedFDs PROVE Synced(TrackFD(copied, ev.ret))
  <2>1. path \in TracePaths /\ path # NoPath
    BY <1>1, TrackedPath
  <2>2. Synced(copied) /\ copied.fdPaths = [s.fdPaths EXCEPT ![ev.ret] = path]
    BY <2>1, AssignSynced
  <2>3. copied.fdPaths[ev.ret] = path
    BY <2>2 DEF Synced, IsState
  <2> QED BY <2>1, <2>2, <2>3, TrackSynced
<1> QED BY <1>1 DEF ObserveFcntl

\* A change of directory leaves the descriptors alone.
LEMMA CwdSynced ==
    ASSUME NEW s, Synced(s), NEW d
    PROVE  Synced([s EXCEPT !.cwd = d])
BY DEF Synced, IsState

LEMMA ChdirSynced ==
    ASSUME NEW s, Synced(s), NEW ev, NEW proc
    PROVE  Synced(ObserveChdir(s, ev, proc)) /\ Synced(ObserveFchdir(s, ev))
<1>1. Synced(ObserveChdir(s, ev, proc))
  BY CacheSynced, CwdSynced DEF ObserveChdir
<1>2. Synced(ObserveFchdir(s, ev))
  BY CwdSynced DEF ObserveFchdir
<1> QED BY <1>1, <1>2

\* Only a descriptor that moved has a new path.
LEMMA RewriteSynced ==
    ASSUME NEW s, Synced(s), NEW oldPath, NEW newPath
    PROVE  Synced(RewritePIDPaths(s, oldPath, newPath))
<1> DEFINE moved == {fd \in Fd : /\ s.fdPaths[fd] # NoPath
                                 /\ s.fdPaths[fd] = oldPath \/ IsBelow(s.fdPaths[fd], oldPath)}
           paths == [fd \in Fd |-> RewritePathPrefix(s.fdPaths[fd], oldPath, newPath)]
           tracked == (s.trackedFDs \ moved) \cup {fd \in moved : paths[fd] \in TracePaths}
           new == RewritePIDPaths(s, oldPath, newPath)
<1>1. \A fd \in Fd \ moved : paths[fd] = s.fdPaths[fd]
  BY DEF RewritePathPrefix
<1>2. tracked = {fd \in Fd : paths[fd] \in TracePaths}
  <2> HIDE DEF paths
  <2> QED BY <1>1 DEF Synced
<1>3. new = [cwd |-> RewritePathPrefix(s.cwd, oldPath, newPath), trackedFDs |-> tracked,
             fdPaths |-> paths]
  BY DEF RewritePIDPaths
<1>4. new.trackedFDs = tracked /\ new.fdPaths = paths /\ IsState(new)
  BY <1>3 DEF IsState
<1> QED BY <1>2, <1>4 DEF Synced

LEMMA RenameSynced ==
    ASSUME NEW s, Synced(s), NEW ev, NEW i, NEW j, NEW proc
    PROVE  Synced(ObserveRename(s, ev, i, j, proc))
BY CacheSynced, RewriteSynced DEF ObserveRename

LEMMA UnlinkSynced ==
    ASSUME NEW s, Synced(s), NEW ev, NEW i, NEW proc
    PROVE  Synced(ObserveUnlink(s, ev, i, proc))
<1>1. ASSUME NEW r, Synced(r), NEW target PROVE Synced(DropPIDPaths(r, target))
  BY <1>1, PathAssumption DEF Synced, IsState, DropPIDPaths
<1> QED BY <1>1, CacheSynced DEF ObserveUnlink

LEMMA CallSynced ==
    ASSUME NEW s, Synced(s), NEW ev, WellFormed(ev), NEW proc
    PROVE  Synced(ObserveCall(s, ev, proc))
<1> USE DEF WellFormed
<1>1. CASE ev.ret < 0
  BY <1>1 DEF ObserveCall
<1>2. CASE ev.ret >= 0 /\ ev.id \in {"open", "openat"}
  BY <1>2, OpenSynced DEF ObserveCall
<1>3. CASE ev.ret >= 0 /\ ev.id = "dup"
  BY <1>3, DupRetSynced DEF ObserveCall
<1>4. CASE ev.ret >= 0 /\ ev.id = "dup2"
  BY <1>4, DupPairSynced DEF ObserveCall
<1>5. CASE ev.ret >= 0 /\ ev.id = "fcntl_dupfd"
  BY <1>5, FcntlSynced DEF ObserveCall
<1>6. CASE ev.ret >= 0 /\ ev.id = "close"
  BY <1>6, ClearSynced DEF ObserveCall, ObserveClose
<1>7. CASE ev.ret >= 0 /\ ev.id \in {"chdir", "fchdir"}
  BY <1>7, ChdirSynced DEF ObserveCall
<1>8. CASE ev.ret >= 0 /\ ev.id \in {"rename", "renameat"}
  BY <1>8, RenameSynced DEF ObserveCall
<1>9. CASE ev.ret >= 0 /\ ev.id \in {"unlink", "unlinkat"}
  BY <1>9, UnlinkSynced DEF ObserveCall
<1>10. CASE ev.ret >= 0 /\ ev.id \notin {"open", "openat", "dup", "dup2", "fcntl_dupfd", "close",
                                         "chdir", "fchdir", "rename", "renameat", "unlink",
                                         "unlinkat"}
  BY <1>10 DEF ObserveCall
<1> QED BY <1>1, <1>2, <1>3, <1>4, <1>5, <1>6, <1>7, <1>8, <1>9, <1>10

-----------------------------------------------------------------------------
(***************************************************************************)
(* shouldOutput, for any event and whatever /proc says.                    *)
(***************************************************************************)
AllSynced == /\ stateByPID = [p \in Pid |-> stateByPID[p]]
             /\ \A p \in Pid : Synced(stateByPID[p])

LEMMA OutputSynced ==
    ASSUME AllSynced, NEW ev, WellFormed(ev), NEW proc, ShouldOutput(ev, proc)
    PROVE  AllSynced'
<1> DEFINE matched == AfterMatch(stateByPID[ev.pid], ev, proc)
<1>1. Synced(stateByPID[ev.pid])
  BY DEF AllSynced, WellFormed
<1>2. Synced(matched)
  BY <1>1, CacheSynced DEF AfterMatch
<1>3. Synced(ObserveCall(matched, ev, proc))
  BY <1>2, CallSynced
<1> HIDE DEF matched
<1>4. CASE TracePaths = {}
  BY <1>4 DEF ShouldOutput, AllSynced, Synced, IsState
<1>5. CASE TracePaths # {}
  <2>1. stateByPID' = Observe(stateByPID, matched, ev, proc)
    BY <1>5 DEF ShouldOutput, matched
  <2>2. stateByPID' = [p \in Pid |-> stateByPID'[p]]
    BY <2>1 DEF Observe
  <2>3. \A p \in Pid : stateByPID'[p] \in {ObserveCall(matched, ev, proc), matched, stateByPID[p]}
    BY <2>1 DEF Observe
  <2>4. \A p \in Pid : Synced(stateByPID'[p])
    BY <1>2, <1>3, <2>3 DEF AllSynced
  <2> QED BY <2>2, <2>4 DEF AllSynced, Synced, IsState
<1> QED BY <1>4, <1>5

-----------------------------------------------------------------------------
(***************************************************************************)
(* The events that wait in the ring buffer.                                *)
(***************************************************************************)
QueueOK == \E S : queue \in Seq(S) /\ \A ev \in S : WellFormed(ev)

\* A fork still under way names a process.
ForksOK == forking \in [Pid -> Pid \cup {0}]

LEMMA SubmitQueue ==
    ASSUME QueueOK, NEW ev, WellFormed(ev), Submit(ev)
    PROVE  QueueOK'
<1>1. PICK S : queue \in Seq(S) /\ \A e \in S : WellFormed(e)
  BY DEF QueueOK
<1>2. CASE queue' = Append(queue, ev)
  <2>1. queue' \in Seq(S \cup {ev}) /\ \A e \in S \cup {ev} : WellFormed(e)
    BY <1>1, <1>2
  <2> QED BY <2>1 DEF QueueOK, WellFormed
<1>3. CASE queue' = queue
  BY <1>3 DEF QueueOK, WellFormed
<1> QED BY <1>2, <1>3 DEF Submit

LEMMA SameQueue == QueueOK /\ queue' = queue => QueueOK'
BY DEF QueueOK, WellFormed

\* Two events that overtake each other are the same events.
LEMMA OvertakeQueue ==
    ASSUME QueueOK, NEW i \in 1..Len(queue), Overtake(i)
    PROVE  QueueOK'
<1>1. PICK S : queue \in Seq(S) /\ \A e \in S : WellFormed(e)
  BY DEF QueueOK
<1>2. queue[i] \in S /\ queue[i + 1] \in S
  BY <1>1 DEF Overtake
<1>3. queue' \in Seq(S)
  BY <1>1, <1>2 DEF Overtake
<1> QED BY <1>1, <1>3 DEF QueueOK, WellFormed

\* Every call a process makes submits a well-formed event, or none.
LEMMA ProcessQueue ==
    ASSUME QueueOK, ForksOK, NEW p \in Pid, Process(p)
    PROVE  QueueOK' /\ ForksOK' /\ stateByPID' = stateByPID
<1> USE PidAssumption DEF ForksOK, filterVars, osVars
<1>0. /\ NoPaths \in EventPaths
      /\ \A raw, other \in Raw : /\ [NoPaths EXCEPT ![0] = raw] \in EventPaths
                                /\ [NoPaths EXCEPT ![1] = raw] \in EventPaths
                                /\ [NoPaths EXCEPT ![0] = raw, ![1] = other] \in EventPaths
                                /\ [NoPaths EXCEPT ![1] = raw, ![3] = other] \in EventPaths
  BY DEF NoPaths, EventPaths
<1>1. ASSUME NEW id \in {"open", "openat"}, NEW dirfd, NEW raw, NEW fd, NEW path \in EventPaths,
             OpensAt(p, id, dirfd, raw, fd, path)
      PROVE  QueueOK' /\ ForksOK' /\ stateByPID' = stateByPID
  <2>1. PICK ret \in Fd \cup {-1}, hit \in BOOLEAN :
            Submit(Event(p, id, ret, fd, path, FALSE, hit))
    BY <1>1 DEF OpensAt, Touches
  <2>2. WellFormed(Event(p, id, ret, fd, path, FALSE, hit))
    BY <1>1 DEF WellFormed, Event
  <2> QED BY <1>1, <2>1, <2>2, SubmitQueue DEF OpensAt
<1>2. CASE \E raw \in Raw : Open(p, raw)
  BY <1>0, <1>1, <1>2 DEF Open
<1>3. CASE \E raw \in Raw, dirfd \in Fd \cup {AT_FDCWD} : OpenAt(p, dirfd, raw)
  BY <1>0, <1>1, <1>3 DEF OpenAt
<1>4. ASSUME NEW id \in {"rename", "renameat"}, NEW dirfd, NEW old, NEW newdirfd, NEW new,
             NEW fd, NEW path \in EventPaths,
             Renames(p, id, dirfd, old, newdirfd, new, fd, path)
      PROVE  QueueOK' /\ ForksOK' /\ stateByPID' = stateByPID
  <2>1. PICK hit : Submit(Event(p, id, 0, fd, path, FALSE, hit))
    BY <1>4 DEF Renames
  <2>2. WellFormed(Event(p, id, 0, fd, path, FALSE, hit))
    BY <1>4 DEF WellFormed, Event
  <2> QED BY <1>4, <2>1, <2>2, SubmitQueue DEF Renames
<1>5. CASE \E old, new \in Raw : Rename(p, old, new)
  BY <1>0, <1>4, <1>5 DEF Rename
<1>6. CASE \E old, new \in Raw, dirfd, newdirfd \in Fd \cup {AT_FDCWD} :
             RenameAt(p, dirfd, old, newdirfd, new)
  BY <1>0, <1>4, <1>6 DEF RenameAt
<1>7. ASSUME NEW id \in {"unlink", "unlinkat"}, NEW dirfd, NEW raw, NEW fd, NEW path \in EventPaths,
             Unlinks(p, id, dirfd, raw, fd, path)
      PROVE  QueueOK' /\ ForksOK' /\ stateByPID' = stateByPID
  <2>1. PICK hit : Submit(Event(p, id, 0, fd, path, FALSE, hit))
    BY <1>7 DEF Unlinks
  <2>2. WellFormed(Event(p, id, 0, fd, path, FALSE, hit))
    BY <1>7 DEF WellFormed, Event
  <2> QED BY <1>7, <2>1, <2>2, SubmitQueue DEF Unlinks
<1>8. CASE \E raw \in Raw : Unlink(p, raw)
  BY <1>0, <1>7, <1>8 DEF Unlink
<1>9. CASE \E raw \in Raw, dirfd \in Fd \cup {AT_FDCWD} : UnlinkAt(p, dirfd, raw)
  BY <1>0, <1>7, <1>9 DEF UnlinkAt
<1>10. ASSUME NEW id \in {"newstat", "newfstatat", "close", "chdir", "fchdir"},
              NEW ret \in {0, -1}, NEW fd, NEW path \in EventPaths, NEW hit,
              Submit(Event(p, id, ret, fd, path, FALSE, hit))
       PROVE  QueueOK'
  <2>1. WellFormed(Event(p, id, ret, fd, path, FALSE, hit))
    BY <1>10 DEF WellFormed, Event
  <2> QED BY <1>10, <2>1, SubmitQueue
<1>11. CASE \E raw \in Raw : Stat(p, raw)
  <2>1. PICK path \in EventPaths : \E hit : Submit(Event(p, "newstat", 0, NoFds, path, FALSE, hit))
    BY <1>0, <1>11 DEF Stat
  <2>2. QueueOK'
    BY <1>10, <2>1
  <2> QED BY <1>11, <2>2 DEF Stat
<1>12. CASE \E raw \in Raw, dirfd \in Fd \cup {AT_FDCWD} : StatAt(p, dirfd, raw)
  <2>1. PICK path \in EventPaths : \E fd, hit : Submit(Event(p, "newfstatat", 0, fd, path, FALSE, hit))
    BY <1>0, <1>12 DEF StatAt
  <2>2. QueueOK'
    BY <1>10, <2>1
  <2> QED BY <1>12, <2>2 DEF StatAt
<1>13. CASE \E raw \in Raw : Chdir(p, raw)
  <2>1. PICK ret \in {0, -1}, path \in EventPaths : \E hit :
          Submit(Event(p, "chdir", ret, NoFds, path, FALSE, hit))
    BY <1>0, <1>13 DEF Chdir
  <2>2. QueueOK'
    BY <1>10, <2>1
  <2> QED BY <1>13, <2>2 DEF Chdir
<1>14. CASE \E fd \in Fd : Close(p, fd) \/ Fchdir(p, fd)
  <2>1. PICK id \in {"close", "fchdir"} : \E fd, hit :
          Submit(Event(p, id, 0, fd, NoPaths, FALSE, hit))
    BY <1>14 DEF Close, Fchdir
  <2>2. QueueOK'
    BY <1>0, <1>10, <2>1
  <2> QED BY <1>14, <2>2 DEF Close, Fchdir
<1>22. ASSUME NEW id, id \notin SupportIds, NEW ret \in {0, -1}, NEW fd, NEW hit,
              Submit(Event(p, id, ret, fd, NoPaths, FALSE, hit))
       PROVE  QueueOK'
  <2>1. WellFormed(Event(p, id, ret, fd, NoPaths, FALSE, hit))
    BY <1>0, <1>22 DEF WellFormed, Event, SupportIds
  <2> QED BY <1>22, <2>1, SubmitQueue
<1>23. ASSUME NEW id \in UseIds, NEW arg, Use(p, id, arg)
       PROVE  QueueOK' /\ ForksOK' /\ stateByPID' = stateByPID
  <2>1. PICK ret \in {0, -1} : \E fd, hit : Submit(Event(p, id, ret, fd, NoPaths, FALSE, hit))
    BY <1>23 DEF Use
  <2>2. id \notin SupportIds
    BY <1>23 DEF UseIds
  <2>3. QueueOK'
    BY <1>22, <2>1, <2>2
  <2> QED BY <1>23, <2>3 DEF Use
<1>24. ASSUME NEW id \in {"close_range", "execve"}, NEW fds, NEW fd, NEW used,
              ClosesUnobserved(p, id, fds, fd, used)
       PROVE  QueueOK' /\ ForksOK' /\ stateByPID' = stateByPID
  <2>1. PICK hit : Submit(Event(p, id, 0, fd, NoPaths, FALSE, hit))
    BY <1>24 DEF ClosesUnobserved
  <2>2. id \notin SupportIds
    BY DEF SupportIds
  <2>3. QueueOK'
    BY <1>22, <2>1, <2>2
  <2> QED BY <1>24, <2>3 DEF ClosesUnobserved
<1>25. CASE \E first, last \in Fd : CloseRange(p, first, last)
  BY <1>24, <1>25 DEF CloseRange
<1>26. CASE \E marked \in SUBSET Fd : Execve(p, marked)
  BY <1>24, <1>26 DEF Execve
<1>15. CASE \E fd \in Fd : CloseLost(p, fd)
  BY <1>15, SameQueue DEF CloseLost, Drop
<1>27. CASE \E raw \in Raw, new \in Fd : OpenLost(p, raw, new)
  BY <1>27, SameQueue DEF OpenLost, Drop
<1>16. ASSUME NEW id \in {"dup", "dup2", "fcntl_dupfd"}, NEW new \in Fd, NEW fd,
              NEW path \in EventPaths, NEW hit, id = "dup2" => fd[1] = new,
              Submit(Event(p, id, new, fd, path, FALSE, hit))
       PROVE  QueueOK'
  <2>1. WellFormed(Event(p, id, new, fd, path, FALSE, hit))
    <3>1. new \in Int /\ (id = "dup2" => fd[1] \in Fd)
      BY <1>16
    <3> QED BY <3>1 DEF WellFormed, Event
  <2> QED BY <1>16, <2>1, SubmitQueue
<1>17. CASE \E fd, new \in Fd : Dup(p, fd, new) \/ FcntlDup(p, fd, new)
  BY <1>0, <1>16, <1>17 DEF Dup, FcntlDup
<1>18. CASE \E fd, new \in Fd : Dup2(p, fd, new)
  <2>1. PICK old, new \in Fd : Dup2(p, old, new)
    BY <1>18
  <2>2. [NoFds EXCEPT ![0] = old, ![1] = new][1] = new
    BY DEF NoFds
  <2>3. PICK hit : Submit(Event(p, "dup2", new, [NoFds EXCEPT ![0] = old, ![1] = new], NoPaths,
                                FALSE, hit))
    BY <2>1 DEF Dup2
  <2> QED BY <1>0, <1>16, <2>1, <2>2, <2>3 DEF Dup2
<1>19. CASE \E child \in Pid : Fork(p, child)
  BY <1>19, SameQueue DEF Fork
<1>20. CASE ForkReturn(p)
  <2>1. forking[p] \in Int
    <3>1. forking[p] \in Pid \cup {0}
      OBVIOUS
    <3>2. \A q \in Pid \cup {0} : q \in Int
      BY PidAssumption
    <3> QED BY <3>1, <3>2, Zenon
  <2>2. forking[p] \in Pid
    <3>1. forking[p] \in Pid \cup {0} /\ forking[p] # 0
      BY <1>20 DEF ForkReturn
    <3> QED BY <3>1, Zenon
  <2>3. WellFormed(Event(p, "fork", forking[p], NoFds, NoPaths, TRUE, FALSE))
    BY <1>0, <2>1, <2>2 DEF WellFormed, Event
  <2> QED BY <1>20, <2>3, SubmitQueue DEF ForkReturn
<1>21. CASE Exit(p)
  BY <1>21, SameQueue DEF Exit
<1> QED
  BY <1>2, <1>3, <1>5, <1>6, <1>8, <1>9, <1>11, <1>12, <1>13, <1>14, <1>15, <1>17, <1>18, <1>19,
     <1>20, <1>21, <1>23, <1>25, <1>26, <1>27
  DEF Process

SyncInv == AllSynced /\ QueueOK /\ ForksOK

LEMMA SyncInit == Init => SyncInv
<1> SUFFICES ASSUME Init PROVE SyncInv
  OBVIOUS
<1>1. AllSynced
  BY EmptySynced DEF Init, InitFilter, AllSynced
<1>2. queue \in Seq({}) /\ \A ev \in {} : WellFormed(ev)
  BY DEF Init
<1>3. QueueOK
  BY <1>2 DEF QueueOK
<1> QED BY <1>1, <1>3 DEF Init, ForksOK, SyncInv

\* The event HandleEvent takes from the queue is well formed.
LEMMA HeadWellFormed ==
    ASSUME QueueOK, queue # <<>>
    PROVE  WellFormed(Head(queue)) /\ (queue' = Tail(queue) => QueueOK')
<1>1. PICK S : queue \in Seq(S) /\ \A e \in S : WellFormed(e)
  BY DEF QueueOK
<1>2. Head(queue) \in S /\ Tail(queue) \in Seq(S)
  BY <1>1
<1> QED BY <1>1, <1>2 DEF QueueOK, WellFormed

LEMMA SyncStep == SyncInv /\ [Next]_vars => SyncInv'
<1> SUFFICES ASSUME SyncInv, [Next]_vars PROVE SyncInv'
  OBVIOUS
<1> USE DEF SyncInv
<1>1. ASSUME stateByPID' = stateByPID PROVE AllSynced'
  BY <1>1 DEF AllSynced, Synced, IsState
<1>2. CASE HandleEvent
  <2>1. queue # <<>> /\ queue' = Tail(queue)
    BY <1>2 DEF HandleEvent
  <2>2. WellFormed(Head(queue)) /\ QueueOK'
    BY <2>1, HeadWellFormed
  <2>3. AllSynced'
    BY <1>2, <2>2, OutputSynced DEF HandleEvent
  <2>4. ForksOK'
    BY <1>2 DEF HandleEvent, osVars, ForksOK
  <2> QED BY <2>2, <2>3, <2>4
<1>3. ASSUME NEW p \in Pid, Process(p) PROVE SyncInv'
  BY <1>1, <1>3, ProcessQueue
<1>4. CASE UNCHANGED vars
  BY <1>1, <1>4, SameQueue DEF vars, ForksOK
<1>5. ASSUME NEW i \in 1..Len(queue), Overtake(i) PROVE SyncInv'
  BY <1>1, <1>5, OvertakeQueue DEF Overtake, filterVars, osVars, ForksOK
<1> QED BY <1>2, <1>3, <1>4, <1>5 DEF Next

\* The filter's tracked descriptors are exactly those with a traced path.
THEOREM Tracked == Spec => []TrackedIffTraced
<1>1. SyncInv => TrackedIffTraced
  BY DEF SyncInv, AllSynced, Synced, TrackedIffTraced
<1> QED BY <1>1, SyncInit, SyncStep, PTL DEF Spec
=============================================================================
