--------------------------- MODULE TraceRunProofs ---------------------------
(***************************************************************************)
(* Proofs about TraceRun for every set of attached processes, any number   *)
(* of events and signals, with and without faults.                         *)
(***************************************************************************)
EXTENDS TraceRun, TLAPS

LEMMA ChildIsTarget == Child \in Targets
BY TargetsAssumption DEF Child

\* Before the event loop nobody waits, and nothing is decided.
Quiet ==
    main \in {"prepare", "new_handle", "monitors"} =>
        result = "none" /\ waiter = "off" /\ monitor = "off" /\ done = "empty"

\* The handle is empty before NewHandle and complete after it.
Acquired ==
    /\ main = "prepare" => held = {} /\ reader = "none"
    /\ main \in {"monitors", "loop", "await"} => held = All
    /\ main \notin {"closing", "returned"} => ("objects" \in held => objectsReady)

\* What is still held of the resources Close has dealt with is what it failed to
\* close, or objects that were not ready.  It has dealt with none before it is
\* called, and knows what Run is about to return.
Closing ==
    /\ main \notin {"closing", "returned"} => released = 0 /\ closeErr = {}
    /\ main = "closing" => result # "none" /\ (result # "error" => objectsReady)
    /\ \A i \in 1..released :
          Releasing[i] \in held =>
             Releasing[i] \in closeErr \/ (Releasing[i] = "objects" /\ ~objectsReady)
    /\ (released > 0 /\ reader = "open") => "reader" \in closeErr

\* The waiter is past cmd.Wait only when the child is reaped; a child that
\* ended after it was resumed has a status.
Reaped ==
    Launch =>
        /\ waiter \in {"reaped", "sent", "done"} => proc[Child] = "gone"
        /\ (waiter # "off" /\ proc[Child] \in {"zombie", "gone"}) => exitStatus[Child] # "none"

\* What is in the channel, or was taken from it, is the child's status.
DoneIsChilds ==
    Launch => \A r \in {done, result} :
        r \in Statuses => proc[Child] = "gone" /\ r = exitStatus[Child]

\* An attached process is running, a zombie or gone; the launch waiter is off.
AttachedProcs ==
    ~Launch =>
        /\ waiter = "off"
        /\ \A p \in Targets : proc[p] \in {"running", "zombie", "gone"}
        /\ "zero" \in {done, result} => \A p \in Targets : proc[p] = "gone"

IInv ==
    /\ TypeOK /\ Quiet /\ Acquired /\ Closing /\ HandleReleased
    /\ Reaped /\ DoneIsChilds /\ AttachedProcs

LEMMA IInvInit == Init => IInv
<1> SUFFICES ASSUME Init PROVE IInv
  OBVIOUS
<1>1. TypeOK
  <2>1. proc \in [Targets -> {"absent", "stopped", "running", "zombie", "gone"}]
    <3>1. CASE Launch
      BY <3>1 DEF Init
    <3>2. CASE ~Launch
      BY <3>2 DEF Init
    <3> QED BY <3>1, <3>2
  <2>2. held \subseteq All /\ objectsReady \in BOOLEAN /\ signalled \in BOOLEAN
    BY DEF Init
  <2>3. exitStatus \in [Targets -> {"none", "exited", "killed"}]
    BY DEF Init
  <2>4. /\ released \in 0..Len(Releasing) /\ closeErr \subseteq All
    BY DEF Init, Releasing
  <2>5. /\ sigCh \in 0..1 /\ sent \in 0..MaxSignals
        /\ submitted \in Nat /\ unread \in Nat /\ printed \in Nat
    BY BoundsAssumption DEF Init
  <2> QED BY <2>1, <2>2, <2>3, <2>4, <2>5 DEF Init, TypeOK, Statuses
<1>2. Quiet /\ Acquired /\ Closing /\ Reaped /\ HandleReleased
  BY DEF Init, Quiet, Acquired, Closing, Reaped, HandleReleased
<1>3. DoneIsChilds
  BY DEF Init, DoneIsChilds, Statuses
<1>4. AttachedProcs
  BY DEF Init, AttachedProcs
<1> QED BY <1>1, <1>2, <1>3, <1>4 DEF IInv

\* One step of Close: the resource it deals with, and what it leaves of it.
LEMMA ReleaseOne ==
    ASSUME IInv, ReleaseNext
    PROVE  /\ main = "closing" /\ released' = released + 1 /\ released' \in 1..Len(Releasing)
           /\ held' \subseteq held /\ closeErr \subseteq closeErr' /\ closeErr' \subseteq All
           /\ reader' \in {reader, "closing"}
           /\ Releasing[released'] \in held' =>
                 \/ Releasing[released'] \in closeErr'
                 \/ Releasing[released'] = "objects" /\ ~objectsReady
           /\ (released = 0 /\ reader' = "open") => "reader" \in closeErr'
           /\ UNCHANGED <<runVars, objectsReady, routineVars, worldVars, eventVars>>
<1> USE DEF IInv, TypeOK
<1>1. /\ main = "closing" /\ released \in 0..4 /\ Len(Releasing) = 5
      /\ released' = released + 1
  BY DEF ReleaseNext, CloseGoesOn, Releasing
<1> DEFINE r == Releasing[released + 1]
<1>2. r \in All /\ (released = 0 => r = "reader")
  BY <1>1 DEF Releasing, All
<1>3. CASE ReleaseSucceeds(r)
  BY <1>1, <1>2, <1>3 DEF ReleaseNext, ReleaseSucceeds, Closable, CloseReader
<1>4. CASE ReleaseFails(r)
  BY <1>1, <1>2, <1>4 DEF ReleaseNext, ReleaseFails, Closable
<1>5. ReleaseSucceeds(r) \/ ReleaseFails(r)
  BY DEF ReleaseNext
<1> QED BY <1>3, <1>4, <1>5

LEMMA TypeStep == IInv /\ [Next]_vars => TypeOK'
<1> SUFFICES ASSUME IInv, [Next]_vars PROVE TypeOK'
  OBVIOUS
<1> USE ChildIsTarget, BoundsAssumption, FaultsAssumption
    DEF Launch, IInv, TypeOK, Statuses, runVars, handleVars, closeVars, routineVars, worldVars, eventVars
<1>1. CASE SetUp
  <2>1. CASE StartLaunch
    BY <2>1 DEF StartLaunch
  <2>2. CASE StartLaunchFails
    BY <2>2 DEF StartLaunchFails, Return
  <2>3. CASE ValidateAttachTargets
    BY <2>3 DEF ValidateAttachTargets, Return
  <2>4. CASE Acquire
    <3>1. \A i \in 1..Len(Resources) : Resources[i] \in All
      BY DEF Resources, All
    <3>2. /\ held' \subseteq All
          /\ main' \in {main, "monitors"} /\ reader' \in {reader, "open"}
          /\ objectsReady' \in BOOLEAN
      BY <2>4, <3>1 DEF Acquire
    <3>3. UNCHANGED <<result, closeVars, routineVars, worldVars, eventVars>>
      BY <2>4 DEF Acquire
    <3> QED BY <3>2, <3>3
  <2>5. CASE AcquireFails
    <3>1. held' \subseteq All /\ main' = "closing" /\ result' = "error"
      BY <2>5 DEF AcquireFails, All
    <3>2. UNCHANGED <<objectsReady, reader, closeVars, routineVars, worldVars, eventVars>>
      BY <2>5 DEF AcquireFails
    <3> QED BY <3>1, <3>2
  <2>6. CASE StartMonitors
    BY <2>6 DEF StartMonitors
  <2>7. CASE ResumeFails
    BY <2>7 DEF ResumeFails
  <2> QED BY <1>1, <2>1, <2>2, <2>3, <2>4, <2>5, <2>6, <2>7 DEF SetUp
<1>2. CASE MainLoop
  <2>1. CASE ReadEvent
    BY <2>1 DEF ReadEvent, HaveData
  <2>2. CASE ReadClosed
    BY <2>2 DEF ReadClosed
  <2>3. CASE AwaitDone
    BY <2>3 DEF AwaitDone
  <2>4. CASE ReleaseNext
    BY <2>4, ReleaseOne
  <2>5. CASE CloseReturns
    BY <2>5 DEF CloseReturns, Return
  <2> QED BY <1>2, <2>1, <2>2, <2>3, <2>4, <2>5 DEF MainLoop
<1>3. CASE ReaderCloses
  BY <1>3 DEF ReaderCloses
<1>4. CASE Waiter
  <2>1. CASE WaiterReaps
    BY <2>1 DEF WaiterReaps
  <2>2. CASE WaiterSends
    <3>1. Launch
      BY <2>2 DEF WaiterSends, AttachedProcs
    <3>2. exitStatus[Child] \in {"exited", "killed"}
      BY <2>2, <3>1 DEF WaiterSends, Reaped
    <3> QED BY <2>2, <3>2 DEF WaiterSends
  <2>3. CASE WaiterSendsError
    BY <2>3 DEF WaiterSendsError
  <2>4. CASE WaiterCloses
    BY <2>4 DEF WaiterCloses, CloseReader
  <2> QED BY <1>4, <2>1, <2>2, <2>3, <2>4 DEF Waiter
<1>5. CASE Monitor
  <2>1. CASE MonitorReceives
    BY <2>1 DEF MonitorReceives
  <2>2. CASE MonitorForwards
    BY <2>2 DEF MonitorForwards, ForwardLaunchSignal, Exists
  <2>3. CASE MonitorChecks
    BY <2>3 DEF MonitorChecks
  <2>4. CASE MonitorSignalled
    BY <2>4 DEF MonitorSignalled
  <2>5. CASE MonitorTicks
    BY <2>5 DEF MonitorTicks
  <2>6. CASE MonitorCloses
    BY <2>6 DEF MonitorCloses, CloseReader
  <2> QED BY <1>5, <2>1, <2>2, <2>3, <2>4, <2>5, <2>6 DEF Monitor
<1>6. CASE World
  <2>1. CASE SendSignal
    BY <2>1 DEF SendSignal
  <2>2. ASSUME NEW p \in Targets, TargetCalls(p) PROVE TypeOK'
    BY <2>2 DEF TargetCalls
  <2>3. ASSUME NEW p \in Targets, TargetEnds(p) PROVE TypeOK'
    BY <2>3 DEF TargetEnds
  <2>4. ASSUME NEW p \in Targets, ParentReaps(p) PROVE TypeOK'
    BY <2>4 DEF ParentReaps
  <2> QED BY <1>6, <2>1, <2>2, <2>3, <2>4 DEF World
<1>7. CASE UNCHANGED vars
  BY <1>7 DEF vars
<1> QED BY <1>1, <1>2, <1>3, <1>4, <1>5, <1>6, <1>7 DEF Next

\* The handle through NewHandle, the event loop and Close.
LEMMA HandleStep == IInv /\ [Next]_vars => (Quiet /\ Acquired /\ Closing /\ HandleReleased)'
<1> SUFFICES ASSUME IInv, [Next]_vars PROVE (Quiet /\ Acquired /\ Closing /\ HandleReleased)'
  OBVIOUS
<1> USE DEF IInv, Quiet, Acquired, Closing, HandleReleased,
            runVars, handleVars, closeVars, routineVars, worldVars, eventVars
<1>1. CASE Acquire
  <2>1. PICK i \in 1..Len(Resources) :
          /\ held = {Resources[j] : j \in 1..(i - 1)}
          /\ held' = held \cup {Resources[i]}
          /\ main' = IF Resources[i] = LastResource THEN "monitors" ELSE main
    BY <1>1 DEF Acquire
  <2>2. main' = "monitors" => held' = All
    <3> HAVE main' = "monitors"
    <3>1. i = 5
      BY <1>1, <2>1 DEF Acquire, Resources, LastResource
    <3>2. held = {Resources[1], Resources[2], Resources[3], Resources[4]}
      BY <2>1, <3>1
    <3> QED BY <2>1, <3>1, <3>2 DEF Resources, All
  <2>3. main' \in {"new_handle", "monitors"} /\ main = "new_handle"
    BY <1>1 DEF Acquire
  <2>4. UNCHANGED <<result, monitor, waiter, done>>
    BY <1>1 DEF Acquire
  <2>5. "objects" \in held' => objectsReady'
    BY <1>1, <2>1, <2>3 DEF Acquire
  <2>6. UNCHANGED <<released, closeErr>>
    BY <1>1 DEF Acquire
  <2> QED BY <2>2, <2>3, <2>4, <2>5, <2>6
<1>2. CASE SetUp /\ ~Acquire
  BY <1>2 DEF SetUp, StartLaunch, StartLaunchFails, ValidateAttachTargets, AcquireFails,
              StartMonitors, ResumeFails, Return
<1>3. CASE ReleaseNext
  <2> USE <1>3, ReleaseOne
  <2>1. /\ main' = "closing" /\ result' = result /\ objectsReady' = objectsReady
    OBVIOUS
  <2>2. ASSUME NEW i \in 1..released', Releasing[i] \in held'
        PROVE  Releasing[i] \in closeErr' \/ (Releasing[i] = "objects" /\ ~objectsReady)
    <3>1. i = released' \/ i \in 1..released
      BY DEF TypeOK
    <3> QED BY <2>2, <3>1
  <2>3. reader' = "open" => "reader" \in closeErr'
    BY DEF TypeOK
  <2> QED BY <2>1, <2>2, <2>3
<1>10. CASE CloseReturns
  <2>1. /\ main = "closing" /\ released = 5 /\ main' = "returned"
        /\ result' = (IF closeErr = {} THEN result ELSE "error")
        /\ UNCHANGED <<held, objectsReady, reader, released, closeErr>>
    BY <1>10 DEF CloseReturns, Return, Releasing
  <2>2. ASSUME NEW r \in held
        PROVE  r \in closeErr \/ (r = "objects" /\ ~objectsReady)
    <3>1. PICK i \in 1..5 : r = Releasing[i]
      BY DEF TypeOK, All, Releasing
    <3> QED BY <2>1, <2>2, <3>1
  <2>3. result' \in Statuses => closeErr = {} /\ objectsReady
    BY <2>1 DEF Statuses
  <2> QED BY <2>1, <2>2, <2>3
<1>4. CASE ReadEvent \/ ReadClosed \/ AwaitDone
  BY <1>4 DEF ReadEvent, ReadClosed, AwaitDone, TypeOK, Statuses, All
<1>5. CASE ReaderCloses
  BY <1>5 DEF ReaderCloses
<1>6. CASE Waiter
  BY <1>6 DEF Waiter, WaiterReaps, WaiterSends, WaiterSendsError, WaiterCloses, CloseReader
<1>7. CASE Monitor
  BY <1>7 DEF Monitor, MonitorReceives, MonitorForwards, MonitorChecks, MonitorSignalled,
              MonitorTicks, MonitorCloses, CloseReader
<1>8. CASE World
  BY <1>8 DEF World, SendSignal, TargetCalls, TargetEnds, ParentReaps
<1>9. CASE UNCHANGED vars
  BY <1>9 DEF vars
<1> QED BY <1>1, <1>2, <1>3, <1>4, <1>5, <1>6, <1>7, <1>8, <1>9, <1>10 DEF Next, MainLoop

\* The status from cmd.Wait through the channel to Run's result: nobody but
\* the waiter reaps the child, and nobody else writes the channel.
LEMMA StatusStep == IInv /\ [Next]_vars => (Reaped /\ DoneIsChilds /\ AttachedProcs)'
<1> SUFFICES ASSUME IInv, [Next]_vars PROVE (Reaped /\ DoneIsChilds /\ AttachedProcs)'
  OBVIOUS
<1> USE ChildIsTarget DEF Launch, IInv, Reaped, DoneIsChilds, AttachedProcs, Statuses,
            runVars, handleVars, closeVars, routineVars, worldVars, eventVars
<1>1. CASE SetUp
  BY <1>1 DEF SetUp, StartLaunch, StartLaunchFails, ValidateAttachTargets, Acquire, AcquireFails,
              StartMonitors, ResumeFails, Return, Quiet, TypeOK
<1>2. CASE MainLoop
  BY <1>2 DEF MainLoop, ReadEvent, ReadClosed, AwaitDone, ReleaseNext, CloseReturns, Return
<1>3. CASE ReaderCloses
  BY <1>3 DEF ReaderCloses
<1>4. CASE Waiter
  BY <1>4 DEF Waiter, WaiterReaps, WaiterSends, WaiterSendsError, WaiterCloses, TypeOK
<1>5. CASE Monitor
  BY <1>5 DEF Monitor, MonitorReceives, MonitorForwards, MonitorChecks, MonitorSignalled,
              MonitorTicks, MonitorCloses, AnyProcessAlive, Exists
<1>6. CASE World
  BY <1>6 DEF World, SendSignal, TargetCalls, TargetEnds, ParentReaps, TypeOK
<1>7. CASE UNCHANGED vars
  BY <1>7 DEF vars
<1> QED BY <1>1, <1>2, <1>3, <1>4, <1>5, <1>6, <1>7 DEF Next

LEMMA IInvStep == IInv /\ [Next]_vars => IInv'
BY TypeStep, HandleStep, StatusStep DEF IInv

\* In every reachable state of a run, what has been decided agrees with the
\* child, the targets and the handle.
THEOREM Invariant == Spec => []IInv
BY IInvInit, IInvStep, PTL DEF Spec

-----------------------------------------------------------------------------
\* Run's variables keep their types; no channel holds two values.
THEOREM TypeCorrect == Spec => []TypeOK
<1>1. IInv => TypeOK
  BY DEF IInv
<1> QED BY <1>1, Invariant, PTL

\* The status a launched run reports is that of the reaped child, whatever
\* signals arrive and whoever closes the reader first.
THEOREM StatusReported == Spec => []StatusIsChilds
<1>1. IInv => StatusIsChilds
  BY DEF IInv, DoneIsChilds, StatusIsChilds
<1> QED BY <1>1, Invariant, PTL

\* An attached run that reports zero outlived all its targets.
THEOREM AttachReported == Spec => []AttachStatus
<1>1. IInv => AttachStatus
  BY DEF IInv, AttachedProcs, AttachStatus
<1> QED BY <1>1, Invariant, PTL

\* However Run ends, Close has tried every resource; what is left is what it
\* failed to close, which is reported, and a run that reports a status has
\* left nothing.
THEOREM Released == Spec => []HandleReleased
<1>1. IInv => HandleReleased
  BY DEF IInv
<1> QED BY <1>1, Invariant, PTL

\* A launched program is resumed only with every program attached and the
\* reader open.
THEOREM ResumedWhenAttached == Spec => TracedFromStart
<1>1. IInv /\ [Next]_vars => [ResumedTraced]_vars
  <2> SUFFICES ASSUME IInv, Next, Launch, proc[Child] = "stopped", proc'[Child] = "running"
               PROVE  held = All
    BY DEF ResumedTraced
  <2>1. StartMonitors
    BY ChildIsTarget
    DEF Next, SetUp, StartLaunch, StartLaunchFails, ValidateAttachTargets, Acquire, AcquireFails,
        ResumeFails, Return, MainLoop, ReadEvent, ReadClosed, AwaitDone, ReleaseNext, CloseReturns, Return, ReaderCloses,
        Waiter, WaiterReaps, WaiterSends, WaiterSendsError, WaiterCloses, Monitor, MonitorReceives,
        MonitorForwards, MonitorChecks, MonitorSignalled, MonitorTicks, MonitorCloses, World,
        SendSignal, TargetCalls, TargetEnds, ParentReaps, worldVars, IInv, TypeOK
  <2> QED BY <2>1 DEF StartMonitors, IInv, Acquired
<1> QED BY <1>1, Invariant, PTL DEF Spec, TracedFromStart

-----------------------------------------------------------------------------
(***************************************************************************)
(* The run implements Supervisor, but for its last promise, that it does   *)
(* conclude (liveness).  What the refinement needs beyond IInv: where the  *)
(* launched child is before its monitors run, and what a value in the      *)
(* channel, or the result taken from it, says of the targets and signals.  *)
(***************************************************************************)
\* A launched child runs only between the start of the monitors and the
\* receipt of its status.
ChildPlaced ==
    Launch =>
        /\ main = "prepare" => proc[Child] = "absent"
        /\ main \in {"new_handle", "monitors"} => proc[Child] = "stopped"
        /\ proc[Child] = "running" => main \in {"loop", "await"}

\* The event loop is entered with a monitor and left for Close with a result
\* from the channel; without a monitor Close follows a failure.
Monitored ==
    /\ main \in {"loop", "await"} => monitor # "off"
    /\ (main = "closing" /\ monitor = "off") => result = "error"
    /\ sigCh = 1 => sent > 0

\* What r, sent over the channel, says.
Justified(r) ==
    IF Launch THEN proc[Child] = "gone" /\ r \in {"exited", "killed", "nostatus", "error"}
    ELSE (r = "zero" /\ \A p \in Targets : proc[p] = "gone") \/ (r = "signal" /\ sent > 0)

Decided ==
    /\ done # "empty" => Justified(done)
    /\ (main = "closing" /\ monitor # "off") => Justified(result)

RInv == ChildPlaced /\ Monitored /\ Decided

LEMMA RInvInit == Init => RInv
<1> SUFFICES ASSUME Init PROVE RInv
  OBVIOUS
<1>1. Launch => proc[Child] = "absent"
  BY ChildIsTarget DEF Init
<1> QED BY <1>1 DEF Init, RInv, ChildPlaced, Monitored, Decided

LEMMA PlacedStep == IInv /\ RInv /\ [Next]_vars => (ChildPlaced /\ Monitored)'
<1> SUFFICES ASSUME IInv, RInv, [Next]_vars PROVE (ChildPlaced /\ Monitored)'
  OBVIOUS
<1> USE ChildIsTarget DEF Launch, IInv, RInv, ChildPlaced, Monitored, TypeOK,
            runVars, handleVars, closeVars, routineVars, worldVars, eventVars
<1>1. CASE SetUp
  BY <1>1 DEF SetUp, StartLaunch, StartLaunchFails, ValidateAttachTargets, Acquire, AcquireFails,
              StartMonitors, ResumeFails, Return, Quiet
<1>2. CASE MainLoop
  BY <1>2 DEF MainLoop, ReadEvent, ReadClosed, AwaitDone, ReleaseNext, CloseReturns, Return, Decided, Justified
<1>3. CASE ReaderCloses
  BY <1>3 DEF ReaderCloses
<1>4. CASE Waiter
  BY <1>4 DEF Waiter, WaiterReaps, WaiterSends, WaiterSendsError, WaiterCloses, Quiet
<1>5. CASE Monitor
  BY <1>5 DEF Monitor, MonitorReceives, MonitorForwards, MonitorChecks, MonitorSignalled,
              MonitorTicks, MonitorCloses
<1>6. CASE World
  BY <1>6 DEF World, SendSignal, TargetCalls, TargetEnds, ParentReaps
<1>7. CASE UNCHANGED vars
  BY <1>7 DEF vars
<1> QED BY <1>1, <1>2, <1>3, <1>4, <1>5, <1>6, <1>7 DEF Next

\* What justifies a result stays so: the dead stay dead, signals stay sent.
LEMMA ReasonsStay ==
    ASSUME IInv, RInv, [Next]_vars, main \notin {"prepare", "new_handle", "monitors"}
    PROVE  /\ mode' = mode
           /\ sent > 0 => sent' > 0
           /\ \A p \in Targets : proc[p] = "gone" => proc'[p] = "gone"
<1> USE ChildIsTarget DEF IInv, TypeOK, runVars, handleVars, closeVars, routineVars, worldVars, eventVars
<1>1. CASE MainLoop
  BY <1>1 DEF MainLoop, ReadEvent, ReadClosed, AwaitDone, ReleaseNext, CloseReturns, Return
<1>2. CASE Waiter \/ ReaderCloses
  BY <1>2 DEF Waiter, WaiterReaps, WaiterSends, WaiterSendsError, WaiterCloses, ReaderCloses
<1>3. CASE Monitor
  BY <1>3 DEF Monitor, MonitorReceives, MonitorForwards, MonitorChecks, MonitorSignalled,
              MonitorTicks, MonitorCloses
<1>4. CASE World
  BY <1>4 DEF World, SendSignal, TargetCalls, TargetEnds, ParentReaps
<1>5. CASE UNCHANGED vars
  BY <1>5 DEF vars
<1>6. ~SetUp
  BY DEF SetUp, StartLaunch, StartLaunchFails, ValidateAttachTargets, Acquire, AcquireFails,
         StartMonitors, ResumeFails
<1> QED BY <1>1, <1>2, <1>3, <1>4, <1>5, <1>6 DEF Next

\* Whatever enters the channel is justified when it does.
LEMMA DecidedStep == IInv /\ RInv /\ [Next]_vars => Decided'
<1> SUFFICES ASSUME IInv, RInv, [Next]_vars PROVE Decided'
  OBVIOUS
<1> USE ChildIsTarget DEF IInv, RInv, Decided,
            runVars, handleVars, closeVars, routineVars, worldVars, eventVars
<1>1. CASE main \in {"prepare", "new_handle", "monitors"}
  BY <1>1 DEF Next, SetUp, StartLaunch, StartLaunchFails, ValidateAttachTargets, Acquire,
      AcquireFails, StartMonitors, ResumeFails, Return, MainLoop, ReadEvent, ReadClosed,
      AwaitDone, ReleaseNext, CloseReturns, Return, ReaderCloses, Waiter, WaiterReaps, WaiterSends, WaiterSendsError,
      WaiterCloses, Monitor, MonitorReceives, MonitorForwards, MonitorChecks, MonitorSignalled,
      MonitorTicks, MonitorCloses, World, SendSignal, TargetCalls, TargetEnds, ParentReaps,
      vars, Quiet
<1>2. CASE main \notin {"prepare", "new_handle", "monitors"}
  <2>1. /\ (Justified(done) /\ done' = done) => Justified(done)'
        /\ (Justified(result) /\ result' = result) => Justified(result)'
    BY <1>2, ReasonsStay DEF Justified, Launch
  <2>2. CASE AwaitDone
    <3>1. /\ done # "empty" /\ done' = "empty" /\ main = "await" /\ UNCHANGED <<mode, proc, sent>>
          /\ result' = IF done = "nostatus" THEN "error" ELSE done
      BY <2>2 DEF AwaitDone
    <3>2. Justified(result)'
      BY <3>1 DEF Justified, Launch
    <3> QED BY <3>1, <3>2
  <2>3. CASE WaiterSends \/ WaiterSendsError
    <3>1. Launch /\ proc[Child] = "gone" /\ exitStatus[Child] \in {"exited", "killed"}
      BY <2>3 DEF WaiterSends, WaiterSendsError, AttachedProcs, Reaped, TypeOK
    <3>2. /\ done' \in {exitStatus[Child], "nostatus"}
          /\ UNCHANGED <<mode, proc, sent, main, monitor, result>>
      BY <2>3 DEF WaiterSends, WaiterSendsError
    <3>3. Justified(done)'
      BY <3>1, <3>2 DEF Justified, Launch
    <3> QED BY <2>1, <3>2, <3>3
  <2>4. CASE MonitorChecks
    <3>1. /\ ~Launch /\ UNCHANGED <<mode, proc, sent, main, result>> /\ monitor # "off"
          /\ done' = done \/ (done' = "zero" /\ ~AnyProcessAlive)
      BY <2>4 DEF MonitorChecks
    <3>2. done' # "empty" => Justified(done)'
      BY <2>1, <3>1 DEF Justified, Launch, AnyProcessAlive, Exists, AttachedProcs
    <3> QED BY <2>1, <3>1, <3>2
  <2>5. CASE MonitorSignalled
    <3>1. /\ ~Launch /\ UNCHANGED <<mode, proc, sent, main, result>> /\ monitor # "off"
          /\ done' = "signal" /\ sent > 0
      BY <2>5 DEF MonitorSignalled, Monitored
    <3>2. Justified(done)'
      BY <3>1 DEF Justified, Launch
    <3> QED BY <2>1, <3>1, <3>2
  <2>6. CASE ~(AwaitDone \/ WaiterSends \/ WaiterSendsError \/ MonitorChecks \/ MonitorSignalled)
    <3>1. /\ done' = done
          /\ main' = "closing" => main = "closing" /\ result' = result
          /\ monitor' # "off" => monitor # "off"
      BY <1>2, <2>6 DEF Next, SetUp, StartLaunch, StartLaunchFails, ValidateAttachTargets, Acquire,
          AcquireFails, StartMonitors, ResumeFails, MainLoop, ReadEvent, ReadClosed, ReleaseNext,
          CloseReturns, Return, ReaderCloses, Waiter, WaiterReaps, WaiterCloses, Monitor, MonitorReceives,
          MonitorForwards, MonitorTicks, MonitorCloses, World, SendSignal, TargetCalls, TargetEnds,
          ParentReaps, vars
    <3> QED BY <2>1, <3>1
  <2> QED BY <2>2, <2>3, <2>4, <2>5, <2>6
<1> QED BY <1>1, <1>2

\* The same with where the child is and what justifies the value in the channel:
\* what Run, its waiter and its monitors rely on of each other.
THEOREM RInvariant == Spec => [](IInv /\ RInv)
<1>1. IInv /\ RInv /\ [Next]_vars => RInv'
  BY PlacedStep, DecidedStep DEF RInv
<1> QED BY <1>1, Invariant, RInvInit, PTL DEF Spec

\* What a step that touches none of it leaves of the abstract run.
LEMMA AbstractSame ==
    ASSUME UNCHANGED <<mode, held, sent, monitor, main, result>>, Ended' = Ended
    PROVE  UNCHANGED Abstract!vars
BY DEF Abstract!vars, Phase, Hold, Status

\* A failed set-up is over at once, or when Close returns.
LEMMA SetUpStep ==
    ASSUME IInv, RInv, SetUp
    PROVE  [Abstract!Next]_(Abstract!vars)
<1> USE ChildIsTarget DEF runVars, handleVars, routineVars, worldVars, eventVars
<1>1. /\ main \in {"prepare", "new_handle", "monitors"} /\ monitor = "off"
      /\ Phase = "preparing" /\ Status = "none"
  BY DEF SetUp, StartLaunch, StartLaunchFails, ValidateAttachTargets, Acquire, AcquireFails,
         StartMonitors, ResumeFails, IInv, Quiet, Phase, Status
<1>2. proc \in [Targets -> {"absent", "stopped", "running", "zombie", "gone"}]
  BY DEF IInv, TypeOK
<1>3. CASE StartLaunch
  <2>1. UNCHANGED <<mode, held, sent, monitor>> /\ main' = "new_handle"
    BY <1>3 DEF StartLaunch
  <2>2. Ended' = Ended
    BY <1>2, <1>3 DEF StartLaunch, Ended, Launch, IInv, RInv, ChildPlaced
  <2> QED BY <1>1, <2>1, <2>2 DEF Abstract!vars, Phase, Hold, Status
<1>4. CASE StartLaunchFails
  <2>1. /\ UNCHANGED <<mode, held, sent>> /\ main' = "returned" /\ result' = "error"
        /\ held = {} /\ mode = "launch"
    BY <1>4 DEF StartLaunchFails, Return, IInv, Acquired, Launch
  <2>2. ~Ended
    BY <1>4 DEF StartLaunchFails, Ended, RInv, ChildPlaced
  <2>3. Ended' \in {Ended, mode = "launch"}
    BY <2>1, <2>2 DEF Ended, Launch
  <2>4. Abstract!Abort
    BY <1>1, <2>1, <2>3 DEF Abstract!Abort, Phase, Hold, Status
  <2> QED BY <2>4 DEF Abstract!Next
<1>5. CASE ValidateAttachTargets
  <2>1. UNCHANGED <<mode, held, sent, monitor, proc>> /\ held = {}
    BY <1>5 DEF ValidateAttachTargets, IInv, Acquired
  <2>2. Ended' = Ended
    BY <2>1 DEF Ended, Launch, AnyProcessAlive, Exists
  <2>3. CASE main' = "new_handle"
    BY <1>1, <2>1, <2>2, <2>3 DEF Abstract!vars, Phase, Hold, Status
  <2>4. CASE main' = "returned" /\ result' = "error"
    <3>1. Abstract!Abort
      BY <1>1, <2>1, <2>2, <2>4 DEF Abstract!Abort, Phase, Hold, Status
    <3> QED BY <3>1 DEF Abstract!Next
  <2> QED BY <1>5, <2>3, <2>4 DEF ValidateAttachTargets, Return
<1>6. CASE Acquire
  <2>1. /\ UNCHANGED <<mode, sent, monitor, proc>> /\ main' \in {"new_handle", "monitors"}
        /\ held \subseteq held' /\ held' # {}
    BY <1>6 DEF Acquire
  <2>2. held' \subseteq All /\ held \subseteq All
    BY <1>6, TypeStep DEF IInv, TypeOK, Next
  <2>3. Ended' = Ended /\ Phase' = "preparing" /\ Status' = "none"
    BY <1>1, <2>1 DEF Ended, Launch, AnyProcessAlive, Exists, Phase, Status
  <2>4. CASE Hold = "all"
    <3>1. held = All /\ held' = All
      BY <2>1, <2>2, <2>4 DEF Hold
    <3> QED BY <1>1, <2>1, <2>3, <3>1 DEF Abstract!vars, Hold
  <2>5. CASE Hold # "all"
    <3>1. Hold' \in {"some", "all"}
      BY <2>1 DEF Hold
    <3>2. Abstract!Attach
      BY <1>1, <2>1, <2>3, <2>5, <3>1 DEF Abstract!Attach
    <3> QED BY <3>2 DEF Abstract!Next
  <2> QED BY <2>4, <2>5
<1>7. CASE AcquireFails
  <2>1. /\ UNCHANGED <<mode, sent, monitor, proc>> /\ main' = "closing" /\ result' = "error"
        /\ held' = held \/ (held = {} /\ held' = {"objects"})
    BY <1>7 DEF AcquireFails
  <2>2. Ended' = Ended /\ Phase' = "closing" /\ Status' = "error"
    BY <1>1, <2>1 DEF Ended, Launch, AnyProcessAlive, Exists, Phase, Status
  <2>3. Hold' \in {Hold, "some"}
    BY <2>1 DEF Hold, All
  <2>4. Abstract!Abort
    BY <1>1, <2>1, <2>2, <2>3 DEF Abstract!Abort
  <2> QED BY <2>4 DEF Abstract!Next
<1>8. CASE StartMonitors
  <2>1. /\ UNCHANGED <<mode, held, sent>> /\ main' = "loop" /\ monitor' # "off"
        /\ held = All
    BY <1>8 DEF StartMonitors, IInv, Acquired
  <2>2. Ended' = Ended
    BY <1>2, <1>8, <2>1 DEF StartMonitors, Ended, Launch, AnyProcessAlive, Exists, RInv, ChildPlaced
  <2>3. Phase' = "tracing" /\ Status' = "none" /\ Hold = "all" /\ Hold' = Hold
    BY <2>1 DEF Phase, Status, Hold, All
  <2>4. Abstract!Start
    BY <1>1, <2>1, <2>2, <2>3 DEF Abstract!Start
  <2> QED BY <2>4 DEF Abstract!Next
<1>9. CASE ResumeFails
  <2>1. UNCHANGED <<mode, held, sent, monitor, proc>> /\ main' = "closing" /\ result' = "error"
    BY <1>9 DEF ResumeFails
  <2>2. Ended' = Ended /\ Phase' = "closing" /\ Status' = "error" /\ Hold' = Hold
    BY <1>1, <2>1 DEF Ended, Launch, AnyProcessAlive, Exists, Phase, Status, Hold
  <2>3. Abstract!Abort
    BY <1>1, <2>1, <2>2 DEF Abstract!Abort
  <2> QED BY <2>3 DEF Abstract!Next
<1> QED BY <1>3, <1>4, <1>5, <1>6, <1>7, <1>8, <1>9 DEF SetUp

\* Run has something to return: the value from the channel is a reason for it.
LEMMA FinishStep ==
    ASSUME IInv, RInv, AwaitDone
    PROVE  Abstract!Finish
<1>1. /\ main = "await" /\ main' = "closing" /\ done # "empty"
      /\ result' = IF done = "nostatus" THEN "error" ELSE done
      /\ UNCHANGED <<mode, held, sent, proc>>
  BY DEF AwaitDone, handleVars, worldVars
<1>2. Justified(done) /\ monitor # "off"
  BY <1>1 DEF RInv, Decided, Monitored
<1>3. result' \in Abstract!Reasons
  BY <1>1, <1>2, ChildIsTarget
  DEF Justified, Abstract!Reasons, Ended, Launch, AnyProcessAlive, Exists
<1>4. Ended' = Ended
  BY <1>1 DEF Ended, Launch, AnyProcessAlive, Exists
<1> QED BY <1>1, <1>2, <1>3, <1>4 DEF Abstract!Finish, Phase, Hold, Status

\* Close lets go of what is held, or fails to, one resource at a time.
LEMMA ReleaseStep ==
    ASSUME IInv, RInv, ReleaseNext
    PROVE  [Abstract!Next]_(Abstract!vars)
<1>1. /\ main = "closing" /\ held' \subseteq held /\ held \subseteq All
      /\ UNCHANGED <<mode, sent, monitor, main, result, proc>>
  BY ReleaseOne DEF IInv, TypeOK, runVars, routineVars, worldVars
<1>2. Ended' = Ended
  BY <1>1 DEF Ended, Launch, AnyProcessAlive, Exists
<1>3. CASE held' = held
  BY <1>1, <1>2, <1>3, AbstractSame
<1>4. CASE held' # held
  <2>1. Hold # "none" /\ Hold' \in {"none", "some"}
    BY <1>1, <1>4 DEF Hold
  <2>2. Phase = "closing" /\ Phase' = Phase /\ Status' = Status
    BY <1>1 DEF Phase, Status
  <2>3. Abstract!Release
    BY <1>1, <1>2, <2>1, <2>2 DEF Abstract!Release
  <2> QED BY <2>3 DEF Abstract!Next
<1> QED BY <1>3, <1>4

\* The run is over with what it was about to return, and then nothing is held
\* any more, or with an error.
LEMMA ConcludeStep ==
    ASSUME IInv, RInv, CloseReturns
    PROVE  Abstract!Conclude
<1>1. /\ main = "closing" /\ main' = "returned"
      /\ result' = (IF closeErr = {} THEN result ELSE "error")
      /\ UNCHANGED <<mode, sent, proc, held>>
  BY DEF CloseReturns, Return, handleVars, worldVars
<1>2. Ended' = Ended
  BY <1>1 DEF Ended, Launch, AnyProcessAlive, Exists
<1>3. result' # "error" => held = {}
  <2>1. HandleReleased' /\ result' \in Statuses \cup {"none", "error"} /\ result # "none"
    BY <1>1, HandleStep, TypeStep DEF Next, MainLoop, TypeOK, IInv, Closing
  <2> QED BY <1>1, <2>1 DEF HandleReleased
<1> QED BY <1>1, <1>2, <1>3 DEF Abstract!Conclude, Phase, Hold, Status

LEMMA EndedBoolean == Ended \in BOOLEAN /\ Ended' \in BOOLEAN
<1>1. Ended \in BOOLEAN
  <2>1. CASE Launch
    BY <2>1 DEF Ended
  <2>2. CASE ~Launch
    BY <2>2 DEF Ended, AnyProcessAlive
  <2> QED BY <2>1, <2>2
<1>2. Ended' \in BOOLEAN
  <2>1. CASE Launch'
    BY <2>1 DEF Ended
  <2>2. CASE ~Launch'
    BY <2>2 DEF Ended, AnyProcessAlive
  <2> QED BY <2>1, <2>2
<1> QED BY <1>1, <1>2

\* Steps of the targets and of the user.
LEMMA WorldStep ==
    ASSUME IInv, RInv, World
    PROVE  [Abstract!Next]_(Abstract!vars)
<1> USE ChildIsTarget DEF runVars, handleVars, closeVars, routineVars, worldVars, eventVars
<1>1. UNCHANGED <<mode, main, result, held, monitor>>
  BY DEF World, SendSignal, TargetCalls, TargetEnds, ParentReaps
<1>2. Phase' = Phase /\ Hold' = Hold /\ Status' = Status
  BY <1>1 DEF Phase, Hold, Status
<1>3. proc \in [Targets -> {"absent", "stopped", "running", "zombie", "gone"}]
  BY DEF IInv, TypeOK
<1>4. CASE SendSignal
  <2>1. proc' = proc /\ (sent' > 0) = TRUE
    BY <1>4 DEF SendSignal, IInv, TypeOK
  <2>2. Ended' = Ended
    BY <1>1, <2>1 DEF Ended, Launch, AnyProcessAlive, Exists
  <2>3. Abstract!Interrupt
    BY <1>1, <1>2, <2>1, <2>2 DEF Abstract!Interrupt
  <2> QED BY <2>3 DEF Abstract!Next
<1>5. ASSUME NEW p \in Targets, TargetCalls(p)
      PROVE  [Abstract!Next]_(Abstract!vars)
  <2>1. proc' = proc /\ sent' = sent
    BY <1>5 DEF TargetCalls
  <2>2. Ended' = Ended
    BY <1>1, <2>1 DEF Ended, Launch, AnyProcessAlive, Exists
  <2> QED BY <1>1, <1>2, <2>1, <2>2 DEF Abstract!vars
<1>6. ASSUME NEW p \in Targets, TargetEnds(p) \/ ParentReaps(p)
      PROVE  [Abstract!Next]_(Abstract!vars)
  <2>1. sent' = sent
    BY <1>6 DEF TargetEnds, ParentReaps
  <2>2. Ended => Ended'
    BY <1>1, <1>3, <1>6 DEF TargetEnds, ParentReaps, Ended, Launch, AnyProcessAlive, Exists
  <2>3. CASE Ended' = Ended
    BY <1>1, <1>2, <2>1, <2>3 DEF Abstract!vars
  <2>4. CASE ~Ended /\ Ended' = TRUE
    <3>1. mode = "launch" => Phase = "tracing"
      BY <1>1, <1>3, <1>6, <2>4
      DEF TargetEnds, ParentReaps, Ended, Launch, Phase, RInv, ChildPlaced, Monitored
    <3>2. Abstract!TargetsEnd
      BY <1>1, <1>2, <2>1, <2>4, <3>1 DEF Abstract!TargetsEnd
    <3> QED BY <3>2 DEF Abstract!Next
  <2>5. Ended \in BOOLEAN /\ Ended' \in BOOLEAN
    BY EndedBoolean
  <2> QED BY <2>2, <2>3, <2>4, <2>5
<1> QED BY <1>4, <1>5, <1>6 DEF World

LEMMA SupervisorStep == IInv /\ RInv /\ [Next]_vars => [Abstract!Next]_(Abstract!vars)
<1> SUFFICES ASSUME IInv, RInv, [Next]_vars PROVE [Abstract!Next]_(Abstract!vars)
  OBVIOUS
<1>1. CASE SetUp
  BY <1>1, SetUpStep
<1>2. CASE AwaitDone \/ ReleaseNext \/ CloseReturns
  BY <1>2, FinishStep, ReleaseStep, ConcludeStep DEF Abstract!Next
<1>3. CASE World
  BY <1>3, WorldStep
<1>4. CASE ReadEvent \/ ReadClosed \/ ReaderCloses \/ Waiter \/ Monitor \/ UNCHANGED vars
  <2> USE DEF runVars, handleVars, closeVars, routineVars, worldVars, eventVars
  <2>1. /\ UNCHANGED <<mode, held, sent, result>>
        /\ main' = main \/ (main = "loop" /\ main' = "await")
        /\ (monitor = "off") = (monitor' = "off")
    BY <1>4 DEF ReadEvent, ReadClosed, ReaderCloses, Waiter, WaiterReaps,
          WaiterSends, WaiterSendsError, WaiterCloses, Monitor, MonitorReceives, MonitorForwards,
          MonitorChecks, MonitorSignalled, MonitorTicks, MonitorCloses, vars
  <2>2. Ended' = Ended
    <3>1. CASE proc' = proc
      BY <2>1, <3>1 DEF Ended, Launch, AnyProcessAlive, Exists
    <3>2. CASE WaiterReaps
      BY <2>1, <3>2, ChildIsTarget DEF WaiterReaps, Ended, Launch, IInv, TypeOK, AttachedProcs
    <3> QED BY <1>4, <3>1, <3>2 DEF ReadEvent, ReadClosed, ReaderCloses, Waiter,
          WaiterSends, WaiterSendsError, WaiterCloses, Monitor, MonitorReceives, MonitorForwards,
          MonitorChecks, MonitorSignalled, MonitorTicks, MonitorCloses, vars
  <2>3. Phase' = Phase /\ Hold' = Hold /\ Status' = Status
    BY <2>1 DEF Phase, Hold, Status
  <2> QED BY <2>1, <2>2, <2>3 DEF Abstract!vars
<1> QED BY <1>1, <1>2, <1>3, <1>4 DEF Next, MainLoop

\* However goroutines, signals, failing steps of the set-up and of Close and
\* the ends of the targets interleave: targets start only when everything is
\* attached, and the run reports a status that the end of its targets or a
\* signal justifies, having let go of everything, or else an error.
THEOREM Supervised == Spec => Abstract!SafeSpec
<1>1. Init => Abstract!Init
  <2> SUFFICES ASSUME Init PROVE Abstract!Init
    OBVIOUS
  <2>1. Phase = "preparing" /\ Hold = "none" /\ (sent > 0) = FALSE /\ Status = "none"
    BY DEF Init, Phase, Hold, Status
  <2>2. mode = "launch" => ~Ended
    BY ChildIsTarget DEF Init, Ended, Launch
  <2>3. Ended \in IF mode = "launch" THEN {FALSE} ELSE BOOLEAN
    BY <2>2, EndedBoolean
  <2> QED BY <2>1, <2>3 DEF Init, Abstract!Init
<1> QED BY <1>1, SupervisorStep, RInvariant, PTL DEF Spec, Abstract!SafeSpec
=============================================================================
