------------------------------ MODULE TraceRun ------------------------------
(***************************************************************************)
(* One run of litrace in user space: Run (internal/run.go), the goroutines *)
(* it starts for a launched program or for attached processes              *)
(* (run_launch.go, run_mode.go), and the BPF handle they share             *)
(* (internal/bpf/handle.go), against target processes that make calls and  *)
(* end, signals for litrace, and set-up steps that fail.                   *)
(*                                                                         *)
(* Events are counted.  The ring buffer reader is the cilium library's:    *)
(* closing it interrupts a waiting Read, a Read that has data may still    *)
(* return it, and what is unread then is lost.  The goroutines that close  *)
(* it ignore its error and would leave Run reading; it is taken to wake    *)
(* the reader when they call it.                                           *)
(***************************************************************************)
EXTENDS Integers, Sequences

CONSTANTS
    Targets,        \* the processes attached to with -p; one of them when launched
    Faults,         \* may steps of the set-up and of Close fail
    MaxEvents,      \* bound: events
    MaxSignals      \* bound: signals sent to litrace

ASSUME TargetsAssumption == Targets # {}
ASSUME FaultsAssumption == Faults \in BOOLEAN
ASSUME BoundsAssumption == MaxEvents \in Nat /\ MaxSignals \in Nat

VARIABLES
    mode,           \* launch a program, or attach to processes
    main,           \* where Run is
    result,         \* what it returns
    held,           \* resources the handle owns
    objectsReady,
    reader,         \* the ring buffer reader
    released,       \* how many of its resources Close has dealt with
    closeErr,       \* those it failed to close
    monitor,        \* signal goroutine (launch), or attach monitor
    waiter,         \* goroutine in cmd.Wait
    done,           \* launchDone or attachDone, capacity one
    sigCh,          \* signals waiting in the channel, capacity one
    sent,           \* signals sent so far
    proc,           \* the target processes
    exitStatus,     \* how each ended
    signalled,      \* the launched process group was sent a signal
    submitted, unread, printed      \* events

runVars == <<main, result>>
closeVars == <<released, closeErr>>
handleVars == <<held, objectsReady, reader, closeVars>>
routineVars == <<monitor, waiter, done>>
worldVars == <<mode, sigCh, sent, proc, exitStatus, signalled>>
eventVars == <<submitted, unread, printed>>
vars == <<mode, main, result, held, objectsReady, reader, released, closeErr, monitor, waiter,
          done, sigCh, sent, proc, exitStatus, signalled, submitted, unread, printed>>

Launch == mode = "launch"
Child == CHOOSE c \in Targets : TRUE

\* In the order NewHandle acquires them.
Resources == <<"objects", "enter", "exit", "sched", "reader">>
All == {"objects", "enter", "exit", "sched", "reader"}

\* What kill(pid, 0) finds: a zombie counts.
Exists(p) == proc[p] \in {"stopped", "running", "zombie"}
AllProcessesAlive == \A p \in Targets : Exists(p)
AnyProcessAlive == \E p \in Targets : Exists(p)

-----------------------------------------------------------------------------
Init ==
    /\ mode \in {"launch", "attach"}
    /\ main = "prepare" /\ result = "none"
    /\ held = {} /\ objectsReady = FALSE /\ reader = "none"
    /\ released = 0 /\ closeErr = {}
    /\ monitor = "off" /\ waiter = "off" /\ done = "empty"
    /\ sigCh = 0 /\ sent = 0
    /\ proc \in [Targets -> IF Launch THEN {"absent"} ELSE {"running", "gone"}]
    /\ exitStatus = [p \in Targets |-> "none"]
    /\ signalled = FALSE
    /\ submitted = 0 /\ unread = 0 /\ printed = 0

(***************************************************************************)
(* Run up to the event loop.                                               *)
(***************************************************************************)
Return(r) == main' = "returned" /\ result' = r

\* startLaunchTrace: the program is started and stopped at its first exec.
StartLaunch ==
    /\ main = "prepare" /\ Launch
    /\ proc' = [proc EXCEPT ![Child] = "stopped"]
    /\ main' = "new_handle"
    /\ UNCHANGED <<result, handleVars, routineVars, sigCh, sent, exitStatus, signalled, eventVars, mode>>

\* Start failed, or wait4 reported an end, which it reaped, or another stop.
StartLaunchFails ==
    /\ main = "prepare" /\ Launch /\ Faults
    /\ \E left \in {"absent", "gone", "stopped"} : proc' = [proc EXCEPT ![Child] = left]
    /\ Return("error")
    /\ UNCHANGED <<handleVars, routineVars, sigCh, sent, exitStatus, signalled, eventVars, mode>>

ValidateAttachTargets ==
    /\ main = "prepare" /\ ~Launch
    /\ IF \A p \in Targets : Exists(p)
       THEN main' = "new_handle" /\ UNCHANGED result
       ELSE Return("error")
    /\ UNCHANGED <<handleVars, routineVars, worldVars, eventVars>>

\* A NewHandle that counts itself ready without its reader.
LastLink == "sched"
LastResource == "reader"

\* NewHandle: the next resource in order.  objectsReady is set once the maps
\* are filled; the reader is the last.
Acquire ==
    /\ main = "new_handle"
    /\ \E i \in 1..Len(Resources) :
          /\ held = {Resources[j] : j \in 1..(i - 1)}
          /\ held' = held \cup {Resources[i]}
          /\ objectsReady' = (objectsReady \/ Resources[i] = "objects")
          /\ reader' = IF Resources[i] = "reader" THEN "open" ELSE reader
          /\ main' = IF Resources[i] = LastResource THEN "monitors" ELSE main
    /\ UNCHANGED <<result, closeVars, routineVars, worldVars, eventVars>>

\* The deferred Close releases what was acquired.  Objects whose maps could
\* not be filled are loaded without objectsReady.
AcquireFails ==
    /\ main = "new_handle" /\ Faults
    /\ held' = held \/ (held = {} /\ held' = {"objects"})
    /\ main' = "closing" /\ result' = "error"
    /\ UNCHANGED <<objectsReady, reader, closeVars, routineVars, worldVars, eventVars>>

CloseReader == reader' = IF reader = "open" THEN "closing" ELSE reader

\* startTargetModeMonitors: a launched program is resumed only here.
StartMonitors ==
    /\ main = "monitors"
    /\ main' = "loop"
    /\ proc' = IF Launch THEN [proc EXCEPT ![Child] = "running"] ELSE proc
    /\ monitor' = IF Launch THEN "wait" ELSE "check"
    /\ waiter' = IF Launch THEN "wait" ELSE "off"
    /\ UNCHANGED <<result, handleVars, done, sigCh, sent, exitStatus, signalled, eventVars, mode>>

ResumeFails ==
    /\ main = "monitors" /\ Launch /\ Faults
    /\ main' = "closing" /\ result' = "error"
    /\ UNCHANGED <<handleVars, routineVars, worldVars, eventVars>>

(***************************************************************************)
(* The event loop and the end of Run.                                      *)
(***************************************************************************)
MaybeData == unread >= 0
HaveData == unread > 0

ReadEvent ==
    /\ main = "loop" /\ reader \in {"open", "closing"} /\ HaveData
    /\ unread' = unread - 1 /\ printed' = printed + 1
    /\ UNCHANGED <<runVars, handleVars, routineVars, worldVars, submitted>>

ReadClosed ==
    /\ main = "loop" /\ reader \in {"closing", "closed"}
    /\ main' = "await"
    /\ UNCHANGED <<result, handleVars, routineVars, worldVars, eventVars>>

\* A Run that does not wait for the child once the reader is closed.
AwaitAnyDone ==
    /\ main = "await"
    /\ result' = IF done = "empty" THEN "exited" ELSE done
    /\ done' = "empty"
    /\ main' = "closing"
    /\ UNCHANGED <<handleVars, monitor, waiter, worldVars, eventVars>>

\* <-launchDone or <-attachDone.
AwaitDone ==
    /\ main = "await" /\ done # "empty"
    /\ result' = IF done = "nostatus" THEN "error" ELSE done
    /\ done' = "empty"
    /\ main' = "closing"
    /\ UNCHANGED <<handleVars, monitor, waiter, worldVars, eventVars>>

\* Handle.Close, deferred by Run or by NewHandle, deals with these in turn.
Releasing == <<"reader", "sched", "exit", "enter", "objects">>

\* Objects are closed only when they were counted ready.
Closable(r) == r \in held /\ (r = "objects" => objectsReady)

ReleaseSucceeds(r) ==
    /\ held' = IF Closable(r) THEN held \ {r} ELSE held
    /\ IF r = "reader" THEN CloseReader ELSE UNCHANGED reader
    /\ UNCHANGED closeErr

\* What an error leaves behind is the library's affair.  Closing the reader a
\* second time is no error.
ReleaseFails(r) ==
    /\ Faults /\ Closable(r)
    /\ held' \in {held, held \ {r}}
    /\ IF r = "reader" THEN reader = "open" /\ reader' \in {"open", "closing"}
       ELSE UNCHANGED reader
    /\ closeErr' = closeErr \cup {r}

\* A Close that returns its first error.
CloseStopsAtError == released' = IF closeErr' = {} THEN released + 1 ELSE Len(Releasing)

CloseGoesOn == released' = released + 1

ReleaseNext ==
    /\ main = "closing" /\ released < Len(Releasing)
    /\ LET r == Releasing[released + 1] IN ReleaseSucceeds(r) \/ ReleaseFails(r)
    /\ CloseGoesOn
    /\ UNCHANGED <<runVars, objectsReady, routineVars, worldVars, eventVars>>

\* A Run that takes no notice of what Close returns.
CloseIgnored ==
    /\ main = "closing" /\ released = Len(Releasing)
    /\ Return(result)
    /\ UNCHANGED <<handleVars, routineVars, worldVars, eventVars>>

\* Run joins the errors of Close to its own, and litrace exits with 1 for any;
\* NewHandle, which ignores them, fails in any case.
CloseReturns ==
    /\ main = "closing" /\ released = Len(Releasing)
    /\ Return(IF closeErr = {} THEN result ELSE "error")
    /\ UNCHANGED <<handleVars, routineVars, worldVars, eventVars>>

\* The library's Close finishes: nothing can be read any more.
ReaderCloses ==
    /\ reader = "closing"
    /\ reader' = "closed"
    /\ UNCHANGED <<runVars, held, objectsReady, closeVars, routineVars, worldVars, eventVars>>

(***************************************************************************)
(* startLaunchWait                                                         *)
(***************************************************************************)
WaiterReaps ==
    /\ waiter = "wait" /\ proc[Child] = "zombie"
    /\ proc' = [proc EXCEPT ![Child] = "gone"]
    /\ waiter' = "reaped"
    /\ UNCHANGED <<runVars, handleVars, monitor, done, mode, sigCh, sent, exitStatus, signalled,
                   eventVars>>

WaiterSends ==
    /\ waiter = "reaped" /\ done = "empty"
    /\ done' = exitStatus[Child]
    /\ waiter' = "sent"
    /\ UNCHANGED <<runVars, handleVars, monitor, worldVars, eventVars>>

\* cmd.Wait failed for another reason than the child's status.
WaiterSendsError ==
    /\ waiter = "reaped" /\ done = "empty" /\ Faults
    /\ done' = "nostatus"
    /\ waiter' = "sent"
    /\ UNCHANGED <<runVars, handleVars, monitor, worldVars, eventVars>>

\* A waiter that only hands over the status.
WaiterLeavesReader ==
    /\ waiter = "sent" /\ waiter' = "done"
    /\ UNCHANGED <<runVars, handleVars, monitor, done, worldVars, eventVars>>

WaiterCloses ==
    /\ waiter = "sent" /\ waiter' = "done"
    /\ CloseReader
    /\ UNCHANGED <<runVars, held, objectsReady, closeVars, monitor, done, worldVars, eventVars>>

(***************************************************************************)
(* startLaunchMonitor: takes one signal, forwards it to the program's      *)
(* process group and ends; later signals stay in the channel.              *)
(***************************************************************************)
MonitorReceives ==
    /\ Launch /\ monitor = "wait" /\ sigCh = 1
    /\ sigCh' = 0
    /\ monitor' = "forward"
    /\ UNCHANGED <<runVars, handleVars, waiter, done, sent, proc, exitStatus, signalled, eventVars, mode>>

\* A forwarder that takes every signal for an unknown one.
DropLaunchSignal == signalled' = signalled

ForwardLaunchSignal == signalled' = (signalled \/ Exists(Child))

MonitorForwards ==
    /\ Launch /\ monitor = "forward"
    /\ ForwardLaunchSignal
    /\ monitor' = "sent"
    /\ UNCHANGED <<runVars, handleVars, waiter, done, sigCh, sent, proc, exitStatus, eventVars, mode>>

(***************************************************************************)
(* startAttachMonitor                                                      *)
(***************************************************************************)
\* No target is left, or else the goroutine waits for a signal or the ticker.
MonitorChecks ==
    /\ ~Launch /\ monitor = "check"
    /\ IF AnyProcessAlive
       THEN monitor' = "select" /\ UNCHANGED done
       ELSE monitor' = "sent" /\ done' = "zero"
    /\ UNCHANGED <<runVars, handleVars, waiter, worldVars, eventVars>>

MonitorSignalled ==
    /\ ~Launch /\ monitor = "select" /\ sigCh = 1
    /\ sigCh' = 0
    /\ done' = "signal"
    /\ monitor' = "sent"
    /\ UNCHANGED <<runVars, handleVars, waiter, sent, proc, exitStatus, signalled, eventVars, mode>>

MonitorTicks ==
    /\ ~Launch /\ monitor = "select"
    /\ monitor' = "check"
    /\ UNCHANGED <<runVars, handleVars, waiter, done, worldVars, eventVars>>

\* Both monitors end by closing the reader.
MonitorCloses ==
    /\ monitor = "sent" /\ monitor' = "done"
    /\ CloseReader
    /\ UNCHANGED <<runVars, held, objectsReady, closeVars, waiter, done, worldVars, eventVars>>

(***************************************************************************)
(* The targets and the user (external).                                    *)
(***************************************************************************)
TargetCalls(p) ==
    /\ proc[p] = "running" /\ submitted < MaxEvents
    /\ {"objects", "enter", "exit"} \subseteq held
    /\ submitted' = submitted + 1 /\ unread' = unread + 1
    /\ UNCHANGED <<runVars, handleVars, routineVars, worldVars, printed>>

TargetEnds(p) ==
    /\ proc[p] = "running"
    /\ proc' = [proc EXCEPT ![p] = "zombie"]
    /\ \E s \in {"exited"} \cup (IF signalled THEN {"killed"} ELSE {}) :
          exitStatus' = [exitStatus EXCEPT ![p] = s]
    /\ UNCHANGED <<runVars, handleVars, routineVars, sigCh, sent, signalled, eventVars, mode>>

\* An attached process is reaped by its own parent.
ParentReaps(p) ==
    /\ ~Launch /\ proc[p] = "zombie"
    /\ proc' = [proc EXCEPT ![p] = "gone"]
    /\ UNCHANGED <<runVars, handleVars, routineVars, sigCh, sent, exitStatus, signalled, eventVars, mode>>

\* signal.Notify does not block: a signal that finds the channel full is lost.
SendSignal ==
    /\ sent < MaxSignals
    /\ sent' = sent + 1
    /\ sigCh' = 1
    /\ UNCHANGED <<runVars, handleVars, routineVars, proc, exitStatus, signalled, eventVars, mode>>

-----------------------------------------------------------------------------
SetUp ==
    \/ StartLaunch \/ StartLaunchFails \/ ValidateAttachTargets
    \/ Acquire \/ AcquireFails \/ StartMonitors \/ ResumeFails
MainLoop == ReadEvent \/ ReadClosed \/ AwaitDone \/ ReleaseNext \/ CloseReturns
Waiter == WaiterReaps \/ WaiterSends \/ WaiterSendsError \/ WaiterCloses
Monitor ==
    \/ MonitorReceives \/ MonitorForwards
    \/ MonitorChecks \/ MonitorSignalled \/ MonitorTicks
    \/ MonitorCloses
World == SendSignal \/ \E p \in Targets : TargetCalls(p) \/ TargetEnds(p) \/ ParentReaps(p)

Next == SetUp \/ MainLoop \/ ReaderCloses \/ Waiter \/ Monitor \/ World

Spec == Init /\ [][Next]_vars

\* Goroutines are scheduled, select does not starve a ready signal for ever,
\* and the library's Close gets the reader's lock.
Fairness ==
    /\ WF_vars(SetUp) /\ WF_vars(MainLoop) /\ WF_vars(ReaderCloses) /\ WF_vars(ReadClosed)
    /\ WF_vars(Waiter) /\ WF_vars(Monitor) /\ SF_vars(MonitorSignalled)

FairSpec == Spec /\ Fairness

-----------------------------------------------------------------------------
(***************************************************************************)
(* Properties                                                              *)
(***************************************************************************)
Statuses == {"exited", "killed", "zero", "signal"}

\* Every variable keeps its type; a channel holds at most one value.
TypeOK ==
    /\ mode \in {"launch", "attach"}
    /\ main \in {"prepare", "new_handle", "monitors", "loop", "await", "closing", "returned"}
    /\ result \in Statuses \cup {"none", "error"}
    /\ held \subseteq All /\ objectsReady \in BOOLEAN
    /\ reader \in {"none", "open", "closing", "closed"}
    /\ released \in 0..Len(Releasing) /\ closeErr \subseteq All
    /\ monitor \in {"off", "wait", "forward", "check", "select", "sent", "done"}
    /\ waiter \in {"off", "wait", "reaped", "sent", "done"}
    /\ done \in Statuses \cup {"empty", "nostatus"}
    /\ sigCh \in 0..1 /\ sent \in 0..MaxSignals
    /\ proc \in [Targets -> {"absent", "stopped", "running", "zombie", "gone"}]
    /\ exitStatus \in [Targets -> {"none", "exited", "killed"}]
    /\ signalled \in BOOLEAN
    /\ submitted \in Nat /\ unread \in Nat /\ printed \in Nat

\* Whatever signal arrives and whenever it closes the reader, a run of a
\* launched program that reports a status reports that of the program, which
\* has ended and been reaped.
StatusIsChilds ==
    (Launch /\ result \in Statuses) => (proc[Child] = "gone" /\ result = exitStatus[Child])

\* An attached run reports zero only when no target is left, else the signal.
AttachStatus ==
    (~Launch /\ result = "zero") => \A p \in Targets : proc[p] = "gone"

\* However Run ends, at whatever step the set-up failed, and whatever Close
\* failed to close on the way: every resource is tried, what is left is what
\* reported an error (or objects whose maps could not be filled), Run reports
\* the errors, and a run that reports a status has left nothing.
HandleReleased ==
    main = "returned" =>
        /\ held \subseteq closeErr \cup (IF objectsReady THEN {} ELSE {"objects"})
        /\ reader = "open" => "reader" \in closeErr
        /\ closeErr # {} => result = "error"
        /\ result \in Statuses => held = {}

\* A launched program executes nothing before all programs are attached.
ResumedTraced == (Launch /\ proc[Child] = "stopped" /\ proc'[Child] = "running") => held = All
TracedFromStart == [][ResumedTraced]_vars

\* Once the program has ended (or no attached process is left, or an attached
\* run was signalled), Run returns.
Over ==
    IF Launch THEN proc[Child] \in {"zombie", "gone"} ELSE ~AnyProcessAlive \/ sigCh = 1
Terminates == (main = "loop" /\ Over) ~> (main = "returned")

\* The first signal sent to litrace while the program runs is forwarded to
\* its process group, unless the program ends before.
FirstSignalForwarded ==
    (Launch /\ main = "loop" /\ sent = 1 /\ sigCh = 1) ~> (signalled \/ proc[Child] # "running")

(***************************************************************************)
(* The abstract run: tracing from the start of its monitors until it has   *)
(* something to return, and over when Close has returned.                  *)
(***************************************************************************)
Phase ==
    CASE main = "returned" -> "over"
      [] main = "closing" -> "closing"
      [] main \notin {"returned", "closing"} ->
            IF monitor = "off" THEN "preparing" ELSE "tracing"
Hold == IF held = {} THEN "none" ELSE IF held = All THEN "all" ELSE "some"
Ended == IF Launch THEN proc[Child] \in {"zombie", "gone"} ELSE ~AnyProcessAlive
Status == IF main \in {"closing", "returned"} THEN result ELSE "none"

Abstract == INSTANCE Supervisor WITH
    phase <- Phase, hold <- Hold, ended <- Ended, interrupted <- (sent > 0), status <- Status

\* However goroutines, signals, failing steps of the set-up and of Close and
\* the ends of the targets interleave: a run starts its targets only when
\* everything is attached, reports a status that the end of its targets or a
\* signal justifies, and then leaves nothing attached, or else an error; and
\* it concludes once it has a reason to.
RefinesSupervisor == Abstract!Spec

(***************************************************************************)
(* What the tests ask of the trace output; checked to fail.                *)
(***************************************************************************)
\* When litrace was not interrupted, every event of the launched program is
\* printed by the time Run returns.
AllEventsPrinted ==
    (Launch /\ main = "returned" /\ result \in Statuses /\ sent = 0) => printed = submitted
=============================================================================
