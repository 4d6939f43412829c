----------------------------- MODULE Supervisor -----------------------------
(***************************************************************************)
(* What one run of litrace promises whoever started it, without channels,  *)
(* goroutines and the handle's parts.  The targets are let run only when   *)
(* everything is attached.  The run concludes once: with a status its      *)
(* targets or a signal justify, and then it has left nothing attached, or  *)
(* with an error, when its preparation, the wait for the program or the    *)
(* release of what it held failed.  And it does conclude when it has a     *)
(* reason to.                                                              *)
(***************************************************************************)
VARIABLES
    mode,           \* "launch" or "attach"
    phase,          \* "preparing", "tracing", "closing" or "over"
    hold,           \* it holds "none", "some" or "all" of what tracing takes
    ended,          \* the launched program, or every attached process, is over
    interrupted,    \* litrace was sent a signal
    status          \* what the run reports

vars == <<mode, phase, hold, ended, interrupted, status>>

Init ==
    /\ mode \in {"launch", "attach"}
    /\ phase = "preparing" /\ hold = "none"
    /\ ended \in IF mode = "launch" THEN {FALSE} ELSE BOOLEAN
    /\ interrupted = FALSE /\ status = "none"

Attach ==
    /\ phase = "preparing" /\ hold # "all"
    /\ hold' \in {"some", "all"}
    /\ UNCHANGED <<mode, phase, ended, interrupted, status>>

Start ==
    /\ phase = "preparing" /\ hold = "all"
    /\ phase' = "tracing"
    /\ UNCHANGED <<mode, hold, ended, interrupted, status>>

\* Preparation fails; a program that was being launched may have ended.
Abort ==
    /\ phase = "preparing"
    /\ \/ phase' = "closing" /\ hold' \in {hold, "some"}
       \/ phase' = "over" /\ hold = "none" /\ hold' = "none"
    /\ status' = "error"
    /\ ended' \in {ended, mode = "launch"}
    /\ UNCHANGED <<mode, interrupted>>

\* A launched program is stopped until the run has started.
TargetsEnd ==
    /\ ~ended /\ (mode = "launch" => phase = "tracing")
    /\ ended' = TRUE
    /\ UNCHANGED <<mode, phase, hold, interrupted, status>>

Interrupt ==
    /\ interrupted' = TRUE
    /\ UNCHANGED <<mode, phase, hold, ended, status>>

\* A signal ends an attached run; a launched program is waited for.
Reasons ==
    IF mode = "launch" THEN IF ended THEN {"exited", "killed", "error"} ELSE {}
    ELSE (IF ended THEN {"zero"} ELSE {}) \cup (IF interrupted THEN {"signal"} ELSE {})

Finish ==
    /\ phase = "tracing"
    /\ status' \in Reasons
    /\ phase' = "closing"
    /\ UNCHANGED <<mode, hold, ended, interrupted>>

Release ==
    /\ phase = "closing" /\ hold # "none"
    /\ hold' \in {"none", "some"}
    /\ UNCHANGED <<mode, phase, ended, interrupted, status>>

\* What could not be released is reported as an error, in place of the status.
Conclude ==
    /\ phase = "closing"
    /\ status' \in {status, "error"}
    /\ status' # "error" => hold = "none"
    /\ phase' = "over"
    /\ UNCHANGED <<mode, hold, ended, interrupted>>

Next ==
    Attach \/ Start \/ Abort \/ TargetsEnd \/ Interrupt \/ Finish \/ Release \/ Conclude

\* The promise without its last part, that a run does conclude.
SafeSpec == Init /\ [][Next]_vars

Spec == SafeSpec /\ WF_vars(Finish) /\ WF_vars(Conclude)
=============================================================================
