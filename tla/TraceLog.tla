------------------------------ MODULE TraceLog ------------------------------
(***************************************************************************)
(* What the in-kernel tracer promises its reader, without maps, entries    *)
(* and pointers: a bounded log of the calls threads make.  A call may go   *)
(* unrecorded, but it has at most one record, made while it is returning   *)
(* and finished before the thread goes on; records are read in the order   *)
(* they were begun, and a record shows the call it was made for or is      *)
(* known to be suspect.                                                    *)
(***************************************************************************)
EXTENDS Integers, Sequences

CONSTANTS Tid, Capacity

VARIABLES
    begun,      \* how many calls each thread has made
    open,       \* the threads that are in a call
    claimed,    \* those of them whose call has its record
    log         \* records: [tid, n, shows]

vars == <<begun, open, claimed, log>>

Record(t, shows) == [tid |-> t, n |-> begun[t], shows |-> shows]

Init ==
    /\ begun = [t \in Tid |-> 0]
    /\ open \subseteq Tid
    /\ claimed = {}
    /\ log = <<>>

Begin(t) ==
    /\ t \notin open
    /\ begun' = [begun EXCEPT ![t] = @ + 1]
    /\ open' = open \cup {t}
    /\ UNCHANGED <<claimed, log>>

Claim(t) ==
    /\ t \in open \ claimed /\ Len(log) < Capacity
    /\ claimed' = claimed \cup {t}
    /\ log' = Append(log, Record(t, "pending"))
    /\ UNCHANGED <<begun, open>>

Finish(t) ==
    /\ t \in claimed
    /\ \E i \in DOMAIN log, shows \in {"its call", "suspect"} :
          /\ log[i] = Record(t, "pending")
          /\ log' = [log EXCEPT ![i] = Record(t, shows)]
    /\ UNCHANGED <<begun, open, claimed>>

End(t) ==
    /\ t \in open
    /\ \A i \in DOMAIN log : log[i] # Record(t, "pending")
    /\ open' = open \ {t}
    /\ claimed' = claimed \ {t}
    /\ UNCHANGED <<begun, log>>

Read ==
    /\ log # <<>> /\ Head(log).shows # "pending"
    /\ log' = Tail(log)
    /\ UNCHANGED <<begun, open, claimed>>

Next == Read \/ \E t \in Tid : Begin(t) \/ Claim(t) \/ Finish(t) \/ End(t)

Spec == Init /\ [][Next]_vars
=============================================================================
