------------------------------ MODULE MCTracer ------------------------------
(***************************************************************************)
(* Instances of Tracer for TLC.                                            *)
(***************************************************************************)
EXTENDS Tracer

CONSTANTS root, t2

TwoTids == {root, t2}

Plain(id) == [id |-> id, thread |-> FALSE]
NewThread(id) == [id |-> id, thread |-> TRUE]

\* "read" and "execve" are selected where they occur, "getpid" never.
ForkKinds == {Plain("read"), Plain("getpid"), Plain("fork"), Plain("exit_group")}
ThreadKinds == {Plain("getpid"), Plain("execve"), Plain("exit"), Plain("exit_group")}
CloneKinds == {Plain("read"), Plain("getpid"), Plain("clone"), Plain("clone3"), NewThread("clone3"),
               Plain("exit"), Plain("exit_group")}
=============================================================================
