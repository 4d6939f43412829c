---------------------------- MODULE MCPathTrace ----------------------------
(***************************************************************************)
(* Instances of PathTrace for TLC.  The tree holds the directory /d and    *)
(* the files /f and /d/f; /d/f is traced.                                  *)
(***************************************************************************)
EXTENDS PathTrace

Absolute(comps) == [abs |-> TRUE, comps |-> comps]
Relative(comps) == [abs |-> FALSE, comps |-> comps]

Tree == {<<>>, <<"d">>}
TreeFiles == {<<"f">>, <<"d", "f">>}
Traced == {<<"d", "f">>}
AtRoot == {<<>>}

\* One process and its own descriptors and working directory, or paths
\* relative to descriptors.
OwnArgs == {Absolute(<<"d">>), Relative(<<"f">>), Relative(<<"..", "d", "f">>)}
OwnPrograms == {
    {"open", "openat", "newstat", "read", "close", "close_lost", "dup", "dup2", "fcntl_dupfd",
     "chdir", "fchdir"},
    {"open", "open_lost", "sendfile64", "close", "overtake"},
    {"open", "mmap", "close", "close_range", "execve"},
    {"open", "newfstatat", "unlinkat", "renameat", "open_lost", "read"}}

\* Two processes that fork and rename.
SharedArgs == {Absolute(<<"d">>), Absolute(<<"d", "f">>), Absolute(<<"e">>), Absolute(<<"f">>)}
SharedPrograms == {{"open", "read", "close", "rename", "unlink", "fork", "exit"}}

\* A working directory that changes while events are queued.
RelativeArgs == {Relative(<<"d">>), Relative(<<"f">>)}
DirectoryPrograms == {{"open", "newstat", "chdir", "fchdir", "close"}}

\* A call with a count of descriptors.
PollPrograms == {{"open", "poll", "read", "close"}}
=============================================================================
