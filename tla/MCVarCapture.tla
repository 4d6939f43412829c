---------------------------- MODULE MCVarCapture ----------------------------
(***************************************************************************)
(* Instances of VarCapture for TLC: slots of four bytes, argv strings of   *)
(* three, two argv slots, and arguments up to one byte longer than fits.   *)
(* A stat structure always fits its slot, as the real ones do (144 and 256 *)
(* bytes in 256).                                                          *)
(***************************************************************************)
EXTENDS VarCapture

Texts(n) == UNION {[1..len -> {1, 2}] : len \in 0..n}
Long == UNION {{[j \in 1..len |-> byte] : byte \in {1, 2}} : len \in 3..5}
Strings == Texts(2) \cup Long \cup {Null, Bad}
Buffers(size) == {[j \in 1..size |-> 1], [j \in 1..size |-> 2], Null, Bad}

OneString(id, index) == {[id |-> id, ret |-> 0, size |-> 0, mem |-> (index :> s)] : s \in Strings}
TwoStrings(id, i, j) ==
    {[id |-> id, ret |-> 0, size |-> 0, mem |-> (i :> s) @@ (j :> t)] : s, t \in Strings}
OneBuffer(id, sizes) ==
    UNION {{[id |-> id, ret |-> ret, size |-> size, mem |-> (1 :> b)] :
                b \in Buffers(size), ret \in {-1, size}} : size \in sizes}
StringAndStat(id, i, j) ==
    UNION {{[id |-> id, ret |-> ret, size |-> size, mem |-> (i :> s) @@ (j :> b)] :
                s \in Strings, b \in Buffers(size), ret \in {-1, 0}} : size \in 3..4}

GenericCalls ==
    OneString("open", 0) \cup OneString("openat", 1)
        \cup TwoStrings("rename", 0, 1) \cup TwoStrings("renameat", 1, 3)
        \cup OneBuffer("read", 0..5) \cup OneBuffer("write", 0..5) \cup OneBuffer("newfstat", 3..4)
        \cup StringAndStat("newstat", 0, 1) \cup StringAndStat("newfstatat", 1, 2)
        \cup StringAndStat("statx", 1, 4)

Paths == Texts(3) \cup {Null, Bad}
Cells == Texts(3) \cup {Bad, BadCell}
Argvs == UNION {[1..len -> Cells] : len \in 0..2}
            \cup {Append(argv, last) : argv \in [1..2 -> Texts(2)], last \in {<<1>>, Bad, BadCell}}
            \cup {Null}
ExecveCalls ==
    {[id |-> "execve", ret |-> ret, size |-> 0, mem |-> (0 :> path) @@ (1 :> argv)] :
        ret \in {-1, 0}, path \in Paths, argv \in Argvs}
AllCalls == GenericCalls \cup ExecveCalls

\* A short string, one that fills the slot, and a page that is gone.
Writes == {<<2>>, <<2, 2, 2, 2>>, Bad}

LongPaths == OneString("openat", 1)
=============================================================================
