--------------------------- MODULE SyscallSchema ---------------------------
(***************************************************************************)
(* The generated table syscall_schemas (internal/bpf/syscalls/x86_64.h):   *)
(* what type each argument of each call has.  The path filter finds        *)
(* descriptors by these types and the formatter chooses by them how an     *)
(* argument is shown.                                                      *)
(*                                                                         *)
(* Only the types that decide something are told apart: descriptors,       *)
(* strings, byte buffers and argument vectors.  ARG_OTHER stands for       *)
(* numbers, modes, flags, offsets, plain pointers and absent arguments.  A *)
(* call the rows do not list has only such arguments, and so has one that  *)
(* is not in the table at all (ARG_RAW).                                   *)
(***************************************************************************)
EXTENDS Integers, Sequences

\* The numbers of enum arg_type and enum var_arg_kind, which share one field.
ARG_OTHER == 7
ARG_FD == 3
VAR_ARG_STRING == 1
VAR_ARG_BYTES == 2
VAR_ARG_ARGV == 3

LOCAL F == ARG_FD
LOCAL S == VAR_ARG_STRING
LOCAL B == VAR_ARG_BYTES
LOCAL A == VAR_ARG_ARGV
LOCAL o == ARG_OTHER

\* The calls whose first arguments have these types, the others ARG_OTHER.
Row(types, calls) == [types |-> types, calls |-> calls]

\* Calls 0 to 54: read to setsockopt.
FileAndSocketRows == {
    Row(<<F, B>>, {"read", "write"}),
    Row(<<S>>, {"open", "newstat", "newlstat", "access"}),
    Row(<<F>>, {"close", "newfstat", "lseek", "ioctl", "readv", "writev", "pipe", "dup", "connect",
                "accept", "sendto", "recvfrom", "sendmsg", "recvmsg", "shutdown", "bind", "listen",
                "getsockname", "getpeername"}),
    Row(<<F, F>>, {"poll", "dup2", "sendfile64"}),
    Row(<<o, o, o, o, F>>, {"mmap"}),
    Row(<<F, S>>, {"pread64", "pwrite64"}),
    Row(<<o, S>>, {"shmat"}),
    Row(<<F, o, o, S>>, {"setsockopt"})}

\* Calls 55 to 134: getsockopt to mknod.
ProcessAndPathRows == {
    Row(<<F, o, o, S>>, {"getsockopt"}),
    Row(<<S, A, A>>, {"execve"}),
    Row(<<S>>, {"shmdt", "truncate", "getcwd", "chdir", "mkdir", "rmdir", "creat", "unlink", "chmod",
                "chown", "lchown", "utime", "mknod"}),
    Row(<<F>>, {"fcntl", "flock", "fsync", "fdatasync", "ftruncate", "getdents", "fchdir", "fchmod",
                "fchown"}),
    Row(<<S, S>>, {"rename", "link", "symlink", "readlink"}),
    Row(<<o, S>>, {"syslog"})}

\* Calls 135 to 206: personality to io_setup.
SystemRows == {
    Row(<<S>>, {"statfs", "chroot", "acct", "umount", "swapon", "swapoff", "sethostname",
                "setdomainname", "delete_module"}),
    Row(<<F>>, {"fstatfs", "readahead"}),
    Row(<<S, S>>, {"pivot_root", "setxattr", "lsetxattr", "getxattr", "lgetxattr", "listxattr",
                   "llistxattr", "removexattr", "lremovexattr"}),
    Row(<<S, S, S>>, {"mount"}),
    Row(<<o, o, S>>, {"init_module"}),
    Row(<<o, S>>, {"quotactl"}),
    Row(<<F, S>>, {"fsetxattr", "fgetxattr", "flistxattr", "fremovexattr"})}

\* Calls 207 to 265: io_destroy to linkat.
QueueAndAtRows == {
    Row(<<F>>, {"getdents64", "fadvise64", "epoll_wait", "inotify_rm_watch"}),
    Row(<<F, o, F>>, {"epoll_ctl"}),
    Row(<<S>>, {"utimes", "mq_open", "mq_unlink"}),
    Row(<<o, S>>, {"mq_timedsend", "mq_timedreceive"}),
    Row(<<S, S>>, {"add_key"}),
    Row(<<S, S, S>>, {"request_key"}),
    Row(<<F, S>>, {"inotify_add_watch", "openat", "mkdirat", "mknodat", "fchownat", "futimesat",
                   "newfstatat", "unlinkat"}),
    Row(<<F, S, F, S>>, {"renameat", "linkat"})}

\* Calls 266 to 334: symlinkat to rseq.
DescriptorRows == {
    Row(<<S, F, S>>, {"symlinkat"}),
    Row(<<F, S, S>>, {"readlinkat"}),
    Row(<<F, S>>, {"fchmodat", "faccessat", "utimensat", "name_to_handle_at", "finit_module",
                   "statx"}),
    Row(<<F, F>>, {"ppoll", "tee", "dup3"}),
    Row(<<F, o, F>>, {"splice", "copy_file_range"}),
    Row(<<F>>, {"sync_file_range", "vmsplice", "epoll_pwait", "signalfd", "fallocate",
                "timerfd_settime", "timerfd_gettime", "accept4", "signalfd4", "pipe2", "preadv",
                "pwritev", "recvmmsg", "open_by_handle_at", "syncfs", "sendmmsg", "setns", "preadv2",
                "pwritev2"}),
    Row(<<o, o, o, F>>, {"perf_event_open"}),
    Row(<<F, o, o, F, S>>, {"fanotify_mark"}),
    Row(<<F, S, F, S>>, {"renameat2"}),
    Row(<<S>>, {"getrandom", "memfd_create"}),
    Row(<<F, F, o, S>>, {"kexec_file_load"}),
    Row(<<F, S, A, A>>, {"execveat"})}

\* Calls 335 to 469: uretprobe to file_setattr.
RecentRows == {
    Row(<<F>>, {"pidfd_send_signal", "io_uring_enter", "io_uring_register", "fsmount",
                "process_madvise", "epoll_pwait2", "quotactl_fd", "landlock_add_rule",
                "landlock_restrict_self", "process_mrelease", "cachestat"}),
    Row(<<F, S>>, {"open_tree", "fspick", "openat2", "faccessat2", "mount_setattr", "fchmodat2",
                   "open_tree_attr", "file_getattr", "file_setattr"}),
    Row(<<F, S, F, S>>, {"move_mount"}),
    Row(<<S>>, {"fsopen"}),
    Row(<<F, o, S>>, {"fsconfig"}),
    Row(<<F, F>>, {"close_range", "pidfd_getfd"}),
    Row(<<F, S, o, S>>, {"setxattrat", "getxattrat", "listxattrat", "removexattrat"})}

syscall_schemas ==
    FileAndSocketRows \cup ProcessAndPathRows \cup SystemRows \cup QueueAndAtRows
        \cup DescriptorRows \cup RecentRows

Listed == UNION {row.calls : row \in syscall_schemas}
RowOf == [id \in Listed |-> CHOOSE row \in syscall_schemas : id \in row.calls]

\* set_syscall_arg_schema: the arg_types of the call's event.
ArgTypes(id) ==
    [i \in 0..5 |-> IF id \in Listed /\ i < Len(RowOf[id].types) THEN RowOf[id].types[i + 1]
                                                                 ELSE ARG_OTHER]

\* hasTrackedFDArg looks at the arguments of this type.
FdArgs(id) == {i \in 0..5 : ArgTypes(id)[i] = ARG_FD}

\* The table has one row per call.
ASSUME OneRowPerCall ==
    \A r, q \in syscall_schemas : r.calls \cap q.calls # {} => r = q
=============================================================================
