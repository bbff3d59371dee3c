---------------------------- MODULE PathClassify ----------------------------
(***************************************************************************)
(* How the eBPF programs classify a resolved path, for the profile and for *)
(* enforcement alike: Path::to_classify_buffer copies the head of the path *)
(* and classify_path matches words at fixed offsets of the copy.           *)
(*                                                                         *)
(* A path is a string.  A buffer is the string of its bytes before the     *)
(* first NUL.  is_cross_process, which only goes into the event, is left   *)
(* out.                                                                    *)
(***************************************************************************)
EXTENDS Integers, Sequences

CONSTANTS
    MAX_PATH_DEPTH,   \* 128: bytes classify_path looks at
    SHORT_COPY        \* 32: bytes copied of a path shorter than that

\* The words classify_path looks for fit.
ASSUME BufferAssumption == SHORT_COPY \in Nat /\ MAX_PATH_DEPTH \in Nat /\ 20 <= SHORT_COPY /\ SHORT_COPY <= MAX_PATH_DEPTH

\* s is a sequence, or a string, which is one of characters.
IsSequence(s) == Len(s) \in Nat /\ SubSeq(s, 1, Len(s)) = s

\* `word` stands in `s` after its first `offset` characters.
HasAt(s, offset, word) ==
    /\ offset + Len(word) <= Len(s)
    /\ SubSeq(s, offset + 1, offset + Len(word)) = word

StartsWith(s, word) == HasAt(s, 0, word)

EndsWith(s, word) == Len(word) <= Len(s) /\ HasAt(s, Len(s) - Len(word), word)

LastChar(s) == SubSeq(s, Len(s), Len(s))

Repeat(c, count) ==
    LET r[n \in 0..count] == IF n = 0 THEN "" ELSE r[n - 1] \o c
    IN  r[count]

\* A short path is copied by an unrolled loop whose source index is clamped to
\* the end of the buffer: past the end of the path its last byte is copied again.
to_classify_buffer(path) ==
    IF path = "" THEN ""
    ELSE IF Len(path) >= MAX_PATH_DEPTH THEN SubSeq(path, 1, MAX_PATH_DEPTH)
    ELSE SubSeq(path \o Repeat(LastChar(path), SHORT_COPY), 1, SHORT_COPY)

-----------------------------------------------------------------------------
\* Words after /proc/PID/ that match whatever follows them ...
ProcWords ==
    [cmdline   |-> "ProcPidCmdline",   cgroup |-> "ProcPidCgroup",
     comm      |-> "ProcPidComm",      cwd    |-> "ProcPidCwd",
     environ   |-> "ProcPidEnviron",   exe    |-> "ProcPidExe",
     fd        |-> "ProcPidFd",        maps   |-> "ProcPidMaps",
     mountinfo |-> "ProcPidMountinfo", mounts |-> "ProcPidMounts",
     mem       |-> "ProcPidMem",       root   |-> "ProcPidRoot",
     status    |-> "ProcPidStatus"]

\* ... and words that must be followed by a slash or by the end of the buffer.
ProcWholeWords ==
    [ns |-> "ProcPidNs", net |-> "ProcPidNet", stat |-> "ProcPidStat", task |-> "ProcPidTask"]

\* No word is a prefix of another one that matches too: at most one hit.
classify_proc_suffix(buf, offset) ==
    LET hits  == {w \in DOMAIN ProcWords : HasAt(buf, offset, w)}
        whole == {w \in DOMAIN ProcWholeWords :
                     \/ HasAt(buf, offset, w \o "/")
                     \/ HasAt(buf, offset, w) /\ offset + Len(w) = Len(buf)}
    IN  IF hits # {} THEN ProcWords[CHOOSE w \in hits : TRUE]
        ELSE IF whole # {} THEN ProcWholeWords[CHOOSE w \in whole : TRUE]
        ELSE "ProcPidOther"

classify_proc_global(buf) ==
    IF HasAt(buf, 6, "sys/") THEN "ProcGlobalSys"
    ELSE IF HasAt(buf, 6, "net/") THEN "ProcGlobalNet" ELSE "ProcGlobal"

Digits == {"0", "1", "2", "3", "4", "5", "6", "7", "8", "9"}

\* Digits of the process id after /proc/: at most 7 are read.
PidLen(buf) ==
    CHOOSE n \in 0..7 :
        /\ \A i \in 1..n : \E d \in Digits : HasAt(buf, 5 + i, d)
        /\ n = 7 \/ ~\E d \in Digits : HasAt(buf, 6 + n, d)

classify_proc(buf) ==
    IF HasAt(buf, 6, "self/") THEN classify_proc_suffix(buf, 11)
    ELSE IF PidLen(buf) = 0 THEN classify_proc_global(buf)
    ELSE IF HasAt(buf, 6 + PidLen(buf), "/")
    THEN classify_proc_suffix(buf, 7 + PidLen(buf))
    ELSE "ProcGlobal"

\* unroll_120: the last start at which the word would fit is not looked at.
contains_docker(buf) == \E i \in 0..119 : HasAt(buf, i, "/docker/")

\* A path under /sys with a docker component anywhere counts as a cgroup path.
classify_sys(buf) ==
    IF contains_docker(buf) THEN "SysCgroupDocker"
    ELSE IF HasAt(buf, 5, "fs/cgroup") THEN "SysCgroupOther"
    ELSE IF HasAt(buf, 5, "class/net/") THEN "SysClassNet" ELSE "SysOther"

classify_run(buf) ==
    IF HasAt(buf, 5, "docker/") THEN "RunDocker"
    ELSE IF HasAt(buf, 5, "user/") THEN "RunUser" ELSE "RunOther"

classify_dev(buf) ==
    IF HasAt(buf, 5, "pts/") THEN "DevPts"
    ELSE IF HasAt(buf, 5, "shm/") THEN "DevShm" ELSE "DevOther"

classify_tmp(buf) == IF HasAt(buf, 5, "tmp") THEN "TmpRandom" ELSE "TmpOther"

classify_path(buf) ==
    IF StartsWith(buf, "/proc/") THEN classify_proc(buf)
    ELSE IF StartsWith(buf, "/sys/") THEN classify_sys(buf)
    ELSE IF StartsWith(buf, "/run/") THEN classify_run(buf)
    ELSE IF StartsWith(buf, "/dev/") THEN classify_dev(buf)
    ELSE IF StartsWith(buf, "/tmp/") THEN classify_tmp(buf) ELSE "Regular"

ClassOf(path) == classify_path(to_classify_buffer(path))

SensitiveClasses == {"ProcPidEnviron", "ProcPidMaps", "ProcPidMem", "ProcPidRoot"}

\* PathPattern::as_str: the glob that stands for a class in text.
as_str ==
    [Regular          |-> "<regular>",
     ProcPidCmdline   |-> "/proc/*/cmdline",   ProcPidComm    |-> "/proc/*/comm",
     ProcPidCwd       |-> "/proc/*/cwd",       ProcPidEnviron |-> "/proc/*/environ",
     ProcPidExe       |-> "/proc/*/exe",       ProcPidFd      |-> "/proc/*/fd/*",
     ProcPidMaps      |-> "/proc/*/maps",      ProcPidMem     |-> "/proc/*/mem",
     ProcPidMountinfo |-> "/proc/*/mountinfo", ProcPidMounts  |-> "/proc/*/mounts",
     ProcPidNet       |-> "/proc/*/net/*",     ProcPidNs      |-> "/proc/*/ns/*",
     ProcPidRoot      |-> "/proc/*/root",      ProcPidStat    |-> "/proc/*/stat",
     ProcPidStatus    |-> "/proc/*/status",    ProcPidTask    |-> "/proc/*/task/*",
     ProcPidCgroup    |-> "/proc/*/cgroup",    ProcPidOther   |-> "/proc/*/<other>",
     ProcSelf         |-> "/proc/self/*",      ProcGlobal     |-> "/proc/<global>",
     ProcGlobalSys    |-> "/proc/sys/**",      ProcGlobalNet  |-> "/proc/net/*",
     SysCgroupDocker  |-> "/sys/fs/cgroup/**/docker/**",
     SysCgroupOther   |-> "/sys/fs/cgroup/**", SysClassNet    |-> "/sys/class/net/*",
     SysOther         |-> "/sys/**",           RunDocker      |-> "/run/docker/**",
     RunUser          |-> "/run/user/*/**",    RunOther       |-> "/run/**",
     DevPts           |-> "/dev/pts/*",        DevShm         |-> "/dev/shm/*",
     DevOther         |-> "/dev/*",            TmpRandom      |-> "/tmp/tmp*/**",
     TmpOther         |-> "/tmp/**"]

Classes == DOMAIN as_str
=============================================================================
