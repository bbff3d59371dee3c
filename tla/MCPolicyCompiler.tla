-------------------------- MODULE MCPolicyCompiler --------------------------
(* Small profiles for the policy compiler: every selection of a few events,   *)
(* and of a few lines in every order.                                        *)
EXTENDS PolicyCompiler, FiniteSetsExt

Fs(subject, r_w, path) == [module |-> "fs", subject |-> subject, r_w |-> r_w, path |-> path]
Proc(execve, path) == [module |-> "process", subject |-> "P", execve |-> execve, path |-> path]
Net(outgoing, ip) == [module |-> "network", subject |-> "A", outgoing |-> outgoing,
                      ip |-> ip, port |-> 443, protocol |-> 6]

\* Files that make a cluster, for one mode and for both, of one process and of
\* two; a straggler below; a directory too long and one too shallow to open;
\* classified and sensitive files; a program.
SampleEvents ==
    {Fs("A", "read", "/d/w/seg1"), Fs("A", "read", "/d/w/seg2"), Fs("A", "write", "/d/w/seg1"),
     Fs("B", "read", "/d/w/seg2"), Fs("A", "read", "/d/w/sub/x"),
     Fs("A", "read", "/srv/longestdir/0a"), Fs("A", "read", "/srv/longestdir/1b"),
     Fs("A", "read", "/e/seg1"), Fs("A", "read", "/e/seg2"),
     Fs("A", "read", "/proc/7/cmdline"), Fs("A", "read", "/proc/8/environ"),
     Proc(TRUE, "/d/w/seg1")}

\* Names with blanks, quotes and keywords; a fork, a glob, connections.
OtherEvents == {Fs("A", "read", "/e/a b"), Fs("A", "read", "/e/a \"w"), Proc(TRUE, "profiled"),
                Proc(TRUE, "networkd"), Proc(FALSE, "/d/w/seg1"), Fs("A", "read", "/e/*"),
                Net(TRUE, "ip1"), Net(FALSE, "ip2")}

\* Lines that meet: denied files and directories among allowed ones, paths not
\* in canonical form, globs of classes and globs that are none, /proc files.
SampleLines ==
    {FileLine(FALSE, "/d/w/seg1", {"r"}), FileLine(FALSE, "/d//w/./x/../seg2", {"r"}),
     FileLine(TRUE, "/d/w/sub/**", {"r"}), FileLine(TRUE, "/d/w/seg1", {"w", "r"}),
     FileLine(FALSE, "/d/**", {"r"}), FileLine(FALSE, "/srv/longestdir/**", {"r"}),
     FileLine(FALSE, "/tmp/*", {"r"}), FileLine(FALSE, "/proc/7/*", {"r"}),
     FileLine(FALSE, "/proc/*/cmdline", {"r"}), FileLine(TRUE, "/proc/8/stat", {"r"}),
     FileLine(FALSE, "/proc/sys/k", {"r"}), FileLine(FALSE, "/sys/fs/cgroup/**", {"r"}),
     FileLine(FALSE, "/sys/fs/cgroup/*", {"r"}),
     FileLine(FALSE, "/proc/7/stat", {"r"}), FileLine(TRUE, "/tmp/*", {"r"}),
     FileLine(TRUE, "/tmp/tmpx/y", {"r"}), FileLine(FALSE, "/tmp/**", {"r"}),
     ExecLine(FALSE, "/d/w/seg1"), NetLine(FALSE, "stream", NoAddr, NoAddr)}

\* A directory and a file in it that are denied for one mode below one allowed
\* for the other; a name with a quote, and no protocol.
DeniedForWrite ==
    <<FileLine(FALSE, "/d/**", {"r"}), FileLine(TRUE, "/d/w/sub/**", {"w"}),
      FileLine(TRUE, "/d/w/sub/x", {"w"})>>
Unusual == <<FileLine(FALSE, "/e/a \"w", {"r"}), NetLine(FALSE, "none", NoAddr, NoAddr)>>

\* A prefix that loses its directory when it is canonicalized, and files under
\* /sys that the kernel files under a class the relation looks for elsewhere.
CutPrefix == <<FileLine(FALSE, "/srv/longestdir/../x/**", {"r"})>>
DockerOutsideCgroup ==
    <<FileLine(FALSE, "/sys/k/docker/seg1", {"r"}), FileLine(FALSE, "/sys/k/docker/seg2", {"r"}),
      FileLine(TRUE, "/sys/fs/cgroup/**/docker/**", {"r"}), FileLine(TRUE, "/sys/fs/*", {"r"})>>

Selections(S, n) == UNION {kSubset(k, S) : k \in 1..n}

\* Four events only where they meet in one directory.
MeetingEvents == {e \in SampleEvents : StartsWith(e.path, "/d/w/")}

SampleProfiles == {SetToSeq(S) : S \in Selections(SampleEvents, 3)
                                         \cup kSubset(4, MeetingEvents)
                                         \cup Selections(SampleEvents \cup OtherEvents, 2)}

\* Two lines of any kind, more where they meet: under one root, or in the slots
\* of the prefixes.
Under(root) == {l \in SampleLines : l.section # "network" /\ StartsWith(l.glob, root)}
Wildcards == {l \in SampleLines : l.section = "file" /\ EndsWith(l.glob, "*")}
Roots == {"/d/", "/proc/", "/tmp/", "/sys/"}

SampleImports == UNION {SetToSeqs(S) : S \in Selections(SampleLines, 2)
                                             \cup UNION {kSubset(3, Under(root)) : root \in Roots}}
                    \cup {SetToSeq(S) : S \in kSubset(3, Wildcards)
                                             \cup UNION {kSubset(4, Under(root)) : root \in Roots}}
                    \cup {DeniedForWrite, Unusual, CutPrefix, DockerOutsideCgroup}

SamplePaths ==
    {"/d/w/seg1", "/d/w/seg2", "/d/w/new", "/d/w/sub/x", "/e/seg1", "/e/seg2", "/e/new", "/e/*",
     "/e/a b", "/e/a \"w", "/e/a ",
     "/srv/longestdir/0a", "/srv/longestdir/1b", "/srv/longestdir/new", "/srv/longestdirs", "/tmp/x", "/tmp/tmpx/y",
     "/proc/7/cmdline", "/proc/8/cmdline", "/proc/8/stat", "/proc/8/environ", "/proc/sys/k",
     "/sys/fs/cgroup/a", "/sys/fs/cgroup2", "/sys/k/docker/a"}

SampleDestinations == {"ip1", "ip2"} \X {80, 443}

SampleRoots == {"/", "/etc/", "/proc/"}
=============================================================================
