--------------------------- MODULE MCEventPipeline ----------------------------
(***************************************************************************)
(* One login: init, sshd, a shell with a terminal, and two children of the *)
(* shell of which one reads /etc/shadow and one transfers to a public      *)
(* address.                                                                *)
(***************************************************************************)
EXTENDS EventPipeline, TLC

MCPids == 1 .. 5
MCParent == <<0, 1, 2, 3, 3>>
MCComm == <<"systemd", "sshd", "ksh", "cat", "curl">>
MCTty == {3, 4, 5}

ReadShadow(q) == [type |-> "OPENAT", pid |-> q, comm |-> MCComm[q], target |-> "shadow", flags |-> {}]
Transfer(q) == [type |-> "CONNECT", pid |-> q, comm |-> MCComm[q], target |-> "",
                dst |-> [family |-> "AF_INET", addr |-> <<8, 8, 8, 8>>], port |-> 443]
ExecShell(q) == [type |-> "EXEC", pid |-> q, comm |-> MCComm[q], target |-> "bash"]
MapRwx(q) == [type |-> "MMAP", pid |-> q, comm |-> MCComm[q], prot |-> {"EXEC", "WRITE"},
              anonymous |-> TRUE]

\* The cat reads, the curl connects and maps memory, the shell runs another one.
FamilyCalls == <<{}, {}, {ExecShell(3)}, {ReadShadow(4)}, {Transfer(5), MapRwx(5)}>>
FamilyLimits == <<0, 0, 1, 1, 2>>
\* One call each.
OnceLimits == <<0, 0, 0, 1, 1>>

Rule(hits, id, severity) == [hits |-> hits, id |-> id, severity |-> severity]

DefaultPolicy ==
    [profile |-> "baseline", disabled |-> {}, override |-> <<>>, min_severity |-> WARN,
     exec_exact |-> <<Rule({"bash"}, "exec.suspicious_exact", WARN)>>, exec_prefix |-> <<>>,
     sensitive_read |-> <<Rule({"shadow"}, "file.sensitive_read", WARN)>>,
     sensitive_write |-> <<Rule({"shadow"}, "file.sensitive_write", CRITICAL)>>,
     suspicious_ports |-> <<>>, jit_allow |-> {}, flow_allow_transfer |-> {},
     anon_exec_mmap_severity |-> WARN, user_idle_threshold |-> 5,
     read_family |-> {"file.sensitive_read"}]
===============================================================================
