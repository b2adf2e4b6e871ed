--------------------------- MODULE MCRuleEvaluation ---------------------------
(***************************************************************************)
(* Policies and situations for RuleEvaluation.  Some policies cross every  *)
(* profile with every set of disabled flow rules, an override and the      *)
(* allowlist; others have lists in which rules overlap, with disabled      *)
(* rules and overrides.  Connects meet every context and flow entry; the   *)
(* evaluation of other events does not look at them.  Connects to the      *)
(* edges of the address ranges meet one context.                           *)
(***************************************************************************)
EXTENDS RuleEvaluation, TLC

Rule(hits, id, severity) == [hits |-> hits, id |-> id, severity |-> severity]

\* init_default_rules, cut down to what the events below can hit
DefaultPolicy ==
    [profile |-> "baseline", disabled |-> {}, override |-> <<>>, min_severity |-> WARN,
     exec_exact |-> <<Rule({"bash"}, "exec.suspicious_exact", WARN)>>,
     exec_prefix |-> <<Rule({"python", "python3"}, "exec.suspicious_prefix", WARN)>>,
     sensitive_read |-> <<Rule({"shadow", "kcore"}, "file.sensitive_read", WARN)>>,
     sensitive_write |-> <<Rule({"shadow", "passwd"}, "file.sensitive_write", CRITICAL)>>,
     suspicious_ports |-> <<Rule({4444}, "net.suspicious_port", WARN)>>,
     jit_allow |-> {"java"}, flow_allow_transfer |-> {}, anon_exec_mmap_severity |-> WARN,
     user_idle_threshold |-> 5, read_family |-> {"file.sensitive_read", "file.sensitive_read.ssh"}]

ConnectOverrides ==
    {<<>>, FLOW_NO_TTY :> CRITICAL, FLOW_IDLE :> INFO, FLOW_SENSITIVE_READ :> WARN,
     "net.suspicious_port" :> CRITICAL}

ConnectPolicies ==
    {[DefaultPolicy EXCEPT !.profile = pr, !.disabled = dis, !.override = ov,
                           !.flow_allow_transfer = allow] :
        pr \in Profiles, dis \in SUBSET FlowRules, ov \in ConnectOverrides,
        allow \in {{}, {"curl"}}}

V4(a) == [family |-> "AF_INET", addr |-> a]
V6(a) == [family |-> "AF_INET6", addr |-> a]
Mapped(a) == V6(Zeros(10) \o <<255, 255>> \o a)
Starting(b1, b2) == [Zeros(16) EXCEPT ![1] = b1, ![2] = b2]

ConnectEvents ==
    [type : {"CONNECT"}, pid : {7}, comm : {"curl", "java"}, target : {""},
     dst : {V4(<<8, 8, 8, 8>>), V4(<<10, 0, 0, 1>>)}, port : {443, 4444}]

\* The first two bytes at and around every bound the code compares with.
EdgePrefixes ==
    ({0, 1, 9, 10, 11, 126, 127, 128, 223, 224, 239, 240, 255} \X {0, 255})
    \cup ({169, 172, 192} \X {0, 15, 16, 31, 32, 167, 168, 169, 253, 254, 255})
EdgeV6 ==
    {Zeros(16), [Zeros(16) EXCEPT ![16] = 1], [Zeros(16) EXCEPT ![16] = 2],
     [Zeros(16) EXCEPT ![15] = 1], [Zeros(16) EXCEPT ![12] = 255]}
    \cup {Starting(b1, b2) : b1 \in {0, 32} \cup (251 .. 255), b2 \in {0, 127, 128, 191, 192, 255}}
Edges ==
    UNION {{V4(<<p[1], p[2], 0, 1>>), Mapped(<<p[1], p[2], 0, 1>>)} : p \in EdgePrefixes}
    \cup {V6(a) : a \in EdgeV6}

EdgeEvents == [type : {"CONNECT"}, pid : {7}, comm : {"curl"}, target : {""}, dst : Edges, port : {443}]

ConnectContexts ==
    {[ppid |-> 6, gppid |-> 5, parent_comm |-> par, grandparent_comm |-> "systemd",
      has_tty |-> tty, interactive |-> tty, user_idle |-> idle, exe |-> ""] :
        par \in {"bash", "cron"}, tty \in BOOLEAN, idle \in {USER_IDLE_UNKNOWN, 4, 5}}

ConnectEntries == [sensitive : BOOLEAN, shell : BOOLEAN]

\* Lists in which a later rule hits what an earlier one hits.
LocalPolicies ==
    {[DefaultPolicy EXCEPT !.disabled = dis, !.override = ov, !.anon_exec_mmap_severity = anon,
        !.exec_exact = @ \o <<Rule({"bash", "nc"}, "exec.custom", CRITICAL)>>,
        !.sensitive_read = @ \o <<Rule({"shadow"}, "file.sensitive_read.ssh", CRITICAL)>>,
        !.sensitive_write = @ \o <<Rule({"passwd"}, "custom.write", WARN)>>] :
        dis \in SUBSET {"exec.suspicious_exact", "exec.custom", "file.sensitive_read.ssh",
                        "file.sensitive_write", "mem.rwx_mmap"},
        ov \in {<<>>, "exec.custom" :> INFO, "file.sensitive_read" :> CRITICAL,
                "mem.rwx_mprotect" :> WARN},
        anon \in {INFO, WARN}}

LocalEvents ==
    [type : {"EXEC"}, pid : {7}, comm : {"cron"}, target : {"bash", "nc", "python3", "ls"}]
    \cup [type : {"MPROTECT", "MMAP"}, pid : {7}, comm : {"java", "cron"},
          prot : SUBSET {"EXEC", "WRITE"}, anonymous : BOOLEAN]
    \cup [type : {"OPENAT"}, pid : {7}, comm : {"cron"}, target : {"shadow", "passwd", "kcore", "hosts"},
          flags : {{}, {"WRONLY"}, {"RDWR"}, {"WRONLY", "CREAT"}, {"TRUNC"}}]

LocalContext ==
    [ppid |-> 6, gppid |-> 5, parent_comm |-> "cron", grandparent_comm |-> "systemd",
     has_tty |-> FALSE, interactive |-> FALSE, user_idle |-> USER_IDLE_UNKNOWN, exe |-> ""]

AllPolicies == ConnectPolicies \cup LocalPolicies

AllSituations ==
    [e : ConnectEvents, c : ConnectContexts, f : ConnectEntries]
    \cup [e : EdgeEvents, c : {LocalContext}, f : {[sensitive |-> FALSE, shell |-> FALSE]}]
    \cup [e : LocalEvents, c : {LocalContext}, f : {[sensitive |-> FALSE, shell |-> FALSE]}]
===============================================================================
