---------------------------- MODULE MCAgentSession -----------------------------
(***************************************************************************)
(* Configuration texts and workloads for AgentSession: every text of one   *)
(* or two lines out of Lines and some of three, loaded and run for a       *)
(* moment; a few texts that are rewritten while the daemon starts; and a   *)
(* few under which the daemon is stopped while others make calls.          *)
(***************************************************************************)
EXTENDS AgentSession, TLC

Line(key, parts) == [key |-> key, parts |-> parts]

MCHits(list, value) ==
    CASE list = "suspicious_port" -> {value}
      [] list = "sensitive_read" /\ value = <<"/proc/">> -> {"/proc/7/stat", "/proc/kcore"}
      [] OTHER -> IF Len(value) = 1 THEN {value[1]} ELSE {}

MCPorts ==
    "4444" :> 4444 @@ "04444" :> 4444 @@ "5555" :> 5555 @@ "6666" :> 6666 @@ "6667" :> 6667
    @@ "1337" :> 1337 @@ "31337" :> 31337 @@ "8080" :> 8080
MCCut == "a-name-too-long-for-any-list" :> "a-name-too-lo"
MCSeconds == "0" :> 0 @@ "60" :> 60
MCNotIds == {NothingMatches.rule, "", "/etc/shadow", "no/id"}
MCReadFamily == {"file.sensitive_read", "file.sensitive_read.ssh"}

Profile(name) == Line("profile", IF name = "" THEN <<>> ELSE <<name>>)
BadLines ==
    {Line(NoKey, <<>>), Line("no_such_key", <<"1">>), Line("suspicious_port", <<"http">>),
     Line("sensitive_read", <<"/etc/shadow", "">>), Line("sensitive_read", <<"", "warn">>),
     Line("suspicious_exec_prefix", <<"lua", "no/id">>), Line("min_severity", <<"high">>),
     Line("user_idle_threshold_seconds", <<"99999999999">>),
     Line("rule_severity", <<"mem.rwx_mmap">>), Line("disable_rule_id", <<"no.such">>)}

\* Lines that work on the same values and ids, for texts of three.
Contested ==
    {Profile("server"), Profile("high-signal"),
     Line("suspicious_exec_exact", <<"busybox", "info", "custom.exec">>),
     Line("suspicious_exec_exact", <<"busybox">>),
     Line("disable_suspicious_exec_exact", <<"busybox">>),
     Line("suspicious_exec_exact", <<"bash", "critical">>),
     Line("disable_suspicious_port", <<"4444">>), Line("suspicious_port", <<"04444", "2">>),
     Line("disable_rule_id", <<"custom.exec">>),
     Line("rule_severity", <<"custom.exec", "critical">>),
     Line("rule_severity", <<"custom.exec", "info">>)}

Lines ==
    Contested \cup BadLines \cup
    {Profile(""), Profile("desktop"), Profile("developer-workstation"),
     Line("suspicious_exec_exact", <<"busybox", "custom.exec", "warn">>),
     Line("disable_suspicious_exec_exact", <<"bash">>),
     Line("suspicious_exec_prefix", <<"lua">>), Line("disable_suspicious_exec_prefix", <<"lua">>),
     Line("suspicious_exec_prefix", <<"a-name-too-long-for-any-list">>),
     Line("disable_suspicious_exec_prefix", <<"a-name-too-long-for-any-list">>),
     Line("sensitive_read", <<"/proc/">>), Line("disable_sensitive_read", <<"/proc/">>),
     Line("sensitive_write", <<"/boot/", "info", "file.sensitive_write.boot">>),
     Line("disable_sensitive_write", <<"/boot/">>),
     Line("jit_allow_comm", <<"chrome">>), Line("disable_jit_allow_comm", <<"chrome">>),
     Line("flow_allow_transfer", <<"curl">>), Line("disable_flow_allow_transfer", <<"curl">>),
     Line("disable_suspicious_port", <<"8080">>), Line("disable_rule_id", <<"mem.rwx_mmap">>),
     Line("min_severity", <<"critical">>), Line("dedup_window_seconds", <<"0">>),
     Line("user_idle_threshold_seconds", <<"60">>), Line("sensitive_read", <<>>)}

Texts ==
    {<<a>> : a \in Lines} \cup (Lines \X Lines) \cup (Contested \X Contested \X Contested)

\* What is rewritten, and what the daemon is stopped under.
Old == <<Profile("server"), Line("min_severity", <<"critical">>)>>
New == <<Line("sensitive_read", <<"/proc/">>), Profile("high-signal")>>
Broken == <<Line("no_such_key", <<"1">>)>>
Rewritten == {Old, New, Broken, <<>>, Missing}

MCEdits == [t \in Texts \cup Rewritten |-> IF t \in Rewritten THEN Rewritten ELSE {}]

Load(text) == [text |-> text, all_events |-> FALSE, starts |-> 1, edits |-> 0, calls |-> 0]
Race(text) == [text |-> text, all_events |-> FALSE, starts |-> 2, edits |-> 2, calls |-> 0]
Run(text, all) == [text |-> text, all_events |-> all, starts |-> 1, edits |-> 0, calls |-> 3]

MCWorkloads ==
    {Load(t) : t \in Texts} \cup {Race(t) : t \in {Old, New, Missing}}
    \cup {Run(t, all) : t \in {Old, New, Missing, <<Line("dedup_window_seconds", <<"0">>)>>},
                        all \in BOOLEAN}
RaceOnly == {Race(Old)}

OpenBy(file, pid) == [type |-> "OPENAT", pid |-> pid, comm |-> "x", target |-> file, flags |-> {}]
MCCallEvents ==
    {OpenBy("/etc/shadow", 9), [type |-> "EXEC", pid |-> 9, comm |-> "cron", target |-> "bash"]}
MCOwnOpen == OpenBy("/proc/7/stat", 7)
MCContext ==
    [ppid |-> 6, gppid |-> 5, parent_comm |-> "cron", grandparent_comm |-> "systemd",
     has_tty |-> FALSE, interactive |-> FALSE, user_idle |-> USER_IDLE_UNKNOWN, exe |-> ""]

\* An event for each list and setting a profile or a line of a text can change.
Probes ==
    [type : {"EXEC"}, pid : {9}, comm : {"cron"}, target : {"bash", "curl", "busybox", "lua"}]
    \cup [type : {"MMAP"}, pid : {9}, comm : {"chrome", "cron"}, prot : {{"EXEC"}, {"EXEC", "WRITE"}},
          anonymous : {TRUE}]
    \cup [type : {"OPENAT"}, pid : {9}, comm : {"x"}, target : {"/etc/shadow", "/boot/"},
          flags : {{"WRONLY"}}]
    \cup [type : {"CONNECT"}, pid : {9}, comm : {"curl"}, target : {""},
          dst : {[family |-> "AF_INET", addr |-> <<8, 8, 8, 8>>]}, port : {443, 4444}]
MCSituations ==
    {[e |-> e, c |-> [MCContext EXCEPT !.user_idle = idle],
      f |-> [sensitive |-> FALSE, shell |-> FALSE]] :
        e \in Probes, idle \in {USER_IDLE_UNKNOWN, 60, 300}}
===============================================================================
