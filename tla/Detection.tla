------------------------------ MODULE Detection -------------------------------
(***************************************************************************)
(* What the host makes of one event: evaluate_event and what it calls      *)
(* (dev/host/asic_main.c), as operators of the policy p in force, the      *)
(* event e, the process context c read from /proc, and the flow entry f    *)
(* found for the event's process tree.                                     *)
(*                                                                         *)
(* A rule of a list is a record [hits, id, severity]: hits is the set of   *)
(* values (executable names, paths, ports) its pattern matches, whatever   *)
(* the matching function.  A target is named by its last path component    *)
(* where the code looks at that.  Strings are those of the source.         *)
(***************************************************************************)
EXTENDS NetClassify, FiniteSetsExt

INFO == 0
WARN == 1
CRITICAL == 2

Profiles == {"baseline", "server", "developer-workstation", "high-signal"}

FLOW_SENSITIVE_READ == "flow.sensitive_read_then_public_net"
FLOW_SHELL_DOWNLOADER == "flow.shell_downloader_public_net"
FLOW_NO_TTY == "flow.no_tty_public_transfer_tool"
FLOW_IDLE == "flow.idle_public_transfer_tool"
FlowRules == {FLOW_SENSITIVE_READ, FLOW_SHELL_DOWNLOADER, FLOW_NO_TTY, FLOW_IDLE}

MemRules == {"mem.rwx_mprotect", "mem.exec_mprotect", "mem.rwx_mmap", "mem.anon_exec_mmap"}

USER_IDLE_UNKNOWN == -1

\* No finding; its rule is no id of a rule: valid_rule_id refuses the brackets.
NothingMatches == [rule |-> "<none>", severity |-> INFO, score |-> 0]
Observed == [rule |-> "event.observed", severity |-> INFO, score |-> 0]

\* Slips that the properties of the runs are there to catch.
LastAllowed_NoneDisabled(p, list, x) ==
    LET hitting == {i \in DOMAIN list : x \in list[i].hits}
    IN IF hitting = {} \/ \E i \in hitting : list[i].id \in p.disabled
       THEN NothingMatches
       ELSE [rule |-> list[Max(hitting)].id, severity |-> list[Max(hitting)].severity, score |-> 0]
default_flow_rule_severity_Swapped(p, id) ==
    IF id = FLOW_NO_TTY /\ p.profile = "server" THEN INFO ELSE CRITICAL
SensitiveReadFlow_NeedsNoTty(p, e, c, f) ==
    IF f.sensitive /\ ~c.has_tty /\ FLOW_SENSITIVE_READ \notin p.disabled
    THEN [rule |-> FLOW_SENSITIVE_READ, severity |-> CRITICAL, score |-> 95] ELSE NothingMatches
default_flow_rule_score_AddsUp(p, id, suspicious) == IF suspicious THEN 100 ELSE 90
IdleFlow_Exempts(p, e, c) ==
    IF {e.comm, e.target, c.exe} \cap p.flow_allow_transfer # {} THEN NothingMatches
    ELSE [rule |-> FLOW_IDLE, severity |-> WARN, score |-> 85]

-------------------------------------------------------------------------------
(* Rule controls. *)

rule_id_disabled(p, id) == id \in p.disabled

effective_rule_severity(p, id, default) ==
    IF id \in DOMAIN p.override THEN p.override[id] ELSE default

\* make_controlled_finding: nothing if the rule is disabled.
Controlled(p, default, id, score) ==
    IF rule_id_disabled(p, id)
    THEN NothingMatches
    ELSE [rule |-> id, severity |-> effective_rule_severity(p, id, default), score |-> score]

\* The scan of a rule list: from its end, over disabled rules, to a rule that hits.
LastAllowed(p, list, x) ==
    LET ok == {i \in DOMAIN list : x \in list[i].hits /\ ~rule_id_disabled(p, list[i].id)}
    IN IF ok = {} THEN NothingMatches
       ELSE Controlled(p, list[Max(ok)].severity, list[Max(ok)].id, 0)

\* The first of a sequence of candidate findings that is one.
FirstOf(a, b) == IF a # NothingMatches THEN a ELSE b

default_flow_rule_severity(p, id) ==
    CASE id \in {FLOW_SENSITIVE_READ, FLOW_SHELL_DOWNLOADER} -> CRITICAL
      [] p.profile \in {"server", "high-signal"} -> CRITICAL
      [] id = FLOW_NO_TTY /\ p.profile = "developer-workstation" -> INFO
      [] OTHER -> WARN

default_flow_rule_score(p, id, suspicious) ==
    CASE id = FLOW_SENSITIVE_READ -> IF suspicious THEN 95 ELSE 90
      [] id = FLOW_SHELL_DOWNLOADER -> 90
      [] id = FLOW_NO_TTY ->
            (CASE p.profile \in {"server", "high-signal"} -> 90
               [] p.profile = "developer-workstation" -> 40
               [] p.profile = "baseline" -> 70)
      [] id = FLOW_IDLE ->
            (CASE p.profile \in {"server", "high-signal"} -> 95
               [] p.profile = "developer-workstation" -> 65
               [] p.profile = "baseline" -> 85)

-------------------------------------------------------------------------------
(* Process, memory and file events. *)

is_suspicious_exec(p, e) ==
    FirstOf(LastAllowed(p, p.exec_exact, e.target), LastAllowed(p, p.exec_prefix, e.target))

comm_allowed_for_jit(p, comm) == comm \in p.jit_allow

\* A disabled rule ends the evaluation of an executable mapping; a mapping that is
\* neither writable nor anonymous is of no interest.
MemFinding(p, e) ==
    IF "EXEC" \notin e.prot \/ comm_allowed_for_jit(p, e.comm) THEN NothingMatches
    ELSE CASE e.type = "MPROTECT" /\ "WRITE" \in e.prot -> Controlled(p, CRITICAL, "mem.rwx_mprotect", 0)
           [] e.type = "MPROTECT" /\ "WRITE" \notin e.prot -> Controlled(p, WARN, "mem.exec_mprotect", 0)
           [] e.type = "MMAP" /\ "WRITE" \in e.prot -> Controlled(p, CRITICAL, "mem.rwx_mmap", 0)
           [] e.type = "MMAP" /\ "WRITE" \notin e.prot /\ e.anonymous ->
                 Controlled(p, p.anon_exec_mmap_severity, "mem.anon_exec_mmap", 0)
           [] OTHER -> NothingMatches

opens_for_write(flags) == flags \cap {"WRONLY", "RDWR", "TRUNC", "CREAT"} # {}

\* A slip: the read rules are not asked when no write rule hits.
OpenFinding_NoFallback(p, e) ==
    IF opens_for_write(e.flags) THEN LastAllowed(p, p.sensitive_write, e.target)
    ELSE LastAllowed(p, p.sensitive_read, e.target)

OpenFinding(p, e) ==
    FirstOf(IF opens_for_write(e.flags)
            THEN LastAllowed(p, p.sensitive_write, e.target) ELSE NothingMatches,
            LastAllowed(p, p.sensitive_read, e.target))

-------------------------------------------------------------------------------
(* Connects. *)

Shells == {"sh", "bash", "dash", "zsh"}
TransferTools == {"curl", "wget", "nc", "ncat", "socat", "scp", "rsync", "rclone",
                  "busybox", "python", "python3", "perl"}

is_shell_command(comm, target) == comm \in Shells \/ target \in Shells
is_transfer_command(comm, target) == comm \in TransferTools \/ target \in TransferTools

flow_transfer_allowlisted(p, e, c) == {e.comm, e.target, c.exe} \cap p.flow_allow_transfer # {}

process_tree_has_shell_context(e, c) ==
    is_shell_command(e.comm, e.target) \/ c.parent_comm \in Shells \/ c.grandparent_comm \in Shells

\* gppid, else ppid, else the pid itself; 0 stands for a process that is gone.
flow_root_pid(e, c) ==
    IF c.gppid # 0 THEN c.gppid ELSE IF c.ppid # 0 THEN c.ppid ELSE e.pid

IsPublicTransfer(e) ==
    /\ e.type = "CONNECT"
    /\ classify_net_destination(e.dst).scope = "public"
    /\ is_transfer_command(e.comm, e.target)

HasShellContext(e, c, f) == process_tree_has_shell_context(e, c) \/ f.shell

UserIdle(p, c) ==
    c.user_idle # USER_IDLE_UNKNOWN /\ c.user_idle >= p.user_idle_threshold

SensitiveReadFlow(p, e, c, f) ==
    IF f.sensitive
    THEN Controlled(p, default_flow_rule_severity(p, FLOW_SENSITIVE_READ), FLOW_SENSITIVE_READ,
            default_flow_rule_score(p, FLOW_SENSITIVE_READ, HasShellContext(e, c, f) \/ ~c.has_tty))
    ELSE NothingMatches

IdleFlowApplies(p, c) == UserIdle(p, c) /\ ~c.has_tty /\ ~c.interactive

IdleFlow(p, e, c) ==
    IF flow_transfer_allowlisted(p, e, c)
    THEN Controlled(p, INFO, FLOW_IDLE, 30)
    ELSE Controlled(p, default_flow_rule_severity(p, FLOW_IDLE), FLOW_IDLE,
                    default_flow_rule_score(p, FLOW_IDLE, FALSE))

ShellDownloaderFlow(p, e, c, f) ==
    IF HasShellContext(e, c, f)
    THEN Controlled(p, default_flow_rule_severity(p, FLOW_SHELL_DOWNLOADER), FLOW_SHELL_DOWNLOADER,
                    default_flow_rule_score(p, FLOW_SHELL_DOWNLOADER, FALSE))
    ELSE NothingMatches

NoTtyFlow(p, e, c) ==
    CASE c.has_tty -> NothingMatches
      [] ~c.has_tty /\ flow_transfer_allowlisted(p, e, c) -> Controlled(p, INFO, FLOW_NO_TTY, 20)
      [] OTHER -> Controlled(p, default_flow_rule_severity(p, FLOW_NO_TTY), FLOW_NO_TTY,
                             default_flow_rule_score(p, FLOW_NO_TTY, FALSE))

\* Once the idle flow applies its outcome is final, disabled or not.
evaluate_connect_flow(p, e, c, f) ==
    IF ~IsPublicTransfer(e) THEN NothingMatches
    ELSE FirstOf(SensitiveReadFlow(p, e, c, f),
                 IF IdleFlowApplies(p, c) THEN IdleFlow(p, e, c)
                 ELSE FirstOf(ShellDownloaderFlow(p, e, c, f), NoTtyFlow(p, e, c)))

is_suspicious_port(p, e) == LastAllowed(p, p.suspicious_ports, e.port)

evaluate_event(p, e, c, f) ==
    FirstOf(CASE e.type = "EXEC" -> is_suspicious_exec(p, e)
              [] e.type \in {"MPROTECT", "MMAP"} -> MemFinding(p, e)
              [] e.type = "OPENAT" -> OpenFinding(p, e)
              [] e.type = "CONNECT" ->
                    FirstOf(evaluate_connect_flow(p, e, c, f), is_suspicious_port(p, e)),
            Observed)

-------------------------------------------------------------------------------
(* The ids a rule control may name: known_rule_id. *)

ListIds(list) == {list[i].id : i \in DOMAIN list}
Ids(p) ==
    FlowRules \cup MemRules
    \cup ListIds(p.exec_exact) \cup ListIds(p.exec_prefix) \cup ListIds(p.sensitive_read)
    \cup ListIds(p.sensitive_write) \cup ListIds(p.suspicious_ports)

\* Those among them that an event can be reported by.
RulesOf(p, e) ==
    {Observed.rule} \cup
    CASE e.type = "EXEC" -> ListIds(p.exec_exact) \cup ListIds(p.exec_prefix)
      [] e.type = "OPENAT" -> ListIds(p.sensitive_read) \cup ListIds(p.sensitive_write)
      [] e.type = "CONNECT" -> FlowRules \cup ListIds(p.suspicious_ports)
      [] OTHER -> MemRules

-------------------------------------------------------------------------------
(* What the loader and the sensor leave to be evaluated. *)

Severities == INFO .. CRITICAL

\* A rule list as the add functions leave it: parse_severity and valid_rule_id have
\* passed every rule.
IsRuleList(list) ==
    /\ Len(list) \in Nat /\ DOMAIN list = 1 .. Len(list)
    /\ \A i \in DOMAIN list :
          list[i].severity \in Severities /\ list[i].id # NothingMatches.rule

\* struct edr_rules after load_rules_file
IsPolicy(p) ==
    /\ p = [profile |-> p.profile, disabled |-> p.disabled, override |-> p.override,
            min_severity |-> p.min_severity,
            exec_exact |-> p.exec_exact, exec_prefix |-> p.exec_prefix,
            sensitive_read |-> p.sensitive_read, sensitive_write |-> p.sensitive_write,
            suspicious_ports |-> p.suspicious_ports, jit_allow |-> p.jit_allow,
            flow_allow_transfer |-> p.flow_allow_transfer,
            anon_exec_mmap_severity |-> p.anon_exec_mmap_severity,
            user_idle_threshold |-> p.user_idle_threshold, read_family |-> p.read_family]
    /\ p.profile \in Profiles
    /\ p.min_severity \in Severities /\ p.anon_exec_mmap_severity \in Severities
    /\ \A id \in DOMAIN p.override : p.override[id] \in Severities
    /\ IsRuleList(p.exec_exact) /\ IsRuleList(p.exec_prefix) /\ IsRuleList(p.suspicious_ports)
    /\ IsRuleList(p.sensitive_read) /\ IsRuleList(p.sensitive_write)

\* The two address families the sensor lets through.
IsDestination(dst) ==
    \/ dst.family = "AF_INET" /\ dst.addr \in [1 .. 4 -> 0 .. 255]
    \/ dst.family = "AF_INET6" /\ dst.addr \in [1 .. 16 -> 0 .. 255]

\* struct event, each kind with the fields the sensor fills in for it
IsEvent(e) ==
    \/ e.type = "EXEC"
    \/ /\ e.type \in {"MPROTECT", "MMAP"}
       /\ e = [type |-> e.type, pid |-> e.pid, comm |-> e.comm, prot |-> e.prot,
               anonymous |-> e.anonymous]
    \/ /\ e.type = "OPENAT"
       /\ e = [type |-> e.type, pid |-> e.pid, comm |-> e.comm, target |-> e.target,
               flags |-> e.flags]
    \/ e.type = "CONNECT" /\ IsDestination(e.dst)

-------------------------------------------------------------------------------
(* What handle_event asks of the finding. *)

\* Whether the finding is worth a record, before duplicates are suppressed.
should_emit(p, all_events, finding) ==
    all_events \/ (finding.severity > INFO /\ finding.severity >= p.min_severity)

\* rule_id_matches_family(id, "file.sensitive_read"): the family of a rule id is
\* part of the policy's abstraction of names.
FeedsFlow(p, e, finding) == e.type = "OPENAT" /\ finding.rule \in p.read_family
===============================================================================
