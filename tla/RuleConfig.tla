------------------------------ MODULE RuleConfig -------------------------------
(***************************************************************************)
(* How a configuration file becomes the rules in force: init_default_rules,*)
(* select_profile_from_file, load_rules_file and the rule list helpers     *)
(* (dev/host/asic_main.c).                                                 *)
(*                                                                         *)
(* A text is the sequence of lines that are neither blank nor comments.  A *)
(* line is its key and the parts of its value between commas: no part for  *)
(* an empty value, the key NoKey for a line without "=".  A value of a     *)
(* rule list is such a sequence of parts too.  Pattern matching is the     *)
(* constant Hits, the cut of a long value when it is stored the constant   *)
(* Cut.  Lines longer than the buffer of fgets are left out.               *)
(***************************************************************************)
EXTENDS Detection, SequencesExt

CONSTANTS
    MAX_RULES,    \* capacity of every rule list
    Hits(_, _),   \* Hits(list, value): what a rule of that list and value matches
    Cut,          \* Cut[part]: what a list keeps of a part too long for it
    Ports,        \* Ports[part]: the port a part names, for the parts that name one
    Seconds,      \* Seconds[part]: the number of a part parse_u64 and the bounds accept
    NotIds,       \* parts valid_rule_id refuses
    ReadFamily    \* rule ids of the family file.sensitive_read

NoKey == "line without ="

SeverityOf ==
    [part \in {"info", "0", "warn", "warning", "1", "critical", "crit", "2"} |->
        CASE part \in {"info", "0"} -> INFO
          [] part \in {"warn", "warning", "1"} -> WARN
          [] part \in {"critical", "crit", "2"} -> CRITICAL]

\* The rule id a detection list gives a line that names none, and its severity.
DefaultId ==
    [suspicious_exec_exact |-> "exec.suspicious_exact",
     suspicious_exec_prefix |-> "exec.suspicious_prefix",
     sensitive_read |-> "file.sensitive_read", sensitive_write |-> "file.sensitive_write",
     suspicious_port |-> "net.suspicious_port"]
DetectionLists == DOMAIN DefaultId
DefaultSeverity(list) == IF list = "sensitive_write" THEN CRITICAL ELSE WARN

\* The key that removes values from each list.
DisableKey ==
    [suspicious_exec_exact |-> "disable_suspicious_exec_exact",
     suspicious_exec_prefix |-> "disable_suspicious_exec_prefix",
     sensitive_read |-> "disable_sensitive_read", sensitive_write |-> "disable_sensitive_write",
     suspicious_port |-> "disable_suspicious_port", jit_allow_comm |-> "disable_jit_allow_comm",
     flow_allow_transfer |-> "disable_flow_allow_transfer"]
Lists == DOMAIN DisableKey

DefaultValues ==
    [suspicious_exec_exact |->
        <<"bash", "sh", "dash", "zsh", "curl", "wget", "nc", "ncat", "socat", "pkexec", "sudo">>,
     suspicious_exec_prefix |-> <<"python", "perl", "ruby">>,
     sensitive_read |-> <<"/etc/shadow", "/etc/sudoers", "/etc/ssh/", "/root/.ssh/",
                          "/.ssh/id_rsa", "/.ssh/id_ed25519", "/proc/kcore">>,
     sensitive_write |-> <<"/etc/passwd", "/etc/group", "/etc/shadow", "/etc/sudoers", "/etc/ssh/",
                           "/root/.ssh/", "/.ssh/", "/etc/systemd/system/", "/etc/cron.",
                           "/etc/crontab">>,
     suspicious_port |-> <<"4444", "5555", "6666", "6667", "1337", "31337">>,
     jit_allow_comm |-> <<"node", "chrome", "chromium", "firefox", "java">>,
     flow_allow_transfer |-> <<>>]

ASSUME RuleConfigAssumption ==
    /\ MAX_RULES \in Nat /\ \A list \in Lists : Len(DefaultValues[list]) <= MAX_RULES
    /\ \A i \in DOMAIN DefaultValues["suspicious_port"] :
          DefaultValues["suspicious_port"][i] \in DOMAIN Ports
    /\ DOMAIN Cut \cap UNION {ToSet(DefaultValues[list]) : list \in Lists} = {}

-------------------------------------------------------------------------------
(* The rule lists.  An entry is [value, id, severity]. *)

IsPort(value) == Len(value) = 1 /\ value[1] \in DOMAIN Ports

\* The value as the list stores it, and as a disable line is compared with it.
Stored(list, value) ==
    IF list = "suspicious_port" THEN Ports[value[1]]
    ELSE [i \in DOMAIN value |-> IF value[i] \in DOMAIN Cut THEN Cut[value[i]] ELSE value[i]]
Sought(list, value) == IF list = "suspicious_port" THEN Ports[value[1]] ELSE value

RuleEntry(list, value, id, severity) ==
    [value |-> Stored(list, value), id |-> id, severity |-> severity]

\* Slips that the properties are there to catch.
Removed_OneOnly(entries, values) ==
    LET Found == {i \in DOMAIN entries : entries[i].value \in values}
    IN IF Found = {} THEN entries ELSE RemoveAt(entries, Min(Found))
RemovalFails_AnyList(list, entries, value) ==
    \/ list = "suspicious_port" /\ ~IsPort(value)
    \/ \A i \in DOMAIN entries : entries[i].value # Sought(list, value)

\* The elements of a sequence that are in S, in their order.
Those(seq, S) ==
    LET those[n \in 0 .. Len(seq)] ==
            IF n = 0 THEN <<>>
            ELSE IF seq[n] \in S THEN Append(those[n - 1], seq[n]) ELSE those[n - 1]
    IN those[Len(seq)]

\* The remove functions: every entry with one of these values goes.
Removed(entries, values) ==
    Those(entries, {entry \in ToSet(entries) : entry.value \notin values})

\* remove_port_rule alone tells its caller whether there was anything to remove.
RemovalFails(list, entries, value) ==
    /\ list = "suspicious_port"
    /\ ~IsPort(value) \/ \A i \in DOMAIN entries : entries[i].value # Sought(list, value)

AddFails_OneMore(list, entries, value) ==
    Len(entries) > MAX_RULES \/ (list = "suspicious_port" /\ ~IsPort(value))

\* The add functions refuse a value when the list is full, or that is no port.
AddFails(list, entries, value) ==
    Len(entries) >= MAX_RULES \/ (list = "suspicious_port" /\ ~IsPort(value))

\* split_rule_value: a value may end in a severity, or in a severity and a rule id.
\* What precedes is the value, commas included.
split_rule_value(list, parts) ==
    LET n == Len(parts)
        Rule(value, id, severity) ==
            [sound |-> value # <<"">>, value |-> value, id |-> id, severity |-> severity]
    IN CASE n = 1 -> Rule(parts, DefaultId[list], DefaultSeverity(list))
         [] n > 1 /\ parts[n] \in DOMAIN SeverityOf ->
                Rule(Front(parts), DefaultId[list], SeverityOf[parts[n]])
         [] n > 2 /\ parts[n] \notin DOMAIN SeverityOf \cup NotIds
                  /\ parts[n - 1] \in DOMAIN SeverityOf ->
                Rule(SubSeq(parts, 1, n - 2), parts[n], SeverityOf[parts[n - 1]])
         [] OTHER -> [sound |-> FALSE]

-------------------------------------------------------------------------------
(* Defaults and profile. *)

init_default_rules ==
    [profile |-> "baseline", disabled |-> {}, override |-> <<>>,
     list |-> [list \in Lists |-> [i \in DOMAIN DefaultValues[list] |->
                  IF list \in DetectionLists
                  THEN RuleEntry(list, <<DefaultValues[list][i]>>, DefaultId[list], DefaultSeverity(list))
                  ELSE RuleEntry(list, <<DefaultValues[list][i]>>, "", INFO)]],
     dedup_window |-> 5, user_idle_threshold |-> 300,
     min_severity |-> WARN, anon_exec_mmap_severity |-> WARN]

Without(rules, list, values) ==
    [rules EXCEPT !.list[list] = Removed(@, {<<v>> : v \in values})]

\* add_profile_exec_exact_if_missing, always on the compiled defaults: there is room.
WithExec(rules, v) ==
    IF \E i \in DOMAIN rules.list["suspicious_exec_exact"] :
            rules.list["suspicious_exec_exact"][i].value = <<v>>
    THEN rules
    ELSE [rules EXCEPT !.list["suspicious_exec_exact"] =
            Append(@, RuleEntry("suspicious_exec_exact", <<v>>, "exec.suspicious_exact", WARN))]

\* A slip: the case of server runs on into the next.
apply_profile_FallsThrough(rules, profile) ==
    LET r == [rules EXCEPT !.profile = profile] IN
    CASE profile = "baseline" -> r
      [] profile = "server" ->
            [Without(r, "jit_allow_comm", {"chrome", "chromium", "firefox"})
                EXCEPT !.anon_exec_mmap_severity = INFO]
      [] profile = "developer-workstation" -> [r EXCEPT !.anon_exec_mmap_severity = INFO]
      [] profile = "high-signal" -> Without(r, "suspicious_exec_exact", {"bash", "sh"})

apply_profile(rules, profile) ==
    LET r == [rules EXCEPT !.profile = profile] IN
    CASE profile = "baseline" -> r
      [] profile = "server" ->
            WithExec(WithExec(Without(r, "jit_allow_comm", {"chrome", "chromium", "firefox"}),
                              "curl"), "wget")
      [] profile = "developer-workstation" -> [r EXCEPT !.anon_exec_mmap_severity = INFO]
      [] profile = "high-signal" -> Without(r, "suspicious_exec_exact", {"bash", "sh"})

IsProfileLine(line) == line.key = "profile"

\* select_profile_from_file: every profile line must name a profile, the last one counts.
ProfilesSound(text) ==
    \A i \in DOMAIN text : IsProfileLine(text[i]) => \E p \in Profiles : text[i].parts = <<p>>
SelectedProfile_OnTopOnly(text) ==
    IF text # <<>> /\ IsProfileLine(text[1]) THEN text[1].parts[1] ELSE "baseline"
SelectedProfile(text) ==
    LET named == {i \in DOMAIN text : IsProfileLine(text[i])}
    IN IF named = {} THEN "baseline" ELSE text[Max(named)].parts[1]

-------------------------------------------------------------------------------
(* The lines.  A loader state is [rules, valid]; a bad line spoils valid and the *)
(* next line is read all the same.                                               *)

Invalid(st) == [st EXCEPT !.valid = FALSE]

AfterAdd(st, list, rule) ==
    IF ~rule.sound \/ AddFails(list, st.rules.list[list], rule.value) THEN Invalid(st)
    ELSE [st EXCEPT !.rules.list[list] =
            Append(@, RuleEntry(list, rule.value, rule.id, rule.severity))]

AfterDisable(st, list, value) ==
    IF RemovalFails(list, st.rules.list[list], value) THEN Invalid(st)
    ELSE [st EXCEPT !.rules.list[list] = Removed(@, {Sought(list, value)})]

IsRuleId(parts) == Len(parts) = 1 /\ parts[1] \notin NotIds

\* add_disabled_rule_id
AfterDisableId(st, parts) ==
    IF IsRuleId(parts) /\ (\/ parts[1] \in st.rules.disabled
                           \/ Cardinality(st.rules.disabled) < MAX_RULES)
    THEN [st EXCEPT !.rules.disabled = @ \cup {parts[1]}] ELSE Invalid(st)

\* parse_rule_severity_control and add_rule_severity_override: a later line for the
\* same id replaces the severity of an earlier one.
IsOverride(parts) ==
    Len(parts) = 2 /\ parts[1] \notin NotIds /\ parts[2] \in DOMAIN SeverityOf
AfterOverride(st, parts) ==
    IF IsOverride(parts) /\ (\/ parts[1] \in DOMAIN st.rules.override
                             \/ Cardinality(DOMAIN st.rules.override) < MAX_RULES)
    THEN [st EXCEPT !.rules.override = [id \in DOMAIN @ \cup {parts[1]} |->
                        IF id = parts[1] THEN SeverityOf[parts[2]] ELSE @[id]]]
    ELSE Invalid(st)

\* The keys with a single number or severity.
AfterSetting(st, key, parts) ==
    CASE key = "min_severity" /\ Len(parts) = 1 /\ parts[1] \in DOMAIN SeverityOf ->
            [st EXCEPT !.rules.min_severity = SeverityOf[parts[1]]]
      [] key = "dedup_window_seconds" /\ Len(parts) = 1 /\ parts[1] \in DOMAIN Seconds ->
            [st EXCEPT !.rules.dedup_window = Seconds[parts[1]]]
      [] key = "user_idle_threshold_seconds" /\ Len(parts) = 1 /\ parts[1] \in DOMAIN Seconds ->
            [st EXCEPT !.rules.user_idle_threshold = Seconds[parts[1]]]
      [] OTHER -> Invalid(st)

\* One line of the second pass of load_rules_file.
AfterLine(line, st) ==
    LET key == line.key IN
    CASE key = "profile" \/ (key # NoKey /\ line.parts = <<>>) -> st
      [] line.parts # <<>> /\ key \in DetectionLists ->
            AfterAdd(st, key, split_rule_value(key, line.parts))
      [] line.parts # <<>> /\ key \in Lists \ DetectionLists ->
            AfterAdd(st, key, [sound |-> TRUE, value |-> line.parts, id |-> "", severity |-> INFO])
      [] line.parts # <<>> /\ \E list \in Lists : key = DisableKey[list] ->
            AfterDisable(st, CHOOSE list \in Lists : key = DisableKey[list], line.parts)
      [] line.parts # <<>> /\ key = "disable_rule_id" -> AfterDisableId(st, line.parts)
      [] line.parts # <<>> /\ key = "rule_severity" -> AfterOverride(st, line.parts)
      [] OTHER -> AfterSetting(st, key, line.parts)

\* The second pass of load_rules_file.
AfterLines(st, text) ==
    LET after[n \in 0 .. Len(text)] ==
            IF n = 0 THEN st ELSE AfterLine(text[n], after[n - 1])
    IN after[Len(text)]

-------------------------------------------------------------------------------

\* The policy the evaluation sees.
Values(rules, list) == UNION {Hits(list, rules.list[list][i].value) : i \in DOMAIN rules.list[list]}
Rules(rules, list) ==
    [i \in DOMAIN rules.list[list] |->
        LET entry == rules.list[list][i]
        IN [hits |-> Hits(list, entry.value), id |-> entry.id, severity |-> entry.severity]]
Policy(rules) ==
    [profile |-> rules.profile, disabled |-> rules.disabled, override |-> rules.override,
     min_severity |-> rules.min_severity,
     exec_exact |-> Rules(rules, "suspicious_exec_exact"),
     exec_prefix |-> Rules(rules, "suspicious_exec_prefix"),
     sensitive_read |-> Rules(rules, "sensitive_read"),
     sensitive_write |-> Rules(rules, "sensitive_write"),
     suspicious_ports |-> Rules(rules, "suspicious_port"),
     jit_allow |-> Values(rules, "jit_allow_comm"),
     flow_allow_transfer |-> Values(rules, "flow_allow_transfer"),
     anon_exec_mmap_severity |-> rules.anon_exec_mmap_severity,
     user_idle_threshold |-> rules.user_idle_threshold, read_family |-> ReadFamily]

\* validate_rule_id_controls
ControlsKnown(rules) == rules.disabled \cup DOMAIN rules.override \subseteq Ids(Policy(rules))

\* load_rules_file, when the first pass reads profileText and the second rulesText.
LoadFrom(profileText, rulesText) ==
    IF ~ProfilesSound(profileText) THEN [rules |-> init_default_rules, valid |-> FALSE]
    ELSE LET st == AfterLines([rules |-> apply_profile(init_default_rules, SelectedProfile(profileText)),
                               valid |-> TRUE], rulesText)
         IN [st EXCEPT !.valid = @ /\ ControlsKnown(st.rules)]
===============================================================================
