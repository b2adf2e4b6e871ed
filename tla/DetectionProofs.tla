---------------------------- MODULE DetectionProofs ---------------------------
(***************************************************************************)
(* What the evaluation of one event can return, for every policy and       *)
(* event.                                                                  *)
(***************************************************************************)
EXTENDS Detection, WellFoundedInduction, TLAPS

-------------------------------------------------------------------------------
(* The scan of a rule list ends at one of its rules.                         *)

\* A non-empty set of list positions has a last one.
LEMMA LastPosition ==
    ASSUME NEW n \in Nat, NEW S \in SUBSET (1 .. n), S # {}
    PROVE  Max(S) \in S /\ \A i \in S : i <= Max(S)
<1> DEFINE T == {n - i : i \in S}
<1>1. \A i \in S : i \in Nat /\ i <= n
  OBVIOUS
<1>2. T \subseteq Nat /\ T # {}
  <2>1. \A i \in S : n - i \in Nat
    BY <1>1
  <2> QED
    BY <2>1
<1>3. PICK m \in T : \A k \in T : <<k, m>> \notin OpToRel(<, Nat)
  <2> HIDE DEF T
  <2> QED
    BY <1>2, NatLessThanWellFounded, WFMin
<1>4. \A k \in T : ~(k < m)
  BY <1>2, <1>3 DEF OpToRel
<1>5. PICK i \in S : m = n - i
  OBVIOUS
<1>6. ASSUME NEW j \in S PROVE j <= i
  <2>1. ~(n - j < n - i)
    BY <1>4, <1>5
  <2> QED
    BY <1>1, <2>1
<1> HIDE DEF T
<1> QED
  BY <1>1, <1>5, <1>6 DEF Max

\* The rule the scan stops at, if it stops.
Hitting(p, list, x) == {i \in DOMAIN list : x \in list[i].hits /\ ~rule_id_disabled(p, list[i].id)}

\* The scan of a list returns nothing, or what its last enabled rule for the value says.
LEMMA ScanStops ==
    ASSUME NEW p, NEW list, IsRuleList(list), NEW x
    PROVE  \/ Hitting(p, list, x) = {} /\ LastAllowed(p, list, x) = NothingMatches
           \/ \E i \in Hitting(p, list, x) :
                 /\ \A j \in Hitting(p, list, x) : j <= i
                 /\ LastAllowed(p, list, x) = Controlled(p, list[i].severity, list[i].id, 0)
<1> DEFINE S == Hitting(p, list, x)
<1>1. CASE S = {}
  BY <1>1 DEF LastAllowed, Hitting
<1>2. CASE S # {}
  <2>1. S \in SUBSET (1 .. Len(list)) /\ Len(list) \in Nat
    BY DEF Hitting, IsRuleList
  <2>2. Max(S) \in S /\ \A j \in S : j <= Max(S)
    <3> HIDE DEF S
    <3> QED
      BY <1>2, <2>1, LastPosition
  <2>3. LastAllowed(p, list, x) = Controlled(p, list[Max(S)].severity, list[Max(S)].id, 0)
    BY <1>2 DEF LastAllowed, Hitting
  <2> QED
    BY <2>2, <2>3
<1> QED
  BY <1>1, <1>2

\* make_controlled_finding: nothing, or the finding of that rule.
LEMMA ControlledFields ==
    ASSUME NEW p, NEW default, NEW rule, NEW score
    PROVE  /\ rule \in p.disabled => Controlled(p, default, rule, score) = NothingMatches
           /\ rule \notin p.disabled =>
                 LET a == Controlled(p, default, rule, score)
                 IN  /\ a.rule = rule /\ a.score = score
                     /\ a.severity = effective_rule_severity(p, rule, default)
BY DEF Controlled, rule_id_disabled

-------------------------------------------------------------------------------
(* What a finding can be.                                                    *)

\* A candidate is nothing, or the finding of a known rule that is not disabled, with
\* the severity an override gives it, if there is one.
Proper(p, a) ==
    \/ a = NothingMatches
    \/ /\ a.rule \in Ids(p) /\ a.rule # "<none>" /\ a.rule \notin p.disabled
       /\ a.severity \in Severities /\ a.score \in 0 .. 95
       /\ a.rule \in DOMAIN p.override => a.severity = p.override[a.rule]

\* Proper candidates make a proper choice.
LEMMA FirstProper ==
    ASSUME NEW p, NEW a, NEW b, Proper(p, a), Proper(p, b)
    PROVE  Proper(p, FirstOf(a, b))
BY DEF FirstOf

\* The rule controls keep what a rule raises within the policy ...
LEMMA ControlledProper ==
    ASSUME NEW p, IsPolicy(p), NEW default \in Severities, NEW rule \in Ids(p),
           rule # "<none>", NEW score \in 0 .. 95
    PROVE  Proper(p, Controlled(p, default, rule, score))
<1>1. CASE rule \in p.disabled
  BY <1>1, ControlledFields DEF Proper
<1>2. CASE rule \notin p.disabled
  <2>1. effective_rule_severity(p, rule, default) \in Severities
    BY DEF effective_rule_severity, IsPolicy
  <2> QED
    BY <1>2, <2>1, ControlledFields DEF Proper, effective_rule_severity
<1> QED
  BY <1>1, <1>2

\* ... and so does a rule list.
LEMMA ListProper ==
    ASSUME NEW p, IsPolicy(p), NEW list, IsRuleList(list), ListIds(list) \subseteq Ids(p), NEW x
    PROVE  Proper(p, LastAllowed(p, list, x))
<1>1. CASE LastAllowed(p, list, x) = NothingMatches
  BY <1>1 DEF Proper
<1>2. ASSUME NEW i \in Hitting(p, list, x),
             LastAllowed(p, list, x) = Controlled(p, list[i].severity, list[i].id, 0)
      PROVE  Proper(p, LastAllowed(p, list, x))
  <2>1. /\ list[i].severity \in Severities /\ list[i].id \in Ids(p)
        /\ list[i].id # "<none>" /\ 0 \in 0 .. 95
    BY DEF Hitting, IsRuleList, ListIds, NothingMatches
  <2> QED
    BY <1>2, <2>1, ControlledProper
<1> QED
  BY <1>1, <1>2, ScanStops

\* Each flow is a known rule, with a score of at most 95.
LEMMA FlowProper ==
    ASSUME NEW p, IsPolicy(p), NEW e, NEW c, NEW f
    PROVE  Proper(p, evaluate_connect_flow(p, e, c, f))
<1>1. FlowRules \subseteq Ids(p) /\ "<none>" \notin FlowRules
  BY DEF Ids, FlowRules, FLOW_SENSITIVE_READ, FLOW_SHELL_DOWNLOADER, FLOW_NO_TTY, FLOW_IDLE
<1>2. p.profile \in Profiles
  BY DEF IsPolicy
<1>3. ASSUME NEW rule \in FlowRules
      PROVE  /\ default_flow_rule_severity(p, rule) \in Severities
             /\ \A suspicious : default_flow_rule_score(p, rule, suspicious) \in 0 .. 95
  BY <1>2 DEF default_flow_rule_severity, default_flow_rule_score, Severities, INFO, WARN,
     CRITICAL, FlowRules, FLOW_SENSITIVE_READ, FLOW_SHELL_DOWNLOADER, FLOW_NO_TTY, FLOW_IDLE,
     Profiles
<1>4. ASSUME NEW rule \in FlowRules, NEW suspicious
      PROVE  Proper(p, Controlled(p, default_flow_rule_severity(p, rule), rule,
                                  default_flow_rule_score(p, rule, suspicious)))
  BY <1>1, <1>3, ControlledProper
<1>5. /\ FLOW_SENSITIVE_READ \in FlowRules /\ FLOW_SHELL_DOWNLOADER \in FlowRules
      /\ FLOW_NO_TTY \in FlowRules /\ FLOW_IDLE \in FlowRules
  BY DEF FlowRules
<1>6. Proper(p, Controlled(p, INFO, FLOW_IDLE, 30)) /\ Proper(p, Controlled(p, INFO, FLOW_NO_TTY, 20))
  <2>1. INFO \in Severities /\ 20 \in 0 .. 95 /\ 30 \in 0 .. 95
    BY DEF Severities, INFO, CRITICAL
  <2> QED
    BY <1>1, <1>5, <2>1, ControlledProper
<1>7. Proper(p, NothingMatches)
  BY DEF Proper
<1>8. /\ Proper(p, SensitiveReadFlow(p, e, c, f)) /\ Proper(p, ShellDownloaderFlow(p, e, c, f))
      /\ Proper(p, NoTtyFlow(p, e, c)) /\ Proper(p, IdleFlow(p, e, c))
  BY <1>4, <1>5, <1>6, <1>7 DEF SensitiveReadFlow, ShellDownloaderFlow, NoTtyFlow, IdleFlow
<1>9. Proper(p, FirstOf(ShellDownloaderFlow(p, e, c, f), NoTtyFlow(p, e, c)))
  BY <1>8, FirstProper
<1> QED
  BY <1>7, <1>8, <1>9, FirstProper DEF evaluate_connect_flow

\* What any kind of event turns into, before the plain observation stands in.
Found(p, e, c, f) ==
    CASE e.type = "EXEC" -> is_suspicious_exec(p, e)
      [] e.type \in {"MPROTECT", "MMAP"} -> MemFinding(p, e)
      [] e.type = "OPENAT" -> OpenFinding(p, e)
      [] e.type = "CONNECT" ->
            FirstOf(evaluate_connect_flow(p, e, c, f), is_suspicious_port(p, e))

\* Whatever the event, evaluate_event chooses a proper finding or falls back to the observation.
LEMMA FoundProper ==
    ASSUME NEW p, IsPolicy(p), NEW e, IsEvent(e), NEW c, NEW f
    PROVE  /\ Proper(p, Found(p, e, c, f))
           /\ evaluate_event(p, e, c, f) = FirstOf(Found(p, e, c, f), Observed)
<1>1. ASSUME NEW x
      PROVE  /\ Proper(p, LastAllowed(p, p.exec_exact, x)) /\ Proper(p, LastAllowed(p, p.exec_prefix, x))
             /\ Proper(p, LastAllowed(p, p.sensitive_read, x))
             /\ Proper(p, LastAllowed(p, p.sensitive_write, x))
             /\ Proper(p, LastAllowed(p, p.suspicious_ports, x))
  <2>1. /\ ListIds(p.exec_exact) \subseteq Ids(p) /\ ListIds(p.exec_prefix) \subseteq Ids(p)
        /\ ListIds(p.sensitive_read) \subseteq Ids(p) /\ ListIds(p.sensitive_write) \subseteq Ids(p)
        /\ ListIds(p.suspicious_ports) \subseteq Ids(p)
    BY DEF Ids
  <2> QED
    BY <2>1, ListProper DEF IsPolicy
<1>2. Proper(p, NothingMatches)
  BY DEF Proper
<1>3. Proper(p, MemFinding(p, e))
  <2>1. ASSUME NEW default \in Severities,
               NEW rule \in {"mem.rwx_mprotect", "mem.exec_mprotect", "mem.rwx_mmap",
                             "mem.anon_exec_mmap"}
        PROVE  Proper(p, Controlled(p, default, rule, 0))
    <3>1. rule \in Ids(p) /\ rule # "<none>" /\ 0 \in 0 .. 95
      BY DEF Ids, MemRules
    <3> QED
      BY <3>1, ControlledProper
  <2>2. WARN \in Severities /\ CRITICAL \in Severities /\ p.anon_exec_mmap_severity \in Severities
    BY DEF WARN, CRITICAL, INFO, Severities, IsPolicy
  <2> QED
    BY <1>2, <2>1, <2>2 DEF MemFinding
<1>4. Proper(p, OpenFinding(p, e))
  BY <1>1, <1>2, FirstProper DEF OpenFinding
<1>5. Proper(p, is_suspicious_exec(p, e))
  BY <1>1, FirstProper DEF is_suspicious_exec
<1>6. Proper(p, FirstOf(evaluate_connect_flow(p, e, c, f), is_suspicious_port(p, e)))
  BY <1>1, FlowProper, FirstProper DEF is_suspicious_port
<1>7. Proper(p, Found(p, e, c, f))
  BY <1>3, <1>4, <1>5, <1>6 DEF Found, IsEvent
<1>8. evaluate_event(p, e, c, f) = FirstOf(Found(p, e, c, f), Observed)
  BY DEF evaluate_event, Found
<1> QED
  BY <1>7, <1>8
-------------------------------------------------------------------------------
(* Which rule a finding can be of.                                           *)

\* A candidate is nothing, or of one of the rules R.
OneOf(R, a) == a = NothingMatches \/ a.rule \in R

\* What a rule list raises is of one of its rules.
LEMMA ListOneOf ==
    ASSUME NEW p, NEW list, IsRuleList(list), NEW x
    PROVE  OneOf(ListIds(list), LastAllowed(p, list, x))
<1>1. ASSUME NEW i \in Hitting(p, list, x),
             LastAllowed(p, list, x) = Controlled(p, list[i].severity, list[i].id, 0)
      PROVE  OneOf(ListIds(list), LastAllowed(p, list, x))
  <2>1. list[i].id \in ListIds(list)
    BY DEF Hitting, ListIds
  <2> QED
    BY <1>1, <2>1, ControlledFields DEF OneOf
<1> QED
  BY <1>1, ScanStops DEF OneOf

\* What the flows raise is of a flow.
LEMMA FlowOneOf ==
    ASSUME NEW p, NEW e, NEW c, NEW f
    PROVE  OneOf(FlowRules, evaluate_connect_flow(p, e, c, f))
<1>1. ASSUME NEW rule \in FlowRules, NEW severity, NEW score
      PROVE  OneOf(FlowRules, Controlled(p, severity, rule, score))
  BY ControlledFields DEF OneOf
<1>2. ASSUME NEW a, NEW b, OneOf(FlowRules, a), OneOf(FlowRules, b)
      PROVE  OneOf(FlowRules, FirstOf(a, b))
  BY <1>2 DEF OneOf, FirstOf
<1>3. OneOf(FlowRules, NothingMatches)
  BY DEF OneOf
<1>4. /\ FLOW_SENSITIVE_READ \in FlowRules /\ FLOW_SHELL_DOWNLOADER \in FlowRules
      /\ FLOW_NO_TTY \in FlowRules /\ FLOW_IDLE \in FlowRules
  BY DEF FlowRules
<1>5. /\ OneOf(FlowRules, SensitiveReadFlow(p, e, c, f))
      /\ OneOf(FlowRules, ShellDownloaderFlow(p, e, c, f))
      /\ OneOf(FlowRules, NoTtyFlow(p, e, c)) /\ OneOf(FlowRules, IdleFlow(p, e, c))
  BY <1>1, <1>3, <1>4 DEF SensitiveReadFlow, ShellDownloaderFlow, NoTtyFlow, IdleFlow
<1> QED
  BY <1>2, <1>3, <1>5 DEF evaluate_connect_flow

\* An event is reported by a rule for events of its kind, or as plainly observed, with a
\* severity the output has a name for.
LEMMA EvaluationRaises ==
    ASSUME NEW p, IsPolicy(p), NEW e, IsEvent(e), NEW c, NEW f
    PROVE  LET finding == evaluate_event(p, e, c, f)
           IN finding.rule \in RulesOf(p, e) /\ finding.severity \in Severities
<1> DEFINE found == Found(p, e, c, f)
<1>1. Proper(p, found) /\ evaluate_event(p, e, c, f) = FirstOf(found, Observed)
  BY FoundProper
<1>2. ASSUME NEW x
      PROVE  /\ OneOf(ListIds(p.exec_exact), LastAllowed(p, p.exec_exact, x))
             /\ OneOf(ListIds(p.exec_prefix), LastAllowed(p, p.exec_prefix, x))
             /\ OneOf(ListIds(p.sensitive_read), LastAllowed(p, p.sensitive_read, x))
             /\ OneOf(ListIds(p.sensitive_write), LastAllowed(p, p.sensitive_write, x))
             /\ OneOf(ListIds(p.suspicious_ports), LastAllowed(p, p.suspicious_ports, x))
  BY ListOneOf DEF IsPolicy
<1>3. OneOf(RulesOf(p, e), found)
  <2>1. CASE e.type = "EXEC"
    BY <1>2, <2>1 DEF Found, is_suspicious_exec, FirstOf, OneOf, RulesOf
  <2>2. CASE e.type \in {"MPROTECT", "MMAP"}
    <3>1. ASSUME NEW rule \in MemRules, NEW severity, NEW score
          PROVE  OneOf(MemRules, Controlled(p, severity, rule, score))
      BY ControlledFields DEF OneOf
    <3>2. OneOf(MemRules, MemFinding(p, e))
      BY <3>1 DEF MemFinding, OneOf, MemRules
    <3> QED
      BY <2>2, <3>2 DEF Found, OneOf, RulesOf
  <2>3. CASE e.type = "OPENAT"
    BY <1>2, <2>3 DEF Found, OpenFinding, FirstOf, OneOf, RulesOf
  <2>4. CASE e.type = "CONNECT"
    BY <1>2, <2>4, FlowOneOf DEF Found, is_suspicious_port, FirstOf, OneOf, RulesOf
  <2> QED
    BY <2>1, <2>2, <2>3, <2>4 DEF IsEvent
<1> HIDE DEF found
<1>4. CASE found = NothingMatches
  BY <1>1, <1>4 DEF FirstOf, RulesOf, Observed, Severities, INFO, CRITICAL
<1>5. CASE found # NothingMatches
  BY <1>1, <1>3, <1>5 DEF FirstOf, OneOf, Proper
<1> QED
  BY <1>4, <1>5

-------------------------------------------------------------------------------
(* Policies of which one is stricter.                                        *)

\* Outcome a is outcome b, at most less severe or scored differently.
Milder(a, b) ==
    /\ a.rule = b.rule /\ a.severity \in Int /\ b.severity \in Int /\ a.severity <= b.severity
    /\ a = NothingMatches <=> b = NothingMatches

\* Milder candidates make a milder choice.
LEMMA FirstMilder ==
    ASSUME NEW a1, NEW b1, Milder(a1, b1), NEW a2, NEW b2, Milder(a2, b2)
    PROVE  Milder(FirstOf(a1, a2), FirstOf(b1, b2))
BY DEF Milder, FirstOf

\* A milder default makes a milder finding, unless an override speaks for both.
LEMMA ControlledMilder ==
    ASSUME NEW p, IsPolicy(p), NEW rule, rule # "<none>", NEW low \in Severities,
           NEW high \in Severities, low <= high, NEW score1, NEW score2
    PROVE  Milder(Controlled(p, low, rule, score1), Controlled(p, high, rule, score2))
<1> DEFINE a == Controlled(p, low, rule, score1)
           b == Controlled(p, high, rule, score2)
<1>1. NothingMatches.severity = INFO /\ NothingMatches.rule = "<none>" /\ INFO \in Int
  BY DEF NothingMatches, INFO
<1>2. CASE rule \in p.disabled
  <2>1. a = NothingMatches /\ b = NothingMatches
    BY <1>2, ControlledFields
  <2> HIDE DEF a, b
  <2>2. Milder(a, b)
    BY <1>1, <2>1 DEF Milder, INFO
  <2> QED
    BY <2>2 DEF a, b
<1>3. CASE rule \notin p.disabled
  <2> DEFINE sa == effective_rule_severity(p, rule, low)
             sb == effective_rule_severity(p, rule, high)
  <2>1. sa \in Int /\ sb \in Int /\ sa <= sb
    BY DEF effective_rule_severity, IsPolicy, Severities, INFO, CRITICAL
  <2>2. a.rule = rule /\ a.severity = sa
    BY <1>3, ControlledFields
  <2>3. b.rule = rule /\ b.severity = sb
    BY <1>3, ControlledFields
  <2> HIDE DEF a, b, sa, sb
  <2>4. Milder(a, b)
    BY <1>1, <2>1, <2>2, <2>3 DEF Milder
  <2> QED
    BY <2>4 DEF a, b
<1> QED
  BY <1>2, <1>3

\* A proper candidate is as mild as itself.
LEMMA ProperMilder ==
    ASSUME NEW p, NEW a, Proper(p, a)
    PROVE  Milder(a, a)
BY DEF Milder, NothingMatches, Proper, Severities, INFO, CRITICAL

\* Policy q is at least as strict as p with event e: fewer programs are exempt from the
\* memory rules, no default is lower, and the rest is the same as far as e can tell.
Stricter(p, q, e) ==
    /\ q.disabled = p.disabled /\ q.override = p.override
    /\ q.exec_prefix = p.exec_prefix /\ q.sensitive_read = p.sensitive_read
    /\ q.sensitive_write = p.sensitive_write /\ q.suspicious_ports = p.suspicious_ports
    /\ q.flow_allow_transfer = p.flow_allow_transfer
    /\ q.user_idle_threshold = p.user_idle_threshold
    /\ q.jit_allow \subseteq p.jit_allow
    /\ p.anon_exec_mmap_severity <= q.anon_exec_mmap_severity
    /\ \A rule \in FlowRules :
          /\ default_flow_rule_severity(p, rule) \in Severities
          /\ default_flow_rule_severity(q, rule) \in Severities
          /\ default_flow_rule_severity(p, rule) <= default_flow_rule_severity(q, rule)
    /\ e.type = "EXEC" =>
          LastAllowed(q, q.exec_exact, e.target) = LastAllowed(p, p.exec_exact, e.target)

\* The controls and the scan of a list come out the same.
LEMMA StricterControls ==
    ASSUME NEW p, NEW q, NEW e, Stricter(p, q, e)
    PROVE  /\ \A default, rule, score :
                  Controlled(q, default, rule, score) = Controlled(p, default, rule, score)
           /\ \A list, x : LastAllowed(q, list, x) = LastAllowed(p, list, x)
<1>1. \A default, rule, score :
         Controlled(q, default, rule, score) = Controlled(p, default, rule, score)
  BY DEF Controlled, rule_id_disabled, effective_rule_severity, Stricter
<1>2. \A list, x : LastAllowed(q, list, x) = LastAllowed(p, list, x)
  BY <1>1 DEF LastAllowed, rule_id_disabled, Stricter
<1> QED
  BY <1>1, <1>2

\* A stricter policy makes no flow milder.
LEMMA StricterFlows ==
    ASSUME NEW p, IsPolicy(p), NEW q, NEW e, NEW c, NEW f, Stricter(p, q, e)
    PROVE  Milder(evaluate_connect_flow(p, e, c, f), evaluate_connect_flow(q, e, c, f))
<1>1. Milder(NothingMatches, NothingMatches)
  BY DEF Milder, NothingMatches, INFO
<1>2. \A default, rule, score :
         Controlled(q, default, rule, score) = Controlled(p, default, rule, score)
  BY StricterControls
<1>3. /\ flow_transfer_allowlisted(q, e, c) <=> flow_transfer_allowlisted(p, e, c)
      /\ IdleFlowApplies(q, c) <=> IdleFlowApplies(p, c)
  BY DEF flow_transfer_allowlisted, IdleFlowApplies, UserIdle, Stricter
<1>4. \A rule \in FlowRules : rule # "<none>"
  BY DEF FlowRules, FLOW_SENSITIVE_READ, FLOW_SHELL_DOWNLOADER, FLOW_NO_TTY, FLOW_IDLE
<1>5. ASSUME NEW rule \in FlowRules, NEW score1, NEW score2
      PROVE  Milder(Controlled(p, default_flow_rule_severity(p, rule), rule, score1),
                    Controlled(q, default_flow_rule_severity(q, rule), rule, score2))
  BY <1>2, <1>4, ControlledMilder DEF Stricter
<1>6. ASSUME NEW rule \in FlowRules, NEW score
      PROVE  Milder(Controlled(p, INFO, rule, score), Controlled(q, INFO, rule, score))
  <2>1. INFO \in Severities /\ INFO <= INFO
    BY DEF Severities, INFO, CRITICAL
  <2> QED
    BY <1>2, <1>4, <2>1, ControlledMilder
<1>7. /\ FLOW_SENSITIVE_READ \in FlowRules /\ FLOW_SHELL_DOWNLOADER \in FlowRules
      /\ FLOW_NO_TTY \in FlowRules /\ FLOW_IDLE \in FlowRules
  BY DEF FlowRules
<1>8. Milder(SensitiveReadFlow(p, e, c, f), SensitiveReadFlow(q, e, c, f))
  BY <1>1, <1>5, <1>7 DEF SensitiveReadFlow
<1>9. Milder(ShellDownloaderFlow(p, e, c, f), ShellDownloaderFlow(q, e, c, f))
  BY <1>1, <1>5, <1>7 DEF ShellDownloaderFlow
<1>10. Milder(IdleFlow(p, e, c), IdleFlow(q, e, c))
  BY <1>3, <1>5, <1>6, <1>7 DEF IdleFlow
<1>11. Milder(NoTtyFlow(p, e, c), NoTtyFlow(q, e, c))
  BY <1>1, <1>3, <1>5, <1>6, <1>7 DEF NoTtyFlow
<1>12. Milder(FirstOf(ShellDownloaderFlow(p, e, c, f), NoTtyFlow(p, e, c)),
              FirstOf(ShellDownloaderFlow(q, e, c, f), NoTtyFlow(q, e, c)))
  BY <1>9, <1>11, FirstMilder
<1> DEFINE rest(r) == IF IdleFlowApplies(r, c) THEN IdleFlow(r, e, c)
                      ELSE FirstOf(ShellDownloaderFlow(r, e, c, f), NoTtyFlow(r, e, c))
<1>13. Milder(rest(p), rest(q))
  BY <1>3, <1>10, <1>12
<1> HIDE DEF rest
<1>14. Milder(FirstOf(SensitiveReadFlow(p, e, c, f), rest(p)),
              FirstOf(SensitiveReadFlow(q, e, c, f), rest(q)))
  BY <1>8, <1>13, FirstMilder
<1> QED
  BY <1>1, <1>14 DEF evaluate_connect_flow, rest

\* Nor any finding of a memory rule, unless its program was exempt.
LEMMA StricterMemory ==
    ASSUME NEW p, IsPolicy(p), NEW q, IsPolicy(q), NEW e, Stricter(p, q, e)
    PROVE  MemFinding(p, e) = NothingMatches \/ Milder(MemFinding(p, e), MemFinding(q, e))
<1>1. \A default, rule, score :
         Controlled(q, default, rule, score) = Controlled(p, default, rule, score)
  BY StricterControls
<1>2. comm_allowed_for_jit(q, e.comm) => comm_allowed_for_jit(p, e.comm)
  BY DEF comm_allowed_for_jit, Stricter
<1>3. Milder(NothingMatches, NothingMatches)
  BY DEF Milder, NothingMatches, INFO
<1>4. ASSUME NEW rule \in MemRules, NEW low \in Severities, NEW high \in Severities, low <= high
      PROVE  Milder(Controlled(p, low, rule, 0), Controlled(q, high, rule, 0))
  <2>1. rule # "<none>"
    BY DEF MemRules
  <2> QED
    BY <1>1, <1>4, <2>1, ControlledMilder
<1>5. /\ WARN \in Severities /\ CRITICAL \in Severities /\ WARN <= WARN /\ CRITICAL <= CRITICAL
      /\ p.anon_exec_mmap_severity \in Severities /\ q.anon_exec_mmap_severity \in Severities
      /\ p.anon_exec_mmap_severity <= q.anon_exec_mmap_severity
  BY DEF WARN, CRITICAL, INFO, Severities, IsPolicy, Stricter
<1>6. /\ "mem.rwx_mprotect" \in MemRules /\ "mem.exec_mprotect" \in MemRules
      /\ "mem.rwx_mmap" \in MemRules /\ "mem.anon_exec_mmap" \in MemRules
  BY DEF MemRules
<1>7. /\ Milder(Controlled(p, CRITICAL, "mem.rwx_mprotect", 0), Controlled(q, CRITICAL, "mem.rwx_mprotect", 0))
      /\ Milder(Controlled(p, WARN, "mem.exec_mprotect", 0), Controlled(q, WARN, "mem.exec_mprotect", 0))
      /\ Milder(Controlled(p, CRITICAL, "mem.rwx_mmap", 0), Controlled(q, CRITICAL, "mem.rwx_mmap", 0))
      /\ Milder(Controlled(p, p.anon_exec_mmap_severity, "mem.anon_exec_mmap", 0),
                Controlled(q, q.anon_exec_mmap_severity, "mem.anon_exec_mmap", 0))
  BY <1>4, <1>5, <1>6
<1>8. CASE "EXEC" \notin e.prot \/ comm_allowed_for_jit(p, e.comm)
  BY <1>8 DEF MemFinding
<1>9. CASE ~("EXEC" \notin e.prot \/ comm_allowed_for_jit(p, e.comm))
  BY <1>2, <1>3, <1>7, <1>9 DEF MemFinding
<1> QED
  BY <1>8, <1>9

\* A stricter policy reports no event as less severe.
LEMMA StricterReports ==
    ASSUME NEW p, IsPolicy(p), NEW q, IsPolicy(q), NEW e, IsEvent(e), NEW c, NEW f, Stricter(p, q, e)
    PROVE  evaluate_event(p, e, c, f).severity <= evaluate_event(q, e, c, f).severity
<1> DEFINE a == Found(p, e, c, f)
           b == Found(q, e, c, f)
<1>1. /\ Proper(p, a) /\ evaluate_event(p, e, c, f) = FirstOf(a, Observed)
      /\ Proper(q, b) /\ evaluate_event(q, e, c, f) = FirstOf(b, Observed)
  BY FoundProper
<1>2. \A list, x : LastAllowed(q, list, x) = LastAllowed(p, list, x)
  BY StricterControls
<1>3. a = NothingMatches \/ Milder(a, b)
  <2>1. CASE e.type = "EXEC"
    <3>1. is_suspicious_exec(q, e) = is_suspicious_exec(p, e)
      BY <1>2, <2>1 DEF is_suspicious_exec, Stricter
    <3>2. a = b
      BY <2>1, <3>1 DEF Found
    <3> QED
      BY <1>1, <3>2, ProperMilder
  <2>2. CASE e.type \in {"MPROTECT", "MMAP"}
    <3>1. a = MemFinding(p, e) /\ b = MemFinding(q, e)
      BY <2>2 DEF Found
    <3> QED
      BY <3>1, StricterMemory
  <2>3. CASE e.type = "OPENAT"
    <3>1. a = b
      BY <1>2, <2>3 DEF Found, OpenFinding, Stricter
    <3> QED
      BY <1>1, <3>1, ProperMilder
  <2>4. CASE e.type = "CONNECT"
    <3>1. is_suspicious_port(q, e) = is_suspicious_port(p, e)
      BY <1>2 DEF is_suspicious_port, Stricter
    <3>2. Milder(is_suspicious_port(p, e), is_suspicious_port(q, e))
      <4>1. ListIds(p.suspicious_ports) \subseteq Ids(p)
        BY DEF Ids
      <4>2. Proper(p, is_suspicious_port(p, e))
        BY <4>1, ListProper DEF is_suspicious_port, IsPolicy
      <4> QED
        BY <3>1, <4>2, ProperMilder
    <3>3. /\ a = FirstOf(evaluate_connect_flow(p, e, c, f), is_suspicious_port(p, e))
          /\ b = FirstOf(evaluate_connect_flow(q, e, c, f), is_suspicious_port(q, e))
      BY <2>4 DEF Found
    <3> QED
      BY <3>2, <3>3, StricterFlows, FirstMilder
  <2> QED
    BY <2>1, <2>2, <2>3, <2>4 DEF IsEvent
<1> HIDE DEF a, b
<1>4. Observed.severity = 0 /\ (b # NothingMatches => b.severity \in 0 .. 2)
  BY <1>1 DEF Proper, Severities, Observed, INFO, CRITICAL
<1>5. CASE a = NothingMatches
  <2>1. FirstOf(a, Observed).severity = 0 /\ FirstOf(b, Observed).severity \in 0 .. 2
    BY <1>4, <1>5 DEF FirstOf
  <2> QED
    BY <1>1, <2>1
<1>6. CASE a # NothingMatches /\ Milder(a, b)
  <2>1. FirstOf(a, Observed) = a /\ FirstOf(b, Observed) = b /\ a.severity <= b.severity
    BY <1>6 DEF FirstOf, Milder
  <2> QED
    BY <1>1, <2>1
<1> QED
  BY <1>3, <1>5, <1>6
===============================================================================
