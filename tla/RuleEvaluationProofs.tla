------------------------- MODULE RuleEvaluationProofs -------------------------
(***************************************************************************)
(* What the rule controls, the allowlist and the flows may change in a     *)
(* finding, for every policy a configuration can produce and every event   *)
(* in every context.                                                       *)
(***************************************************************************)
EXTENDS RuleEvaluation, DetectionProofs, SequenceTheorems, TLAPS

-------------------------------------------------------------------------------
(* Disabling one more rule.                                                  *)

\* Policy q is policy p with rule id disabled as well.
DisablesAlso(p, q, id) ==
    /\ q.disabled = p.disabled \cup {id}
    /\ q.profile = p.profile /\ q.override = p.override
    /\ q.exec_exact = p.exec_exact /\ q.exec_prefix = p.exec_prefix
    /\ q.sensitive_read = p.sensitive_read /\ q.sensitive_write = p.sensitive_write
    /\ q.suspicious_ports = p.suspicious_ports /\ q.jit_allow = p.jit_allow
    /\ q.flow_allow_transfer = p.flow_allow_transfer
    /\ q.anon_exec_mmap_severity = p.anon_exec_mmap_severity
    /\ q.user_idle_threshold = p.user_idle_threshold

\* Outcome b is outcome a without the finding of rule id.
Exact(a, b, id) == IF id = a.rule THEN b.rule # id ELSE b = a

\* One more disabled rule is all that the changed policy differs in.
LEMMA Disabling ==
    ASSUME NEW p, IsPolicy(p), NEW id
    PROVE  DisablesAlso(p, [p EXCEPT !.disabled = @ \cup {id}], id)
BY DEF IsPolicy, DisablesAlso

\* The first of two candidates is as exact as the candidates are.
LEMMA FirstExact ==
    ASSUME NEW id, id # "<none>", NEW a1, NEW b1, Exact(a1, b1, id), NEW a2, NEW b2, Exact(a2, b2, id)
    PROVE  Exact(FirstOf(a1, a2), FirstOf(b1, b2), id)
<1>1. NothingMatches.rule = "<none>"
  BY DEF NothingMatches
<1>2. CASE a1 = NothingMatches
  BY <1>1, <1>2 DEF Exact, FirstOf
<1>3. CASE a1 # NothingMatches
  BY <1>3 DEF Exact, FirstOf
<1> QED
  BY <1>2, <1>3

\* make_controlled_finding drops the finding of the disabled rule and no other.
LEMMA ControlledExact ==
    ASSUME NEW p, NEW q, NEW id, id # "<none>", DisablesAlso(p, q, id),
           NEW default, NEW rule, NEW score
    PROVE  Exact(Controlled(p, default, rule, score), Controlled(q, default, rule, score), id)
<1>1. NothingMatches.rule = "<none>"
  BY DEF NothingMatches
<1>2. q.disabled = p.disabled \cup {id} /\ q.override = p.override
  BY DEF DisablesAlso
<1>3. CASE rule \in p.disabled
  <2>1. Controlled(p, default, rule, score) = NothingMatches
    BY <1>3 DEF Controlled, rule_id_disabled
  <2>2. Controlled(q, default, rule, score) = NothingMatches
    BY <1>2, <1>3 DEF Controlled, rule_id_disabled
  <2> QED
    BY <1>1, <2>1, <2>2 DEF Exact
<1>4. CASE rule \notin p.disabled
  <2> DEFINE a == [rule |-> rule, severity |-> effective_rule_severity(p, rule, default),
                   score |-> score]
  <2>1. Controlled(p, default, rule, score) = a /\ a.rule = rule
    BY <1>4 DEF Controlled, rule_id_disabled
  <2>2. Controlled(q, default, rule, score) = IF rule = id THEN NothingMatches ELSE a
    BY <1>2, <1>4 DEF Controlled, rule_id_disabled, effective_rule_severity
  <2> HIDE DEF a
  <2> QED
    BY <1>1, <2>1, <2>2 DEF Exact
<1> QED
  BY <1>3, <1>4

\* A rule list falls back to the last rule before that hits.
LEMMA ListExact ==
    ASSUME NEW p, NEW q, NEW id, id # "<none>", DisablesAlso(p, q, id),
           NEW list, IsRuleList(list), NEW x
    PROVE  Exact(LastAllowed(p, list, x), LastAllowed(q, list, x), id)
<1>1. NothingMatches.rule = "<none>"
  BY DEF NothingMatches
<1>2. Hitting(q, list, x) = {i \in Hitting(p, list, x) : list[i].id # id}
  BY DEF Hitting, rule_id_disabled, DisablesAlso
<1>3. CASE Hitting(p, list, x) = {}
  <2>1. LastAllowed(p, list, x) = NothingMatches /\ LastAllowed(q, list, x) = NothingMatches
    BY <1>2, <1>3, ScanStops
  <2> QED
    BY <1>1, <2>1 DEF Exact
<1>4. CASE Hitting(p, list, x) # {}
  <2>1. PICK i \in Hitting(p, list, x) :
           /\ \A j \in Hitting(p, list, x) : j <= i
           /\ LastAllowed(p, list, x) = Controlled(p, list[i].severity, list[i].id, 0)
    BY <1>4, ScanStops
  <2>2. LastAllowed(p, list, x).rule = list[i].id
    BY <2>1, ControlledFields DEF Hitting, rule_id_disabled
  <2>3. CASE list[i].id = id
    <3>1. ASSUME NEW j \in Hitting(q, list, x),
                 LastAllowed(q, list, x) = Controlled(q, list[j].severity, list[j].id, 0)
          PROVE  LastAllowed(q, list, x).rule # id
      <4>1. list[j].id # id /\ list[j].id \notin q.disabled
        BY <1>2 DEF Hitting, rule_id_disabled
      <4> QED
        BY <3>1, <4>1, ControlledFields
    <3>2. LastAllowed(q, list, x).rule # id
      BY <1>1, <3>1, ScanStops
    <3> QED
      BY <2>2, <2>3, <3>2 DEF Exact
  <2>4. CASE list[i].id # id
    <3>1. i \in Hitting(q, list, x) /\ \A j \in Hitting(q, list, x) : j <= i
      BY <1>2, <2>1, <2>4
    <3>2. PICK j \in Hitting(q, list, x) :
             /\ \A k \in Hitting(q, list, x) : k <= j
             /\ LastAllowed(q, list, x) = Controlled(q, list[j].severity, list[j].id, 0)
      BY <3>1, ScanStops
    <3>3. i = j
      <4>1. i \in Nat /\ j \in Nat /\ i <= j /\ j <= i
        BY <3>1, <3>2 DEF Hitting, IsRuleList
      <4> QED
        BY <4>1
    <3>4. LastAllowed(q, list, x) = LastAllowed(p, list, x)
      <4>1. Controlled(q, list[i].severity, list[i].id, 0)
               = Controlled(p, list[i].severity, list[i].id, 0)
        BY <2>4 DEF Controlled, rule_id_disabled, effective_rule_severity, DisablesAlso
      <4> QED
        BY <2>1, <3>2, <3>3, <4>1
    <3> QED
      BY <2>2, <2>4, <3>4 DEF Exact
  <2> QED
    BY <2>3, <2>4
<1> QED
  BY <1>3, <1>4

\* The compiled memory rules are exact.
LEMMA MemExact ==
    ASSUME NEW p, NEW q, NEW id, id # "<none>", DisablesAlso(p, q, id), NEW e
    PROVE  Exact(MemFinding(p, e), MemFinding(q, e), id)
<1>1. NothingMatches.rule = "<none>"
  BY DEF NothingMatches
<1>2. comm_allowed_for_jit(q, e.comm) <=> comm_allowed_for_jit(p, e.comm)
  BY DEF comm_allowed_for_jit, DisablesAlso
<1>3. q.anon_exec_mmap_severity = p.anon_exec_mmap_severity
  BY DEF DisablesAlso
<1>4. Exact(NothingMatches, NothingMatches, id)
  BY <1>1 DEF Exact
<1>5. /\ Exact(Controlled(p, CRITICAL, "mem.rwx_mprotect", 0),
               Controlled(q, CRITICAL, "mem.rwx_mprotect", 0), id)
      /\ Exact(Controlled(p, WARN, "mem.exec_mprotect", 0),
               Controlled(q, WARN, "mem.exec_mprotect", 0), id)
      /\ Exact(Controlled(p, CRITICAL, "mem.rwx_mmap", 0),
               Controlled(q, CRITICAL, "mem.rwx_mmap", 0), id)
      /\ Exact(Controlled(p, p.anon_exec_mmap_severity, "mem.anon_exec_mmap", 0),
               Controlled(q, p.anon_exec_mmap_severity, "mem.anon_exec_mmap", 0), id)
  BY ControlledExact
<1> QED
  BY <1>2, <1>3, <1>4, <1>5 DEF MemFinding

\* The open rules are exact: a disabled write rule leaves the read rules in place.
LEMMA OpenExact ==
    ASSUME NEW p, NEW q, NEW id, id # "<none>", DisablesAlso(p, q, id), IsPolicy(p), NEW e
    PROVE  Exact(OpenFinding(p, e), OpenFinding(q, e), id)
<1> DEFINE w(r) == IF opens_for_write(e.flags)
                   THEN LastAllowed(r, r.sensitive_write, e.target) ELSE NothingMatches
           d(r) == LastAllowed(r, r.sensitive_read, e.target)
<1>1. q.sensitive_write = p.sensitive_write /\ q.sensitive_read = p.sensitive_read
  BY DEF DisablesAlso
<1>2. Exact(NothingMatches, NothingMatches, id)
  BY DEF Exact, NothingMatches
<1>3. /\ Exact(LastAllowed(p, p.sensitive_write, e.target),
               LastAllowed(q, q.sensitive_write, e.target), id)
      /\ Exact(d(p), d(q), id)
  BY <1>1, ListExact DEF IsPolicy
<1>4. Exact(w(p), w(q), id)
  BY <1>2, <1>3
<1> HIDE DEF w, d
<1>5. Exact(FirstOf(w(p), d(p)), FirstOf(w(q), d(q)), id)
  BY <1>3, <1>4, FirstExact
<1> QED
  BY <1>5 DEF OpenFinding, w, d

\* The flows are exact: a flow that is disabled leaves those behind it in place, save
\* for the idle flow, which ends the evaluation of flows either way.
LEMMA FlowExact ==
    ASSUME NEW p, NEW q, NEW id, id # "<none>", DisablesAlso(p, q, id), NEW e, NEW c, NEW f
    PROVE  Exact(evaluate_connect_flow(p, e, c, f), evaluate_connect_flow(q, e, c, f), id)
<1>1. /\ q.profile = p.profile /\ q.flow_allow_transfer = p.flow_allow_transfer
      /\ q.user_idle_threshold = p.user_idle_threshold
  BY DEF DisablesAlso
<1>2. Exact(NothingMatches, NothingMatches, id)
  BY DEF Exact, NothingMatches
<1>3. /\ \A rule : default_flow_rule_severity(q, rule) = default_flow_rule_severity(p, rule)
      /\ \A rule, suspicious : default_flow_rule_score(q, rule, suspicious)
                                  = default_flow_rule_score(p, rule, suspicious)
  BY <1>1 DEF default_flow_rule_severity, default_flow_rule_score
<1>4. flow_transfer_allowlisted(q, e, c) <=> flow_transfer_allowlisted(p, e, c)
  BY <1>1 DEF flow_transfer_allowlisted
<1>5. IdleFlowApplies(q, c) <=> IdleFlowApplies(p, c)
  BY <1>1 DEF IdleFlowApplies, UserIdle
<1>6. \A rule, severity, score :
         Exact(Controlled(p, severity, rule, score), Controlled(q, severity, rule, score), id)
  BY ControlledExact
<1>7. Exact(SensitiveReadFlow(p, e, c, f), SensitiveReadFlow(q, e, c, f), id)
  BY <1>2, <1>3, <1>6 DEF SensitiveReadFlow
<1>8. Exact(IdleFlow(p, e, c), IdleFlow(q, e, c), id)
  BY <1>3, <1>4, <1>6 DEF IdleFlow
<1>9. Exact(ShellDownloaderFlow(p, e, c, f), ShellDownloaderFlow(q, e, c, f), id)
  BY <1>2, <1>3, <1>6 DEF ShellDownloaderFlow
<1>10. Exact(NoTtyFlow(p, e, c), NoTtyFlow(q, e, c), id)
  BY <1>2, <1>3, <1>4, <1>6 DEF NoTtyFlow
<1>11. Exact(FirstOf(ShellDownloaderFlow(p, e, c, f), NoTtyFlow(p, e, c)),
             FirstOf(ShellDownloaderFlow(q, e, c, f), NoTtyFlow(q, e, c)), id)
  BY <1>9, <1>10, FirstExact
<1> DEFINE rest(r) == IF IdleFlowApplies(r, c) THEN IdleFlow(r, e, c)
                      ELSE FirstOf(ShellDownloaderFlow(r, e, c, f), NoTtyFlow(r, e, c))
<1>12. Exact(rest(p), rest(q), id)
  BY <1>5, <1>8, <1>11
<1> HIDE DEF rest
<1>13. Exact(FirstOf(SensitiveReadFlow(p, e, c, f), rest(p)),
             FirstOf(SensitiveReadFlow(q, e, c, f), rest(q)), id)
  BY <1>7, <1>12, FirstExact
<1> QED
  BY <1>2, <1>13 DEF evaluate_connect_flow, rest

\* So is the whole evaluation of an event.
LEMMA EvaluationExact ==
    ASSUME NEW p, NEW q, NEW id, id # "<none>", id # Observed.rule,
           DisablesAlso(p, q, id), IsPolicy(p), NEW e, IsEvent(e), NEW c, NEW f
    PROVE  Exact(evaluate_event(p, e, c, f), evaluate_event(q, e, c, f), id)
<1>1. Exact(Observed, Observed, id)
  BY DEF Exact
<1>2. /\ q.exec_exact = p.exec_exact /\ q.exec_prefix = p.exec_prefix
      /\ q.suspicious_ports = p.suspicious_ports
  BY DEF DisablesAlso
<1>3. Exact(is_suspicious_exec(p, e), is_suspicious_exec(q, e), id)
  <2>1. /\ Exact(LastAllowed(p, p.exec_exact, e.target),
                 LastAllowed(q, q.exec_exact, e.target), id)
        /\ Exact(LastAllowed(p, p.exec_prefix, e.target),
                 LastAllowed(q, q.exec_prefix, e.target), id)
    BY <1>2, ListExact DEF IsPolicy
  <2> QED
    BY <2>1, FirstExact DEF is_suspicious_exec
<1>4. Exact(MemFinding(p, e), MemFinding(q, e), id)
  BY MemExact
<1>5. Exact(OpenFinding(p, e), OpenFinding(q, e), id)
  BY OpenExact
<1>6. Exact(is_suspicious_port(p, e), is_suspicious_port(q, e), id)
  BY <1>2, ListExact DEF IsPolicy, is_suspicious_port
<1>7. Exact(FirstOf(evaluate_connect_flow(p, e, c, f), is_suspicious_port(p, e)),
            FirstOf(evaluate_connect_flow(q, e, c, f), is_suspicious_port(q, e)), id)
  BY <1>6, FlowExact, FirstExact
<1>8. Exact(Found(p, e, c, f), Found(q, e, c, f), id)
  BY <1>3, <1>4, <1>5, <1>7 DEF IsEvent, Found
<1>9. Exact(FirstOf(Found(p, e, c, f), Observed), FirstOf(Found(q, e, c, f), Observed), id)
  BY <1>1, <1>8, FirstExact
<1> QED
  BY <1>9 DEF evaluate_event, Found

-------------------------------------------------------------------------------
(* The allowlist and the override that stands in for it.                     *)

\* Policies that agree but for the allowlist and the overrides of PresenceFlows: q allows
\* nothing, and where lowers holds it has an override to info for those that p has none for.
Twins(p, q, lowers) ==
    /\ q.disabled = p.disabled /\ q.profile = p.profile
    /\ q.suspicious_ports = p.suspicious_ports
    /\ q.user_idle_threshold = p.user_idle_threshold /\ q.flow_allow_transfer = {}
    /\ \A rule, default :
          effective_rule_severity(q, rule, default)
             = effective_rule_severity(p, rule, IF lowers /\ rule \in PresenceFlows
                                                THEN INFO ELSE default)

\* The policies the property compares are twins.
LEMMA LoweredIsTwin ==
    ASSUME NEW p, IsPolicy(p)
    PROVE  /\ Twins(p, Lowered(p), TRUE)
           /\ Twins(p, [p EXCEPT !.flow_allow_transfer = {}], FALSE)
<1> DEFINE q == Lowered(p)
           bare == [p EXCEPT !.flow_allow_transfer = {}]
           o == [id \in DOMAIN p.override \cup PresenceFlows |->
                    IF id \in DOMAIN p.override THEN p.override[id] ELSE INFO]
<1>1. /\ q.override = o /\ q.disabled = p.disabled /\ q.profile = p.profile
      /\ q.suspicious_ports = p.suspicious_ports
      /\ q.user_idle_threshold = p.user_idle_threshold /\ q.flow_allow_transfer = {}
  BY DEF Lowered, IsPolicy
<1>2. /\ bare.override = p.override /\ bare.disabled = p.disabled /\ bare.profile = p.profile
      /\ bare.suspicious_ports = p.suspicious_ports
      /\ bare.user_idle_threshold = p.user_idle_threshold /\ bare.flow_allow_transfer = {}
  BY DEF IsPolicy
<1>3. ASSUME NEW rule, NEW default
      PROVE  effective_rule_severity(q, rule, default)
                = effective_rule_severity(p, rule, IF rule \in PresenceFlows THEN INFO ELSE default)
  <2>1. DOMAIN o = DOMAIN p.override \cup PresenceFlows
    OBVIOUS
  <2>2. rule \in DOMAIN p.override => o[rule] = p.override[rule]
    OBVIOUS
  <2>3. rule \in PresenceFlows /\ rule \notin DOMAIN p.override => o[rule] = INFO
    OBVIOUS
  <2> HIDE DEF o, q
  <2> QED
    BY <1>1, <2>1, <2>2, <2>3 DEF effective_rule_severity
<1> HIDE DEF q, bare
<1>4. Twins(p, q, TRUE)
  BY <1>1, <1>3 DEF Twins
<1>5. Twins(p, bare, FALSE)
  BY <1>2 DEF Twins, effective_rule_severity
<1> QED
  BY <1>4, <1>5 DEF q, bare

\* Outcomes of the same rule and severity; a flow the allowlist lowers scores less.
Alike(lowers, a, b) ==
    /\ a = NothingMatches <=> b = NothingMatches
    /\ a.rule = b.rule /\ a.severity = b.severity
    /\ IF lowers /\ a.rule \in PresenceFlows THEN a.score < b.score ELSE a.score = b.score

\* Alike candidates make an alike choice.
LEMMA FirstAlike ==
    ASSUME NEW lowers, NEW a1, NEW b1, Alike(lowers, a1, b1), NEW a2, NEW b2, Alike(lowers, a2, b2)
    PROVE  Alike(lowers, FirstOf(a1, a2), FirstOf(b1, b2))
BY DEF Alike, FirstOf

\* What raises the same outside PresenceFlows is alike.
LEMMA SameAlike ==
    ASSUME NEW lowers, NEW a, a.rule \notin PresenceFlows
    PROVE  Alike(lowers, a, a)
BY DEF Alike

\* Nothing and the plain observation are of no flow.
LEMMA NoFlowAlike ==
    ASSUME NEW lowers
    PROVE  Alike(lowers, NothingMatches, NothingMatches) /\ Alike(lowers, Observed, Observed)
BY SameAlike DEF NothingMatches, Observed, PresenceFlows, FLOW_NO_TTY, FLOW_IDLE

\* The controls do the same for a rule outside PresenceFlows ...
LEMMA TwinControlled ==
    ASSUME NEW p, NEW q, NEW lowers, Twins(p, q, lowers), NEW default, NEW rule, NEW score,
           rule \notin PresenceFlows
    PROVE  Controlled(q, default, rule, score) = Controlled(p, default, rule, score)
BY DEF Twins, Controlled, rule_id_disabled

\* ... and for one of them, what the allowlist does under p.
LEMMA TwinPresence ==
    ASSUME NEW p, IsPolicy(p), NEW q, NEW lowers \in BOOLEAN, Twins(p, q, lowers),
           NEW rule \in PresenceFlows, NEW score \in {20, 30}
    PROVE  Alike(lowers,
                 IF lowers THEN Controlled(p, INFO, rule, score)
                 ELSE Controlled(p, default_flow_rule_severity(p, rule), rule,
                                 default_flow_rule_score(p, rule, FALSE)),
                 Controlled(q, default_flow_rule_severity(q, rule), rule,
                            default_flow_rule_score(q, rule, FALSE)))
<1> DEFINE severity == default_flow_rule_severity(p, rule)
           full == default_flow_rule_score(p, rule, FALSE)
           a == IF lowers THEN Controlled(p, INFO, rule, score) ELSE Controlled(p, severity, rule, full)
           b == Controlled(q, severity, rule, full)
<1>1. default_flow_rule_severity(q, rule) = severity /\ default_flow_rule_score(q, rule, FALSE) = full
  BY DEF Twins, default_flow_rule_severity, default_flow_rule_score
<1>2. full \in 40 .. 95
  <2>1. p.profile \in Profiles
    BY DEF IsPolicy
  <2> QED
    BY <2>1 DEF default_flow_rule_score, PresenceFlows, FLOW_SENSITIVE_READ,
       FLOW_SHELL_DOWNLOADER, FLOW_NO_TTY, FLOW_IDLE, Profiles
<1>3. score < full
  <2> HIDE DEF full
  <2> QED
    BY <1>2
<1>4. rule # "<none>"
  BY DEF PresenceFlows, FLOW_NO_TTY, FLOW_IDLE
<1> HIDE DEF full, severity
<1>5. CASE rule \in p.disabled
  <2>1. a = NothingMatches /\ b = NothingMatches
    BY <1>5, ControlledFields DEF Twins
  <2> HIDE DEF a, b
  <2>2. Alike(lowers, a, b)
    BY <2>1, NoFlowAlike
  <2> QED
    BY <1>1, <2>2 DEF a, b, severity, full
<1>6. CASE rule \notin p.disabled
  <2>1. /\ b.rule = rule /\ b.score = full
        /\ b.severity = effective_rule_severity(q, rule, severity)
    BY <1>6, ControlledFields DEF Twins
  <2>2. /\ a.rule = rule /\ a.score = IF lowers THEN score ELSE full
        /\ a.severity = effective_rule_severity(p, rule, IF lowers THEN INFO ELSE severity)
    BY <1>6, ControlledFields
  <2>3. effective_rule_severity(q, rule, severity)
           = effective_rule_severity(p, rule, IF lowers THEN INFO ELSE severity)
    BY DEF Twins
  <2> HIDE DEF a, b
  <2>4. Alike(lowers, a, b)
    BY <1>3, <1>4, <2>1, <2>2, <2>3 DEF Alike, NothingMatches
  <2> QED
    BY <1>1, <2>4 DEF a, b, severity, full
<1> QED
  BY <1>5, <1>6

\* The port rules come out the same.
LEMMA TwinPort ==
    ASSUME NEW p, IsPolicy(p), NEW q, NEW lowers, Twins(p, q, lowers), NEW e,
           PresenceFlows \cap ListIds(p.suspicious_ports) = {}
    PROVE  Alike(lowers, is_suspicious_port(p, e), is_suspicious_port(q, e))
<1> DEFINE list == p.suspicious_ports
           H(r) == Hitting(r, list, e.port)
<1>1. IsRuleList(list) /\ H(q) = H(p)
  BY DEF IsPolicy, Hitting, rule_id_disabled, Twins
<1>2. /\ is_suspicious_port(p, e) = LastAllowed(p, list, e.port)
      /\ is_suspicious_port(q, e) = LastAllowed(q, list, e.port)
  BY DEF is_suspicious_port, Twins
<1>3. CASE H(p) = {}
  <2>1. is_suspicious_port(p, e) = NothingMatches /\ is_suspicious_port(q, e) = NothingMatches
    BY <1>1, <1>2, <1>3, ScanStops
  <2> QED
    BY <2>1, NoFlowAlike
<1>4. CASE H(p) # {}
  <2>1. PICK i \in H(p) : /\ \A k \in H(p) : k <= i
                          /\ is_suspicious_port(p, e) = Controlled(p, list[i].severity, list[i].id, 0)
    BY <1>1, <1>2, <1>4, ScanStops
  <2>2. PICK j \in H(q) : /\ \A k \in H(q) : k <= j
                          /\ is_suspicious_port(q, e) = Controlled(q, list[j].severity, list[j].id, 0)
    BY <1>1, <1>2, <1>4, ScanStops
  <2>3. i \in Nat /\ j \in Nat /\ i <= j /\ j <= i
    BY <1>1, <2>1, <2>2 DEF Hitting, IsRuleList
  <2>4. list[i].id \notin PresenceFlows /\ list[i].id \notin p.disabled
    BY <2>1 DEF Hitting, ListIds, rule_id_disabled
  <2>5. is_suspicious_port(q, e) = is_suspicious_port(p, e)
    <3>1. i = j
      BY <2>3
    <3> QED
      BY <2>1, <2>2, <2>4, <3>1, TwinControlled
  <2>6. is_suspicious_port(p, e).rule \notin PresenceFlows
    BY <2>1, <2>4, ControlledFields
  <2> QED
    BY <2>5, <2>6, SameAlike
<1> QED
  BY <1>3, <1>4

\* A connect is alike under the two policies.
LEMMA AllowlistAlike ==
    ASSUME NEW p, IsPolicy(p), NEW e, e.type = "CONNECT", NEW c, NEW f, NEW q,
           Twins(p, q, flow_transfer_allowlisted(p, e, c)),
           PresenceFlows \cap ListIds(p.suspicious_ports) = {}
    PROVE  Alike(flow_transfer_allowlisted(p, e, c), evaluate_event(p, e, c, f),
                 evaluate_event(q, e, c, f))
<1> DEFINE lowers == flow_transfer_allowlisted(p, e, c)
<1>1. /\ lowers \in BOOLEAN
      /\ ~flow_transfer_allowlisted(q, e, c)
      /\ IdleFlowApplies(q, c) <=> IdleFlowApplies(p, c)
  BY DEF flow_transfer_allowlisted, IdleFlowApplies, UserIdle, Twins
<1>2. /\ \A rule : default_flow_rule_severity(q, rule) = default_flow_rule_severity(p, rule)
      /\ \A rule, suspicious : default_flow_rule_score(q, rule, suspicious)
                                  = default_flow_rule_score(p, rule, suspicious)
  BY DEF default_flow_rule_severity, default_flow_rule_score, Twins
<1>3. ASSUME NEW rule \in {FLOW_SENSITIVE_READ, FLOW_SHELL_DOWNLOADER}, NEW default, NEW score
      PROVE  Alike(lowers, Controlled(p, default, rule, score), Controlled(q, default, rule, score))
  <2>1. rule \notin PresenceFlows
    BY DEF PresenceFlows, FLOW_SENSITIVE_READ, FLOW_SHELL_DOWNLOADER, FLOW_NO_TTY, FLOW_IDLE
  <2>2. Controlled(q, default, rule, score) = Controlled(p, default, rule, score)
    BY <2>1, TwinControlled
  <2>3. Controlled(p, default, rule, score).rule \notin PresenceFlows
    BY <2>1, ControlledFields DEF NothingMatches, PresenceFlows, FLOW_NO_TTY, FLOW_IDLE
  <2> QED
    BY <2>2, <2>3, SameAlike
<1>4. FLOW_NO_TTY \in PresenceFlows /\ FLOW_IDLE \in PresenceFlows
  BY DEF PresenceFlows
<1>5. Alike(lowers, SensitiveReadFlow(p, e, c, f), SensitiveReadFlow(q, e, c, f))
  BY <1>2, <1>3, NoFlowAlike DEF SensitiveReadFlow
<1>6. Alike(lowers, ShellDownloaderFlow(p, e, c, f), ShellDownloaderFlow(q, e, c, f))
  BY <1>2, <1>3, NoFlowAlike DEF ShellDownloaderFlow
<1>7. Alike(lowers, IdleFlow(p, e, c), IdleFlow(q, e, c))
  BY <1>1, <1>4, TwinPresence DEF IdleFlow
<1>8. Alike(lowers, NoTtyFlow(p, e, c), NoTtyFlow(q, e, c))
  <2>1. CASE c.has_tty
    BY <2>1, NoFlowAlike DEF NoTtyFlow
  <2>2. CASE ~c.has_tty
    BY <1>1, <1>4, <2>2, TwinPresence DEF NoTtyFlow
  <2> QED
    BY <2>1, <2>2
<1>9. Alike(lowers, FirstOf(ShellDownloaderFlow(p, e, c, f), NoTtyFlow(p, e, c)),
            FirstOf(ShellDownloaderFlow(q, e, c, f), NoTtyFlow(q, e, c)))
  BY <1>6, <1>8, FirstAlike
<1> DEFINE rest(r) == IF IdleFlowApplies(r, c) THEN IdleFlow(r, e, c)
                      ELSE FirstOf(ShellDownloaderFlow(r, e, c, f), NoTtyFlow(r, e, c))
<1>10. Alike(lowers, rest(p), rest(q))
  BY <1>1, <1>7, <1>9
<1> HIDE DEF rest
<1>11. Alike(lowers, FirstOf(SensitiveReadFlow(p, e, c, f), rest(p)),
             FirstOf(SensitiveReadFlow(q, e, c, f), rest(q)))
  BY <1>5, <1>10, FirstAlike
<1>12. Alike(lowers, evaluate_connect_flow(p, e, c, f), evaluate_connect_flow(q, e, c, f))
  BY <1>11, NoFlowAlike DEF evaluate_connect_flow, rest
<1>13. Alike(lowers, FirstOf(evaluate_connect_flow(p, e, c, f), is_suspicious_port(p, e)),
             FirstOf(evaluate_connect_flow(q, e, c, f), is_suspicious_port(q, e)))
  BY <1>12, TwinPort, FirstAlike
<1> HIDE DEF lowers
<1>14. ASSUME NEW r
       PROVE  evaluate_event(r, e, c, f)
                 = FirstOf(FirstOf(evaluate_connect_flow(r, e, c, f), is_suspicious_port(r, e)), Observed)
  BY DEF evaluate_event
<1>15. Alike(lowers, evaluate_event(p, e, c, f), evaluate_event(q, e, c, f))
  BY <1>13, <1>14, NoFlowAlike, FirstAlike
<1> QED
  BY <1>15 DEF lowers

-------------------------------------------------------------------------------
(* What hides a suspicious port.                                             *)

\* A flow that is neither overridden nor critical is one of PresenceFlows, lowered by the
\* allowlist or the profile.
SoftByChoice(p, e, c, a) ==
    \/ a = NothingMatches
    \/ a.rule \in DOMAIN p.override
    \/ a.severity = CRITICAL
    \/ /\ a.rule \in PresenceFlows
       /\ \/ flow_transfer_allowlisted(p, e, c)
          \/ p.profile = "developer-workstation"
          \/ p.profile = "baseline" /\ a.severity = WARN

\* Every flow is soft by choice.
LEMMA FlowsSoftByChoice ==
    ASSUME NEW p, IsPolicy(p), NEW e, NEW c, NEW f
    PROVE  SoftByChoice(p, e, c, evaluate_connect_flow(p, e, c, f))
<1>1. p.profile \in Profiles
  BY DEF IsPolicy
<1>2. ASSUME NEW rule, NEW default, NEW score,
             \/ default = CRITICAL
             \/ /\ rule \in PresenceFlows
                /\ \/ flow_transfer_allowlisted(p, e, c)
                   \/ p.profile = "developer-workstation"
                   \/ p.profile = "baseline" /\ default = WARN
      PROVE  SoftByChoice(p, e, c, Controlled(p, default, rule, score))
  BY <1>2, ControlledFields DEF SoftByChoice, effective_rule_severity
<1>3. SoftByChoice(p, e, c, NothingMatches)
  BY DEF SoftByChoice
<1>4. ASSUME NEW rule \in {FLOW_SENSITIVE_READ, FLOW_SHELL_DOWNLOADER}
      PROVE  default_flow_rule_severity(p, rule) = CRITICAL
  BY DEF default_flow_rule_severity, FLOW_SENSITIVE_READ, FLOW_SHELL_DOWNLOADER, FLOW_NO_TTY
<1>5. ASSUME NEW rule \in PresenceFlows
      PROVE  \/ default_flow_rule_severity(p, rule) = CRITICAL
             \/ p.profile = "developer-workstation"
             \/ p.profile = "baseline" /\ default_flow_rule_severity(p, rule) = WARN
  BY <1>1 DEF default_flow_rule_severity, Profiles
<1>6. FLOW_NO_TTY \in PresenceFlows /\ FLOW_IDLE \in PresenceFlows
  BY DEF PresenceFlows
<1>7. /\ SoftByChoice(p, e, c, SensitiveReadFlow(p, e, c, f))
      /\ SoftByChoice(p, e, c, ShellDownloaderFlow(p, e, c, f))
  BY <1>2, <1>3, <1>4 DEF SensitiveReadFlow, ShellDownloaderFlow
<1>8. SoftByChoice(p, e, c, IdleFlow(p, e, c))
  BY <1>2, <1>5, <1>6 DEF IdleFlow
<1>9. SoftByChoice(p, e, c, NoTtyFlow(p, e, c))
  BY <1>2, <1>3, <1>5, <1>6 DEF NoTtyFlow
<1> QED
  BY <1>3, <1>7, <1>8, <1>9 DEF evaluate_connect_flow, FirstOf

\* A finding that is less severe than the port rule is such a flow.
LEMMA PortSoftened ==
    ASSUME NEW p, IsPolicy(p), NEW e, IsEvent(e), e.type = "CONNECT", NEW c, NEW f,
           evaluate_event(p, e, c, f).severity < is_suspicious_port(p, e).severity
    PROVE  LET a == evaluate_event(p, e, c, f)
           IN SoftByChoice(p, e, c, a) /\ a # NothingMatches /\ a.severity # CRITICAL
<1> DEFINE flow == evaluate_connect_flow(p, e, c, f)
           port == is_suspicious_port(p, e)
           a == evaluate_event(p, e, c, f)
<1>1. a = FirstOf(FirstOf(flow, port), Observed)
  BY DEF evaluate_event
<1>2. Proper(p, port)
  <2>1. ListIds(p.suspicious_ports) \subseteq Ids(p)
    BY DEF Ids
  <2> QED
    BY <2>1, ListProper DEF is_suspicious_port, IsPolicy
<1>3. Proper(p, flow) /\ SoftByChoice(p, e, c, flow)
  BY FlowProper, FlowsSoftByChoice
<1>4. a.severity < port.severity
  OBVIOUS
<1> HIDE DEF flow, port, a
<1>5. port.severity \in 0 .. 2 /\ Observed.severity = 0 /\ CRITICAL = 2
  BY <1>2 DEF Proper, NothingMatches, Observed, Severities, INFO, CRITICAL
<1>6. CASE flow = NothingMatches /\ port = NothingMatches
  BY <1>1, <1>4, <1>5, <1>6 DEF FirstOf, NothingMatches, INFO
<1>7. CASE flow = NothingMatches /\ port # NothingMatches
  BY <1>1, <1>4, <1>5, <1>7 DEF FirstOf
<1>8. CASE flow # NothingMatches
  <2>1. a = flow
    BY <1>1, <1>8 DEF FirstOf
  <2>2. a.severity # CRITICAL
    BY <1>4, <1>5
  <2>3. SoftByChoice(p, e, c, a) /\ a # NothingMatches /\ a.severity # CRITICAL
    BY <1>3, <1>8, <2>1, <2>2
  <2> QED
    BY <2>3 DEF a
<1> QED
  BY <1>6, <1>7, <1>8

-------------------------------------------------------------------------------
(* The flow of a tree that read a sensitive file.                            *)

\* With the rule enabled it is the finding, critical unless overridden, and its score is 95 but for a process with a
\* terminal and no shell about it.
LEMMA ReadFlowFound ==
    ASSUME NEW p, NEW e, NEW c, NEW f, IsPublicTransfer(e), f.sensitive,
           FLOW_SENSITIVE_READ \notin p.disabled
    PROVE  /\ evaluate_event(p, e, c, f).rule = FLOW_SENSITIVE_READ
           /\ evaluate_event(p, e, c, f).severity =
                 effective_rule_severity(p, FLOW_SENSITIVE_READ, CRITICAL)
           /\ evaluate_event(p, e, c, f).score =
                 IF HasShellContext(e, c, f) \/ ~c.has_tty THEN 95 ELSE 90
<1> DEFINE score == IF HasShellContext(e, c, f) \/ ~c.has_tty THEN 95 ELSE 90
           a == [rule |-> FLOW_SENSITIVE_READ,
                 severity |-> effective_rule_severity(p, FLOW_SENSITIVE_READ,
                                  default_flow_rule_severity(p, FLOW_SENSITIVE_READ)),
                 score |-> score]
<1>1. default_flow_rule_score(p, FLOW_SENSITIVE_READ, HasShellContext(e, c, f) \/ ~c.has_tty) = score
  BY DEF default_flow_rule_score, FLOW_SENSITIVE_READ, FLOW_SHELL_DOWNLOADER, FLOW_NO_TTY, FLOW_IDLE
<1>2. SensitiveReadFlow(p, e, c, f) = a
  BY <1>1 DEF SensitiveReadFlow, Controlled, rule_id_disabled
<1>3. a # NothingMatches
  BY DEF NothingMatches, FLOW_SENSITIVE_READ
<1>4. evaluate_connect_flow(p, e, c, f) = a
  BY <1>2, <1>3 DEF evaluate_connect_flow, FirstOf
<1>5. e.type = "CONNECT"
  BY DEF IsPublicTransfer
<1>6. evaluate_event(p, e, c, f) = a
  BY <1>3, <1>4, <1>5 DEF evaluate_event, FirstOf
<1>7. /\ a.rule = FLOW_SENSITIVE_READ /\ a.score = score
      /\ a.severity = effective_rule_severity(p, FLOW_SENSITIVE_READ, CRITICAL)
  <2>1. default_flow_rule_severity(p, FLOW_SENSITIVE_READ) = CRITICAL
    BY DEF default_flow_rule_severity, FLOW_SENSITIVE_READ, FLOW_NO_TTY
  <2> QED
    BY <2>1
<1> HIDE DEF a, score
<1>8. /\ evaluate_event(p, e, c, f).rule = FLOW_SENSITIVE_READ
      /\ evaluate_event(p, e, c, f).severity = effective_rule_severity(p, FLOW_SENSITIVE_READ, CRITICAL)
      /\ evaluate_event(p, e, c, f).score = score
  BY <1>6, <1>7
<1> QED
  BY <1>8 DEF score

\* A candidate of a rule list scores nothing.
LEMMA ListScore ==
    ASSUME NEW p, NEW list, IsRuleList(list), NEW x
    PROVE  LastAllowed(p, list, x).score = 0
<1>1. NothingMatches.score = 0
  BY DEF NothingMatches
<1>2. ASSUME NEW i \in Hitting(p, list, x)
      PROVE  Controlled(p, list[i].severity, list[i].id, 0).score = 0
  BY ControlledFields DEF Hitting, rule_id_disabled
<1> QED
  BY <1>1, <1>2, ScanStops

\* Whichever single flow is left enabled, the event scores no more than its read flow.
LEMMA ReadFlowScoresMost ==
    ASSUME NEW p, IsPolicy(p), NEW e, IsEvent(e), NEW c, NEW f, IsPublicTransfer(e),
           f.sensitive, FLOW_SENSITIVE_READ \notin p.disabled,
           c.has_tty \in BOOLEAN, NEW id \in FlowRules
    PROVE  evaluate_event([p EXCEPT !.disabled = FlowRules \ {id}], e, c, f).score
              <= evaluate_event(p, e, c, f).score
<1> DEFINE q == [p EXCEPT !.disabled = FlowRules \ {id}]
           most == IF HasShellContext(e, c, f) \/ ~c.has_tty THEN 95 ELSE 90
<1>1. IsPolicy(q) /\ q.disabled = FlowRules \ {id}
  BY DEF IsPolicy
<1> HIDE DEF q
<1>2. evaluate_event(p, e, c, f).score = most /\ most \in 90 .. 95
  BY ReadFlowFound
<1>3. e.type = "CONNECT"
  BY DEF IsPublicTransfer
<1>4. CASE ~c.has_tty
  <2>1. Found(q, e, c, f).score \in 0 .. 95
    BY <1>1, FoundProper DEF Proper, NothingMatches
  <2>2. evaluate_event(q, e, c, f).score \in 0 .. 95
    BY <1>1, <2>1, FoundProper DEF FirstOf, Observed
  <2>3. evaluate_event(p, e, c, f).score = 95
    BY <1>2, <1>4
  <2> QED
    BY <2>2, <2>3 DEF q
<1>5. CASE c.has_tty /\ id = FLOW_SENSITIVE_READ
  <2>1. evaluate_event(q, e, c, f).score = most
    BY <1>1, <1>5, ReadFlowFound
  <2> QED
    BY <1>2, <2>1 DEF q
<1>6. CASE c.has_tty /\ id # FLOW_SENSITIVE_READ
  <2>1. FLOW_SENSITIVE_READ \in q.disabled
    BY <1>1, <1>6 DEF FlowRules
  <2>2. SensitiveReadFlow(q, e, c, f) = NothingMatches
    BY <2>1, ControlledFields DEF SensitiveReadFlow
  <2>3. ~IdleFlowApplies(q, c) /\ NoTtyFlow(q, e, c) = NothingMatches
    BY <1>6 DEF IdleFlowApplies, NoTtyFlow
  <2>4. evaluate_connect_flow(q, e, c, f) = ShellDownloaderFlow(q, e, c, f)
    BY <2>2, <2>3 DEF evaluate_connect_flow, FirstOf
  <2>5. ShellDownloaderFlow(q, e, c, f).score \in {0, 90}
    <3>1. default_flow_rule_score(q, FLOW_SHELL_DOWNLOADER, FALSE) = 90
      BY DEF default_flow_rule_score, FLOW_SENSITIVE_READ, FLOW_SHELL_DOWNLOADER, FLOW_NO_TTY, FLOW_IDLE
    <3>2. NothingMatches.score = 0
      BY DEF NothingMatches
    <3>3. Controlled(q, default_flow_rule_severity(q, FLOW_SHELL_DOWNLOADER), FLOW_SHELL_DOWNLOADER, 90).score
             \in {0, 90}
      BY <3>2 DEF Controlled
    <3> QED
      BY <3>1, <3>2, <3>3 DEF ShellDownloaderFlow
  <2>6. is_suspicious_port(q, e).score = 0 /\ Observed.score = 0
    BY <1>1, ListScore DEF is_suspicious_port, IsPolicy, Observed
  <2>7. Found(q, e, c, f).score \in {0, 90}
    BY <1>3, <2>4, <2>5, <2>6 DEF Found, FirstOf
  <2>8. evaluate_event(q, e, c, f).score \in {0, 90}
    BY <1>1, <2>6, <2>7, FoundProper DEF FirstOf
  <2> HIDE DEF most
  <2> QED
    BY <1>2, <2>8 DEF q
<1> QED
  BY <1>4, <1>5, <1>6

-------------------------------------------------------------------------------
(* Asking for write access as well.                                          *)

\* A mapping that also asks for write access is at least as severe.
LEMMA WritableMapping ==
    ASSUME NEW p, IsPolicy(p), p.disabled = {}, DOMAIN p.override = {},
           NEW e, IsEvent(e), e.type \in {"MPROTECT", "MMAP"}, NEW c, NEW f
    PROVE  evaluate_event(p, e, c, f).severity
              <= evaluate_event(p, [e EXCEPT !.prot = @ \cup {"WRITE"}], c, f).severity
<1> DEFINE w == [e EXCEPT !.prot = @ \cup {"WRITE"}]
<1>1. /\ w.type = e.type /\ w.comm = e.comm
      /\ w.prot = e.prot \cup {"WRITE"}
  BY DEF IsEvent
<1> HIDE DEF w
<1>2. \A default, rule :
         /\ Controlled(p, default, rule, 0).rule = rule
         /\ Controlled(p, default, rule, 0).severity = default
  BY DEF Controlled, rule_id_disabled, effective_rule_severity
<1>3. /\ NothingMatches.severity = 0 /\ NothingMatches.rule = "<none>" /\ Observed.severity = 0
      /\ CRITICAL = 2 /\ WARN = 1
  BY DEF NothingMatches, Observed, INFO, CRITICAL, WARN
<1>4. p.anon_exec_mmap_severity \in 0 .. 2
  BY DEF IsPolicy, Severities, INFO, CRITICAL
<1>5. CASE "EXEC" \notin e.prot \/ comm_allowed_for_jit(p, e.comm)
  <2>1. ASSUME NEW x, "EXEC" \notin x.prot \/ comm_allowed_for_jit(p, x.comm)
        PROVE  MemFinding(p, x) = NothingMatches
    BY <2>1 DEF MemFinding
  <2>2. MemFinding(p, e) = NothingMatches /\ MemFinding(p, w) = NothingMatches
    BY <1>1, <1>5, <2>1
  <2> QED
    BY <1>1, <1>3, <2>2 DEF evaluate_event, FirstOf, w
<1>6. CASE ~("EXEC" \notin e.prot \/ comm_allowed_for_jit(p, e.comm))
  <2>1. /\ ~("EXEC" \notin w.prot \/ comm_allowed_for_jit(p, w.comm))
        /\ "WRITE" \in w.prot
    BY <1>1, <1>6
  <2>2. MemFinding(p, w).severity = 2 /\ MemFinding(p, w).rule # "<none>"
    BY <1>1, <1>2, <1>3, <2>1 DEF MemFinding
  <2>3. MemFinding(p, e).severity \in 0 .. 2
    BY <1>2, <1>3, <1>4, <1>6 DEF MemFinding
  <2>4. evaluate_event(p, w, c, f) = MemFinding(p, w)
    BY <1>1, <1>3, <2>2 DEF evaluate_event, FirstOf
  <2>5. evaluate_event(p, e, c, f).severity \in 0 .. 2
    BY <1>3, <2>3 DEF evaluate_event, FirstOf
  <2> QED
    BY <2>2, <2>4, <2>5 DEF w
<1> QED
  BY <1>5, <1>6

\* So is an open, when the write rules for the path are as severe as its read rules.
LEMMA WritableOpen ==
    ASSUME NEW p, IsPolicy(p), NEW e, IsEvent(e), e.type = "OPENAT", NEW c, NEW f,
           \/ LastAllowed(p, p.sensitive_write, e.target) = NothingMatches
           \/ LastAllowed(p, p.sensitive_write, e.target).severity
                 >= LastAllowed(p, p.sensitive_read, e.target).severity
    PROVE  evaluate_event(p, e, c, f).severity
              <= evaluate_event(p, [e EXCEPT !.flags = @ \cup {"TRUNC"}], c, f).severity
<1> DEFINE w == [e EXCEPT !.flags = @ \cup {"TRUNC"}]
           written == LastAllowed(p, p.sensitive_write, e.target)
           read == LastAllowed(p, p.sensitive_read, e.target)
<1>1. w.type = "OPENAT" /\ w.target = e.target /\ w.flags = e.flags \cup {"TRUNC"}
  BY DEF IsEvent
<1>2. Proper(p, written) /\ Proper(p, read)
  <2>1. /\ ListIds(p.sensitive_write) \subseteq Ids(p) /\ ListIds(p.sensitive_read) \subseteq Ids(p)
        /\ IsRuleList(p.sensitive_write) /\ IsRuleList(p.sensitive_read)
    BY DEF Ids, IsPolicy
  <2> QED
    BY <2>1, ListProper
<1>3. NothingMatches.severity = 0 /\ Observed.severity = 0
  BY DEF NothingMatches, Observed, INFO
<1>4. written.severity \in 0 .. 2 /\ read.severity \in 0 .. 2
  BY <1>2, <1>3 DEF Proper, Severities, INFO, CRITICAL
<1>5. evaluate_event(p, w, c, f) = FirstOf(FirstOf(written, read), Observed)
  <2>1. opens_for_write(w.flags)
    BY <1>1 DEF opens_for_write
  <2> QED
    BY <1>1, <2>1 DEF evaluate_event, OpenFinding
<1>6. evaluate_event(p, e, c, f) =
         FirstOf(FirstOf(IF opens_for_write(e.flags) THEN written ELSE NothingMatches, read), Observed)
  BY DEF evaluate_event, OpenFinding
<1>7. written = NothingMatches \/ written.severity >= read.severity
  OBVIOUS
<1> HIDE DEF w, written, read
<1>8. evaluate_event(p, e, c, f).severity <= evaluate_event(p, w, c, f).severity
  BY <1>3, <1>4, <1>5, <1>6, <1>7 DEF FirstOf
<1> QED
  BY <1>8 DEF w

-------------------------------------------------------------------------------
(* The scope of a destination.                                               *)

\* The prefix of an address is the number of its first two bytes.
LEMMA PrefixIsNumber ==
    ASSUME NEW a, a[1] \in 0 .. 255, a[2] \in 0 .. 255
    PROVE  \E x \in 0 .. 255, y \in 0 .. 255, n \in Int :
              a[1] = x /\ a[2] = y /\ n = 256 * x + y /\ Prefix16(a) = n
<1>1. PICK x \in 0 .. 255, y \in 0 .. 255 : a[1] = x /\ a[2] = y
  OBVIOUS
<1>2. PICK n \in Int : n = 256 * x + y
  OBVIOUS
<1>3. Prefix16(a) = n
  BY <1>1, <1>2 DEF Prefix16
<1> QED
  BY <1>1, <1>2, <1>3

\* An IPv4 address: the comparisons of its bytes are ranges of the number.
LEMMA V4Ranges ==
    ASSUME NEW a, a[1] \in 0 .. 255, a[2] \in 0 .. 255
    PROVE  classify_ipv4_addr(a).scope = V4Scope(a)
<1>1. PICK x \in 0 .. 255, y \in 0 .. 255, n \in Int :
              a[1] = x /\ a[2] = y /\ n = 256 * x + y /\ Prefix16(a) = n
  BY PrefixIsNumber
<1>2. n = 256 * x + y
  BY <1>1
<1>3. /\ n \in 0 .. 255 <=> x = 0
      /\ n \in 2560 .. 2815 <=> x = 10
      /\ n \in 44048 .. 44063 <=> x = 172 /\ y \in 16 .. 31
      /\ n = 49320 <=> x = 192 /\ y = 168
      /\ n \in 32512 .. 32767 <=> x = 127
      /\ n = 43518 <=> x = 169 /\ y = 254
      /\ n \in 57344 .. 61439 <=> x \in 224 .. 239
  BY <1>2
<1>4. \A scope : Class(scope).scope = scope
  BY DEF Class
<1>5. classify_ipv4_addr(a).scope =
         CASE x = 0 -> "unspecified"
           [] x = 127 -> "loopback"
           [] x = 10 \/ (x = 172 /\ y \in 16 .. 31) \/ (x = 192 /\ y = 168) -> "private"
           [] x = 169 /\ y = 254 -> "link-local"
           [] x \in 224 .. 239 -> "multicast"
           [] OTHER -> "public"
  BY <1>1, <1>4 DEF classify_ipv4_addr, IsPrivateV4
<1>6. V4Scope(a) =
         CASE x = 0 -> "unspecified"
           [] x = 10 \/ (x = 172 /\ y \in 16 .. 31) \/ (x = 192 /\ y = 168) -> "private"
           [] x = 127 -> "loopback"
           [] x = 169 /\ y = 254 -> "link-local"
           [] x \in 224 .. 239 -> "multicast"
           [] OTHER -> "public"
  BY <1>1, <1>3, SMTT(30) DEF V4Scope
<1> QED
  BY <1>5, <1>6

\* An IPv6 address that is not a mapped one; the masks of the code are divisions.
LEMMA V6Ranges ==
    ASSUME NEW a \in [1 .. 16 -> 0 .. 255]
    PROVE  (CASE ipv6_is_unspecified(a) -> "unspecified"
              [] ipv6_is_loopback(a) -> "loopback"
              [] a[1] \div 2 = 126 -> "private"
              [] a[1] = 254 /\ a[2] \div 64 = 2 -> "link-local"
              [] a[1] = 255 -> "multicast"
              [] OTHER -> "public") = V6Scope(a)
<1>1. a[1] \in 0 .. 255 /\ a[2] \in 0 .. 255
  OBVIOUS
<1>2. PICK x \in 0 .. 255, y \in 0 .. 255, n \in Int :
              a[1] = x /\ a[2] = y /\ n = 256 * x + y /\ Prefix16(a) = n
  BY <1>1, PrefixIsNumber, ZenonT(40)
<1>3. n = 256 * x + y
  BY <1>2
<1>4. /\ n \in 64512 .. 65023 <=> x \div 2 = 126
      /\ n \in 65152 .. 65215 <=> x = 254 /\ y \div 64 = 2
      /\ n >= 65280 <=> x = 255
  BY <1>3
<1>5. [Zeros(16) EXCEPT ![16] = 1] = Zeros(15) \o <<1>>
  BY DEF Zeros
<1>6. ipv6_is_unspecified(a) <=> a = Zeros(16)
  BY DEF ipv6_is_unspecified
<1>7. ipv6_is_loopback(a) <=> a = [Zeros(16) EXCEPT ![16] = 1]
  BY <1>5 DEF ipv6_is_loopback
<1>8. V6Scope(a) =
         CASE ipv6_is_unspecified(a) -> "unspecified"
           [] ipv6_is_loopback(a) -> "loopback"
           [] x \div 2 = 126 -> "private"
           [] x = 254 /\ y \div 64 = 2 -> "link-local"
           [] x = 255 -> "multicast"
           [] OTHER -> "public"
  BY <1>2, <1>4, <1>6, <1>7 DEF V6Scope
<1> QED
  BY <1>2, <1>8

\* The prefix that makes an address a mapped one, byte by byte.
LEMMA MappedPrefix ==
    ASSUME NEW a \in [1 .. 16 -> 0 .. 255]
    PROVE  ipv6_is_v4_mapped(a) <=> \A i \in 1 .. 12 : a[i] = (IF i > 10 THEN 255 ELSE 0)
<1> DEFINE p == Zeros(10) \o <<255, 255>>
           s == SubSeq(a, 1, 12)
<1>1. s \in Seq(0 .. 255) /\ Len(s) = 12 /\ \A i \in 1 .. 12 : s[i] = a[i]
  <2>1. \A i \in 1 .. 12 : a[i] \in 0 .. 255
    OBVIOUS
  <2>2. /\ s \in Seq(0 .. 255) /\ Len(s) = IF 1 <= 12 THEN 12 - 1 + 1 ELSE 0
        /\ \A i \in 1 .. 12 - 1 + 1 : s[i] = a[1 + i - 1]
    BY <2>1, SubSeqProperties
  <2> HIDE DEF s
  <2> QED
    BY <2>2
<1>2. p \in Seq(0 .. 255) /\ Len(p) = 12 /\ \A i \in 1 .. 12 : p[i] = (IF i > 10 THEN 255 ELSE 0)
  <2>1. Zeros(10) \in Seq(0 .. 255) /\ Len(Zeros(10)) = 10 /\ \A i \in 1 .. 10 : Zeros(10)[i] = 0
    BY DEF Zeros
  <2>2. <<255, 255>> \in Seq(0 .. 255) /\ Len(<<255, 255>>) = 2
        /\ \A i \in 1 .. 2 : <<255, 255>>[i] = 255
    OBVIOUS
  <2> DEFINE y == Zeros(10)
             z == <<255, 255>>
  <2> HIDE DEF y, z
  <2>3. /\ y \o z \in Seq(0 .. 255) /\ Len(y \o z) = Len(y) + Len(z)
        /\ \A i \in 1 .. Len(y) + Len(z) : (y \o z)[i] = IF i <= Len(y) THEN y[i] ELSE z[i - Len(y)]
    <3>1. y \in Seq(0 .. 255) /\ z \in Seq(0 .. 255)
      BY <2>1, <2>2 DEF y, z
    <3> QED
      BY <3>1, ConcatProperties
  <2>4. p = y \o z
    BY DEF y, z
  <2>5. Len(y) = 10 /\ (\A i \in 1 .. 10 : y[i] = 0) /\ Len(z) = 2 /\ \A i \in 1 .. 2 : z[i] = 255
    BY <2>1, <2>2 DEF y, z
  <2> HIDE DEF p
  <2>6. p \in Seq(0 .. 255) /\ Len(p) = 12
    BY <2>3, <2>4, <2>5
  <2>7. ASSUME NEW i \in 1 .. 12 PROVE p[i] = (IF i > 10 THEN 255 ELSE 0)
    <3>1. i \in 1 .. Len(y) + Len(z)
      BY <2>5
    <3>2. (y \o z)[i] = IF i <= Len(y) THEN y[i] ELSE z[i - Len(y)]
      BY <2>3, <3>1
    <3> QED
      BY <2>4, <2>5, <3>2
  <2> QED
    BY <2>6, <2>7
<1> HIDE DEF p, s
<1>3. s = p <=> \A i \in 1 .. 12 : s[i] = p[i]
  <2>1. ASSUME \A i \in 1 .. 12 : s[i] = p[i] PROVE s = p
    <3>1. Len(s) = Len(p) /\ \A i \in 1 .. Len(s) : s[i] = p[i]
      BY <1>1, <1>2, <2>1
    <3>2. s \in Seq(0 .. 255) /\ p \in Seq(0 .. 255)
      BY <1>1, <1>2
    <3> QED
      BY <3>1, <3>2, SeqEqual
  <2> QED
    BY <2>1
<1>4. ipv6_is_v4_mapped(a) <=> s = p
  BY DEF ipv6_is_v4_mapped, p, s
<1> QED
  BY <1>1, <1>2, <1>3, <1>4

\* The last four bytes are the address it stands for.
LEMMA ScopeIsReference ==
    ASSUME NEW dst, IsDestination(dst)
    PROVE  classify_net_destination(dst).scope = ReferenceScope(dst)
<1> DEFINE a == dst.addr
<1>1. \A scope : Class(scope).scope = scope
  BY DEF Class
<1>2. CASE dst.family = "AF_INET" /\ a \in [1 .. 4 -> 0 .. 255]
  <2>1. classify_ipv4_addr(a).scope = V4Scope(a)
    BY <1>2, V4Ranges
  <2> QED
    BY <1>2, <2>1 DEF classify_net_destination, ReferenceScope
<1>3. CASE dst.family = "AF_INET6" /\ a \in [1 .. 16 -> 0 .. 255]
  <2>1. ipv6_is_v4_mapped(a) <=> \A i \in 1 .. 12 : a[i] = (IF i > 10 THEN 255 ELSE 0)
    BY <1>3, MappedPrefix
  <2>2. CASE ipv6_is_v4_mapped(a)
    <3> DEFINE b == SubSeq(a, 13, 16)
    <3>1. b[1] \in 0 .. 255 /\ b[2] \in 0 .. 255
      BY <1>3
    <3>2. classify_net_destination(dst) = classify_ipv4_addr(b)
      BY <1>3, <2>2 DEF classify_net_destination
    <3>3. ReferenceScope(dst) = V4Scope(b)
      BY <1>3, <2>1, <2>2 DEF ReferenceScope
    <3> HIDE DEF b
    <3> QED
      BY <3>1, <3>2, <3>3, V4Ranges
  <2>3. CASE ~ipv6_is_v4_mapped(a)
    <3>1. ReferenceScope(dst) = V6Scope(a)
      BY <1>3, <2>1, <2>3 DEF ReferenceScope
    <3> QED
      BY <1>1, <1>3, <2>3, <3>1, V6Ranges DEF classify_net_destination
  <2> QED
    BY <2>2, <2>3
<1> QED
  BY <1>2, <1>3 DEF IsDestination

-------------------------------------------------------------------------------
(* The host.                                                                 *)

\* The finding on record is the one of the event in hand under the policy in force.
FindingIsOfInput ==
    IF input.busy
    THEN \E s \in Situations : /\ input = [busy |-> TRUE, e |-> s.e, c |-> s.c, f |-> s.f]
                               /\ finding = evaluate_event(policy, s.e, s.c, s.f)
    ELSE finding = Observed

IInv == policy \in Policies /\ input.busy \in BOOLEAN /\ FindingIsOfInput

\* Before the first event there is no finding to speak of.
LEMMA InitInv == Init => IInv
BY DEF Init, IInv, FindingIsOfInput, NoInput

\* A new event is evaluated under the policy in force, and a return forgets it.
LEMMA StepInv == IInv /\ [Next]_vars => IInv'
<1> SUFFICES ASSUME IInv, [Next]_vars PROVE IInv'
  OBVIOUS
<1>1. ASSUME NEW s \in Situations, Evaluate(s) PROVE IInv'
  <2>1. input' = [busy |-> TRUE, e |-> s.e, c |-> s.c, f |-> s.f] /\ policy' = policy
        /\ finding' = evaluate_event(policy, s.e, s.c, s.f)
    BY <1>1 DEF Evaluate
  <2>2. input'.busy = TRUE /\ policy' \in Policies
    BY <2>1 DEF IInv
  <2> QED
    BY <2>1, <2>2 DEF IInv, FindingIsOfInput
<1>2. CASE Return
  BY <1>2 DEF Return, IInv, FindingIsOfInput, NoInput
<1>3. CASE UNCHANGED vars
  BY <1>3 DEF vars, IInv, FindingIsOfInput
<1> QED
  BY <1>1, <1>2, <1>3 DEF Next

\* What can be said of an event in hand.
LEMMA InHand ==
    ASSUME IInv, input.busy
    PROVE  /\ IsPolicy(policy) /\ IsEvent(input.e) /\ finding = Under(policy)
           /\ input.c.has_tty \in BOOLEAN /\ input.c.interactive = input.c.has_tty
<1>1. PICK s \in Situations :
         /\ input = [busy |-> TRUE, e |-> s.e, c |-> s.c, f |-> s.f]
         /\ finding = evaluate_event(policy, s.e, s.c, s.f)
  BY DEF IInv, FindingIsOfInput
<1>2. input.e = s.e /\ input.c = s.c /\ input.f = s.f
  BY <1>1
<1>3. /\ IsPolicy(policy) /\ IsEvent(s.e)
      /\ s.c.has_tty \in BOOLEAN /\ s.c.interactive = s.c.has_tty
  BY EvaluationAssumption DEF IInv
<1> QED
  BY <1>1, <1>2, <1>3 DEF Under

\* The finding is a proper one, or the plain observation.
LEMMA FindingProper ==
    ASSUME NEW p, IsPolicy(p), NEW e, IsEvent(e), NEW c, NEW f
    PROVE  LET a == evaluate_event(p, e, c, f)
           IN  a = Observed \/ (a # NothingMatches /\ Proper(p, a))
BY FoundProper DEF FirstOf

\* Each property follows from what the finding in hand is: its shape ...
LEMMA TypeHolds == IInv => TypeOK
<1> SUFFICES ASSUME IInv PROVE TypeOK
  OBVIOUS
<1>1. policy \in Policies
  BY DEF IInv
<1>2. Observed.severity \in INFO .. CRITICAL /\ Observed.score \in 0 .. 95
  BY DEF Observed, INFO, CRITICAL
<1>3. CASE finding = Observed
  BY <1>1, <1>2, <1>3 DEF TypeOK
<1>4. CASE finding # NothingMatches /\ Proper(policy, finding)
  BY <1>1, <1>4 DEF TypeOK, Proper, Severities
<1>5. finding = Observed \/ (finding # NothingMatches /\ Proper(policy, finding))
  BY InHand, FindingProper DEF Under, IInv, FindingIsOfInput
<1> QED
  BY <1>3, <1>4, <1>5

\* ... the exactness of the rule controls ...
LEMMA ControlsHold == IInv => ControlsAreExact
<1> SUFFICES ASSUME IInv, input.busy PROVE ControlsAreExact
  BY DEF ControlsAreExact
<1> DEFINE Rules == Ids(policy) \ {Observed.rule}
<1>1. IsPolicy(policy) /\ IsEvent(input.e) /\ finding = Under(policy)
  BY InHand
<1>2. ASSUME NEW id \in Rules
      PROVE  LET without == Under([policy EXCEPT !.disabled = @ \cup {id}])
             IN IF id = finding.rule THEN without.rule # id ELSE without = finding
  <2> DEFINE q == [policy EXCEPT !.disabled = @ \cup {id}]
  <2>1. DisablesAlso(policy, q, id)
    BY <1>1, Disabling
  <2>2. id # "<none>" /\ id # Observed.rule
    <3>1. id # Observed.rule /\ id \in Ids(policy)
      OBVIOUS
    <3>2. "<none>" \notin Ids(policy)
      BY <1>1 DEF Ids, MemRules, ListIds, IsPolicy, IsRuleList, NothingMatches, FlowRules,
         FLOW_SENSITIVE_READ, FLOW_SHELL_DOWNLOADER, FLOW_NO_TTY, FLOW_IDLE
    <3> QED
      BY <3>1, <3>2
  <2> HIDE DEF q
  <2>3. Exact(Under(policy), Under(q), id)
    BY <1>1, <2>1, <2>2, EvaluationExact DEF Under
  <2> QED
    BY <1>1, <2>3 DEF Exact, q
<1>3. ASSUME finding.rule \in Rules
      PROVE  /\ finding.rule \notin policy.disabled
             /\ finding.rule \in DOMAIN policy.override =>
                   finding.severity = policy.override[finding.rule]
  <2>1. finding # Observed
    BY <1>3
  <2>2. finding # NothingMatches /\ Proper(policy, finding)
    BY <1>1, <2>1, FindingProper DEF Under
  <2> QED
    BY <2>2 DEF Proper
<1> QED
  BY <1>2, <1>3 DEF ControlsAreExact

\* ... the effect of the allowlist ...
LEMMA AllowlistHolds == IInv => AllowlistActsAsOverride
<1> SUFFICES ASSUME IInv, input.busy, input.e.type = "CONNECT",
                    PresenceFlows \cap ListIds(policy.suspicious_ports) = {}
             PROVE  AllowlistActsAsOverride
  BY DEF AllowlistActsAsOverride
<1> DEFINE allowed == flow_transfer_allowlisted(policy, input.e, input.c)
           bare == [policy EXCEPT !.flow_allow_transfer = {}]
           q == IF allowed THEN Lowered(policy) ELSE bare
           twin == Under(q)
<1>1. IsPolicy(policy) /\ finding = Under(policy)
  BY InHand
<1>2. Twins(policy, q, allowed)
  <2>1. Twins(policy, Lowered(policy), TRUE) /\ Twins(policy, bare, FALSE)
    BY <1>1, LoweredIsTwin
  <2>2. allowed \in BOOLEAN
    BY DEF flow_transfer_allowlisted
  <2> HIDE DEF allowed, bare
  <2>3. CASE allowed = TRUE
    BY <2>1, <2>3
  <2>4. CASE allowed = FALSE
    BY <2>1, <2>4
  <2> QED
    BY <2>2, <2>3, <2>4
<1> HIDE DEF q
<1>3. Alike(allowed, finding, twin)
  BY <1>1, <1>2, AllowlistAlike DEF Under
<1> HIDE DEF twin, allowed
<1>4. /\ finding.rule = twin.rule /\ finding.severity = twin.severity
      /\ IF allowed /\ finding.rule \in PresenceFlows
         THEN finding.score < twin.score ELSE finding.score = twin.score
  BY <1>3 DEF Alike
<1> QED
  BY <1>4 DEF AllowlistActsAsOverride, twin, allowed, q

\* ... what may soften a suspicious port ...
LEMMA FlowSoftensHolds == IInv => FlowSoftensKnowingly
<1> SUFFICES ASSUME IInv, input.busy, input.e.type = "CONNECT",
                    finding.severity < is_suspicious_port(policy, input.e).severity
             PROVE  FlowSoftensKnowingly
  BY DEF FlowSoftensKnowingly
<1>1. SoftByChoice(policy, input.e, input.c, finding) /\ finding # NothingMatches
      /\ finding.severity # CRITICAL
  BY InHand, PortSoftened DEF Under
<1> QED
  BY <1>1 DEF SoftByChoice, FlowSoftensKnowingly

\* ... the precedence of a sensitive read ...
LEMMA ReadContextHolds == IInv => ReadContextWins
<1> SUFFICES ASSUME IInv, input.busy, IsPublicTransfer(input.e), input.f.sensitive,
                    FLOW_SENSITIVE_READ \notin policy.disabled
             PROVE  /\ finding.rule = FLOW_SENSITIVE_READ
                    /\ finding.severity = IF FLOW_SENSITIVE_READ \in DOMAIN policy.override
                                          THEN policy.override[FLOW_SENSITIVE_READ] ELSE CRITICAL
                    /\ \A id \in FlowRules :
                          Under([policy EXCEPT !.disabled = FlowRules \ {id}]).score <= finding.score
  BY DEF ReadContextWins
<1>1. /\ IsPolicy(policy) /\ IsEvent(input.e) /\ finding = Under(policy)
      /\ input.c.has_tty \in BOOLEAN
  BY InHand
<1>2. /\ finding.rule = FLOW_SENSITIVE_READ
      /\ finding.severity = effective_rule_severity(policy, FLOW_SENSITIVE_READ, CRITICAL)
  BY <1>1, ReadFlowFound DEF Under
<1>3. ASSUME NEW id \in FlowRules
      PROVE  Under([policy EXCEPT !.disabled = FlowRules \ {id}]).score <= finding.score
  BY <1>1, ReadFlowScoresMost DEF Under
<1> QED
  BY <1>2, <1>3 DEF effective_rule_severity

\* ... the weight of a write ...
LEMMA WritesHold == IInv => WriteNeverSoftens
<1> SUFFICES ASSUME IInv, input.busy, policy.disabled = {}, DOMAIN policy.override = {}
             PROVE  WriteNeverSoftens
  BY DEF WriteNeverSoftens
<1> DEFINE e == input.e
           Sev(x) == evaluate_event(policy, x, input.c, input.f).severity
           written == LastAllowed(policy, policy.sensitive_write, e.target)
           read == LastAllowed(policy, policy.sensitive_read, e.target)
<1>1. IsPolicy(policy) /\ IsEvent(e) /\ finding.severity = Sev(e)
  BY InHand DEF Under
<1>2. ASSUME e.type \in {"MPROTECT", "MMAP"}
      PROVE  finding.severity <= Sev([e EXCEPT !.prot = @ \cup {"WRITE"}])
  BY <1>1, <1>2, WritableMapping
<1>3. ASSUME e.type = "OPENAT", written = NothingMatches \/ written.severity >= read.severity
      PROVE  finding.severity <= Sev([e EXCEPT !.flags = @ \cup {"TRUNC"}])
  BY <1>1, <1>3, WritableOpen
<1> QED
  BY <1>2, <1>3 DEF WriteNeverSoftens

\* ... and the class of an address.
LEMMA ScopeHolds == IInv => ScopeByRange
BY InHand, ScopeIsReference DEF ScopeByRange, IsEvent

-------------------------------------------------------------------------------
(* The theorems.                                                             *)

\* The finding on record is always what evaluate_event makes of the event in hand under
\* the policy loaded: from this every other property follows.
THEOREM Invariant == Spec => []IInv
BY InitInv, StepInv, PTL DEF Spec

\* Every finding evaluate_event returns is the plain observation or one of a known rule,
\* with one of the three severities and a score of at most 95.
THEOREM TypeCorrect == Spec => []TypeOK
BY Invariant, TypeHolds, PTL

\* make_controlled_finding and the scans of the rule lists: disabling a rule takes away
\* its own finding and changes no other, and an override has the last word.
THEOREM ControlsExact == Spec => []ControlsAreExact
BY Invariant, ControlsHold, PTL

\* flow_transfer_allowlisted in evaluate_connect_flow: an allowlisted tool is reported as an
\* override to info on the two flows that go by the user's absence would have it.
THEOREM AllowlistIsOverride == Spec => []AllowlistActsAsOverride
BY Invariant, AllowlistHolds, PTL

\* evaluate_event, its CONNECT branch: a port rule gives way to a less severe flow only by
\* override, allowlist or profile.
THEOREM PortsSoftenedByChoice == Spec => []FlowSoftensKnowingly
BY Invariant, FlowSoftensHolds, PTL

\* evaluate_connect_flow: a transfer from a tree that read a sensitive file is reported
\* as that, critical unless overridden, and no flow left alone would have scored it higher.
THEOREM ReadContextFirst == Spec => []ReadContextWins
BY Invariant, ReadContextHolds, PTL

\* evaluate_event, its memory and OPENAT branches: also asking for write access never makes the
\* report milder.
THEOREM WriteAsSevere == Spec => []WriteNeverSoftens
BY Invariant, WritesHold, PTL

\* classify_net_destination: the byte comparisons are the ranges of the address
\* registries, for every IPv4, mapped and IPv6 address.
THEOREM ScopeCorrect == Spec => []ScopeByRange
BY Invariant, ScopeHolds, PTL
===============================================================================
