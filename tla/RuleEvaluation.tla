---------------------------- MODULE RuleEvaluation ----------------------------
(***************************************************************************)
(* The host, under any of a set of policies, evaluates one event after the *)
(* other (the evaluate_event call of handle_event).  The properties say    *)
(* how rule controls, allowlist and profile may change what an event is    *)
(* reported as; most compare the finding with the one the same event would *)
(* have raised under another policy.                                       *)
(***************************************************************************)
EXTENDS Detection

CONSTANTS
    Policies,   \* policies a configuration file can produce
    Situations  \* an event e, the context c /proc yields for it, and what the flow
                \* table holds for its tree, f = [sensitive, shell]

ASSUME EvaluationAssumption ==
    /\ \A p \in Policies : IsPolicy(p)
    /\ \A s \in Situations :
          /\ IsEvent(s.e)
          /\ s.c.has_tty \in BOOLEAN /\ s.c.interactive = s.c.has_tty
          /\ s.f.sensitive \in BOOLEAN /\ s.f.shell \in BOOLEAN

VARIABLES
    policy,   \* rules, fixed once loaded
    input,    \* the event in hand with its context and flow entry, or NoInput
    finding   \* the finding evaluate_event returned for it

vars == <<policy, input, finding>>

NoInput == [busy |-> FALSE]

Init ==
    /\ policy \in Policies
    /\ input = NoInput
    /\ finding = Observed

Evaluate(s) ==
    /\ ~input.busy
    /\ input' = [busy |-> TRUE, e |-> s.e, c |-> s.c, f |-> s.f]
    /\ finding' = evaluate_event(policy, s.e, s.c, s.f)
    /\ UNCHANGED policy

\* handle_event returns to the poll loop.
Return ==
    /\ input.busy
    /\ input' = NoInput
    /\ finding' = Observed
    /\ UNCHANGED policy

Next ==
    \/ \E s \in Situations : Evaluate(s)
    \/ Return

Spec == Init /\ [][Next]_vars

-------------------------------------------------------------------------------

\* The finding the event in hand would raise under policy p.
Under(p) == evaluate_event(p, input.e, input.c, input.f)

\* Every finding is the plain observation or one of a rule the policy knows.
TypeOK ==
    /\ policy \in Policies
    /\ finding.severity \in INFO .. CRITICAL
    /\ finding.rule \in Ids(policy) \cup {Observed.rule}
    /\ finding.score \in 0 .. 95

\* The rule controls do what they say on every path to a finding, lists, compiled
\* memory rules and flows alike, and nothing else: disabling a rule takes away its own
\* finding and changes no other, whatever the event falls back to; an override has
\* the last word over profile, allowlist and the rule's own line.  The plain
\* observation is no rule, even if a line of the file gives its id to one.
ControlsAreExact ==
    input.busy =>
        LET Rules == Ids(policy) \ {Observed.rule} IN
        /\ \A id \in Rules :
            LET without == Under([policy EXCEPT !.disabled = @ \cup {id}])
            IN IF id = finding.rule THEN without.rule # id ELSE without = finding
        /\ finding.rule \in Rules =>
              /\ finding.rule \notin policy.disabled
              /\ finding.rule \in DOMAIN policy.override =>
                    finding.severity = policy.override[finding.rule]

\* The flows that ask for no evidence but the absence of a user.
PresenceFlows == {FLOW_NO_TTY, FLOW_IDLE}

\* The policy with an override to info in the place of the allowlist, for the flows of
\* PresenceFlows that have no override of their own.
Lowered(p) ==
    [p EXCEPT !.flow_allow_transfer = {},
              !.override = [id \in DOMAIN @ \cup PresenceFlows |->
                                IF id \in DOMAIN @ THEN @[id] ELSE INFO]]

\* flow_allow_transfer is as much as a rule_severity of info on the two flows that go by
\* the user's absence, weaker than the file's own overrides: an allowlisted tool raises
\* the rule it would raise under that override, with its severity, and no other rule
\* is touched.  The score of such a flow falls as well.  (README.md:247 names FLOW_NO_TTY
\* alone; the code lowers FLOW_IDLE in the same way.  A port line of the file that takes
\* the id of one of the two would share its override, and is left out.)
AllowlistActsAsOverride ==
    (input.busy /\ input.e.type = "CONNECT"
        /\ PresenceFlows \cap ListIds(policy.suspicious_ports) = {}) =>
        LET allowed == flow_transfer_allowlisted(policy, input.e, input.c)
            bare == [policy EXCEPT !.flow_allow_transfer = {}]
            twin == Under(IF allowed THEN Lowered(policy) ELSE bare)
        IN /\ finding.rule = twin.rule /\ finding.severity = twin.severity
           /\ IF allowed /\ finding.rule \in PresenceFlows
              THEN finding.score < twin.score ELSE finding.score = twin.score

\* A port rule gives way to a less severe flow only by the operator's own choice: an
\* override of that flow, the allowlist, or a profile that leaves the two flows of
\* PresenceFlows below critical.  On server and high-signal no connect to a suspicious
\* port is softened by being a transfer too.
FlowSoftensKnowingly ==
    (input.busy /\ input.e.type = "CONNECT"
        /\ finding.severity < is_suspicious_port(policy, input.e).severity) =>
            \/ finding.rule \in DOMAIN policy.override
            \/ /\ finding.rule \in PresenceFlows
               /\ \/ flow_transfer_allowlisted(policy, input.e, input.c)
                  \/ policy.profile = "developer-workstation"
                  \/ policy.profile = "baseline" /\ finding.severity = WARN

\* A transfer to a public address from a tree that read a sensitive file is always
\* reported as that, critical unless overridden, with the highest score of all
\* flows that apply.
ReadContextWins ==
    (input.busy /\ IsPublicTransfer(input.e) /\ input.f.sensitive
        /\ FLOW_SENSITIVE_READ \notin policy.disabled) =>
            /\ finding.rule = FLOW_SENSITIVE_READ
            /\ finding.severity = IF FLOW_SENSITIVE_READ \in DOMAIN policy.override
                                  THEN policy.override[FLOW_SENSITIVE_READ] ELSE CRITICAL
            /\ \A id \in FlowRules : Under([policy EXCEPT !.disabled = FlowRules \ {id}]).score
                                        <= finding.score

\* Asking for more never softens the report: a mapping or an open that also asks for
\* write access is at least as severe, when no rule control interferes and the
\* write rules for a path are as severe as its read rules.
WriteNeverSoftens ==
    (input.busy /\ policy.disabled = {} /\ DOMAIN policy.override = {}) =>
        LET e == input.e
            Sev(x) == evaluate_event(policy, x, input.c, input.f).severity
            written == LastAllowed(policy, policy.sensitive_write, e.target)
            read == LastAllowed(policy, policy.sensitive_read, e.target)
        IN /\ e.type \in {"MPROTECT", "MMAP"} =>
                 finding.severity <= Sev([e EXCEPT !.prot = @ \cup {"WRITE"}])
           /\ (e.type = "OPENAT" /\ (written = NothingMatches \/ written.severity >= read.severity)) =>
                 finding.severity <= Sev([e EXCEPT !.flags = @ \cup {"TRUNC"}])

\* Every connect is classified as the ranges of the address registries say, in
\* either family and up to the first and last address of a range.
ScopeByRange ==
    (input.busy /\ input.e.type = "CONNECT") =>
        classify_net_destination(input.e.dst).scope = ReferenceScope(input.e.dst)

-------------------------------------------------------------------------------
(* What the documents say and the code does not do. *)

\* README, flow_allow_transfer: shell-downloader flows keep priority over an
\* allowlisted transfer tool.
ShellDownloaderKeepsPriority ==
    (input.busy /\ IsPublicTransfer(input.e) /\ HasShellContext(input.e, input.c, input.f)
        /\ flow_transfer_allowlisted(policy, input.e, input.c)
        /\ FLOW_SHELL_DOWNLOADER \notin policy.disabled)
            => finding.rule \in {FLOW_SENSITIVE_READ, FLOW_SHELL_DOWNLOADER}
===============================================================================
