----------------------------- MODULE AgentSession ------------------------------
(***************************************************************************)
(* The life of the daemon (main in dev/host/asic_main.c): it reads its     *)
(* configuration in two passes over one open stream, opens the file again  *)
(* to compute config_hash, attaches the sensor, polls the ring until a     *)
(* signal sets stop, and is started again by systemd.  Meanwhile the       *)
(* administrator edits the file in place, replaces or removes it, and      *)
(* other processes make the calls the sensor sees.                         *)
(*                                                                         *)
(* The daemon's own reads of /proc are traced like everybody else's: the   *)
(* opens of one enrich_process stand here as one record.  A pass over the  *)
(* file is one step, as for a file that fits the buffer of the stream.     *)
(***************************************************************************)
EXTENDS RuleConfig

CONSTANTS
    Workloads,  \* what a behaviour starts from and its bounds: [text, all_events,
                \* starts, edits, calls]
    Missing,    \* no file at config_path
    Edits,      \* Edits[t]: what an administrator may turn text t into
    CallEvents, \* the calls of other processes
    OwnOpen,    \* the record of the daemon opening a file under /proc
    Context,    \* what enrich_process finds
    Situations, \* events [e, c, f] that profiles are compared on
    RingSlots   \* records the ring holds

\* A text is read as lines of strings; the rule of no finding is no id valid_rule_id takes.
ASSUME SessionAssumption ==
    /\ RingSlots \in Nat \ {0}
    /\ Missing \in DOMAIN Edits /\ \A t \in DOMAIN Edits : Edits[t] \subseteq DOMAIN Edits
    /\ \A t \in DOMAIN Edits : t = Missing \/ t \in Seq([key : STRING, parts : Seq(STRING)])
    /\ NothingMatches.rule \in NotIds
    /\ \A s \in Situations : IsEvent(s.e)
    /\ Workloads \subseteq [text : DOMAIN Edits, all_events : BOOLEAN,
                            starts : Nat, edits : Nat, calls : Nat]

VARIABLES
    path,     \* the text at config_path, or Missing
    opened,   \* what the open configuration stream yields: a text, or Missing
    detached, \* the stream's file is no longer the one at config_path
    phase,    \* where main is
    rules,    \* rules
    valid,    \* what load_rules_file is to return
    read,     \* the texts the profile, the rules and the hash were taken from
    changes,  \* how the file changed since the daemon opened it
    stop,     \* stop
    ring,     \* records [e, ready, due]; ready: submitted, and the poll told of it;
              \* due: within the poll's reach when a signal met it
    spool,    \* the records written: what config_hash names, what the rules came from
    left      \* workload: what is left of the bounds, and all_events

vars == <<path, opened, detached, phase, rules, valid, read, changes, stop, ring, spool, left>>

fileVars == <<path, opened, detached, changes>>
loadVars == <<rules, valid, read>>
Unread == [profile |-> Missing, rules |-> Missing, hash |-> Missing]

-------------------------------------------------------------------------------

Init ==
    /\ \E w \in Workloads : path = w.text /\ left = w
    /\ opened = Missing /\ detached = FALSE /\ changes = {}
    /\ phase = "down"
    /\ rules = init_default_rules /\ valid = TRUE /\ read = Unread
    /\ stop = FALSE /\ ring = <<>> /\ spool = {}

\* The process is gone: stream, links, ring and the flag with it.
Gone ==
    /\ phase' = "down" /\ ring' = <<>> /\ stop' = FALSE
    /\ opened' = Missing /\ detached' = FALSE
    /\ UNCHANGED <<path, changes, loadVars, spool, left>>

(* Start-up. *)

\* systemd starts the daemon, which opens its configuration; without a file it runs
\* on the compiled defaults.
Start ==
    /\ phase = "down" /\ left.starts > 0
    /\ left' = [left EXCEPT !.starts = @ - 1]
    /\ rules' = init_default_rules /\ valid' = TRUE /\ read' = Unread
    /\ opened' = path /\ detached' = FALSE /\ changes' = {}
    /\ phase' = IF path = Missing THEN "hashing" ELSE "profile"
    /\ UNCHANGED <<path, stop, ring, spool>>

\* The ring has nothing to hand out: it is empty, or its oldest record is reserved and
\* not yet submitted, whatever stands behind it.
HeadBusy == ring # <<>> => ~ring[1].ready

\* Slips that the properties below are there to catch.
SecondPass_Reopens == IF path = Missing THEN opened ELSE path
PollIsDone_OnStop == HeadBusy \/ stop
TimesOut_Never == FALSE

\* select_profile_from_file
ReadProfile ==
    /\ phase = "profile"
    /\ read' = [read EXCEPT !.profile = opened]
    /\ valid' = ProfilesSound(opened)
    /\ phase' = IF ProfilesSound(opened) THEN "rules" ELSE "rejected"
    /\ UNCHANGED <<fileVars, rules, stop, ring, spool, left>>

\* After fseek the second pass reads the same stream, as it is by then.
SecondPass == opened

ReadRules ==
    LET st == LoadFrom(read.profile, SecondPass) IN
    /\ phase = "rules"
    /\ read' = [read EXCEPT !.rules = SecondPass]
    /\ rules' = st.rules /\ valid' = st.valid
    /\ opened' = Missing /\ detached' = FALSE
    /\ phase' = IF st.valid THEN "hashing" ELSE "rejected"
    /\ UNCHANGED <<path, changes, stop, ring, spool, left>>

Reject == phase = "rejected" /\ Gone

\* compute_config_hash names the text it reads; equal hashes of different texts are
\* left out.
Hashed(t) == t

HashConfig ==
    /\ phase = "hashing"
    /\ read' = [read EXCEPT !.hash = Hashed(path)]
    /\ phase' = "attaching"
    /\ UNCHANGED <<fileVars, rules, valid, stop, ring, spool, left>>

Record == [hash |-> read.hash, profile |-> read.profile, rules |-> read.rules]

\* With its signal handlers in place main loads the sensor, attaches its programs and
\* writes the policy summary.
Attach ==
    /\ phase = "attaching"
    /\ phase' = "testing"
    /\ spool' = spool \cup {Record}
    /\ UNCHANGED <<fileVars, loadVars, stop, ring, left>>

\* Any of the loading, attaching and ring steps fails: what was attached is destroyed.
AttachFails == phase = "attaching" /\ Gone

(* The loop. *)

Polling == phase \in {"waiting", "draining"}
Attached == phase \in {"testing", "leaving"} \/ Polling

TestStop ==
    /\ phase = "testing"
    /\ phase' = IF stop THEN "leaving" ELSE "waiting"
    /\ UNCHANGED <<fileVars, loadVars, stop, ring, spool, left>>

\* epoll reports a ring that holds anything, be it reserved only.
Wake ==
    /\ phase = "waiting" /\ ring # <<>>
    /\ phase' = "draining"
    /\ UNCHANGED <<fileVars, loadVars, stop, ring, spool, left>>

\* The poll has waited 250 ms, or a signal interrupted it; records come first.
TimesOut == HeadBusy

TimeOut ==
    /\ phase = "waiting" /\ TimesOut
    /\ phase' = "testing"
    /\ UNCHANGED <<fileVars, loadVars, stop, ring, spool, left>>

\* ring_buffer__poll returns once the ring has nothing more to hand out.
PollIsDone == HeadBusy

PollReturns ==
    /\ phase = "draining" /\ PollIsDone
    /\ phase' = "testing"
    /\ UNCHANGED <<fileVars, loadVars, stop, ring, spool, left>>

\* bpf_ringbuf_reserve finds room for a record, or the call leaves none.
Pushed(records, e, ready) ==
    IF Len(records) < RingSlots THEN Append(records, [e |-> e, ready |-> ready, due |-> FALSE])
    ELSE records

Evaluated(e) == evaluate_event(Policy(rules), e, Context, [sensitive |-> FALSE, shell |-> FALSE])

\* Which findings suppress_duplicate may swallow; a window of 0 swallows none.
MaySuppress(finding) == ~left.all_events /\ rules.dedup_window > 0

\* handle_event reads /proc for an exec or a connect, for a sensitive read, and for
\* whatever it writes.
Enriches(e, finding, emitted) ==
    e.type \in {"EXEC", "CONNECT"} \/ FeedsFlow(Policy(rules), e, finding) \/ emitted

Handle ==
    /\ phase = "draining" /\ ~HeadBusy
    /\ LET e == ring[1].e
           finding == Evaluated(e)
       IN \E emitted \in BOOLEAN :
            /\ emitted => should_emit(Policy(rules), left.all_events, finding)
            /\ ~emitted => \/ ~should_emit(Policy(rules), left.all_events, finding)
                           \/ MaySuppress(finding)
            /\ ring' = IF Enriches(e, finding, emitted) THEN Pushed(Tail(ring), OwnOpen, TRUE) ELSE Tail(ring)
            /\ spool' = IF emitted THEN spool \cup {Record} ELSE spool
    /\ UNCHANGED <<fileVars, loadVars, phase, stop, left>>

\* flush_dedup_cache and the destruction of ring and links.
Leave == phase = "leaving" /\ Gone

(* Everybody else. *)

\* The poll is going to hand out record i before it comes to an end.
InReach(i) == Polling /\ \A k \in 1 .. i : ring[k].ready

\* Before the handlers are installed the signal ends the process.
Signal ==
    /\ phase # "down" /\ ~stop
    /\ IF phase \in {"profile", "rules", "rejected", "hashing"} THEN Gone
       ELSE /\ stop' = TRUE
            /\ ring' = [i \in DOMAIN ring |-> [ring[i] EXCEPT !.due = @ \/ InReach(i)]]
            /\ UNCHANGED <<fileVars, loadVars, phase, spool, left>>

Kill == phase # "down" /\ Gone

\* A traced call reserves its record first and submits it when it is filled in, while
\* other CPUs do the same.
Reserve(e) ==
    /\ Attached /\ left.calls > 0
    /\ left' = [left EXCEPT !.calls = @ - 1]
    /\ ring' = Pushed(ring, e, FALSE)
    /\ UNCHANGED <<fileVars, loadVars, phase, stop, spool>>

Submit(i) ==
    /\ ~ring[i].ready
    /\ ring' = [ring EXCEPT ![i].ready = TRUE]
    /\ UNCHANGED <<fileVars, loadVars, phase, stop, spool, left>>

\* An editor that writes the file in place: an open stream yields the new text.
EditInPlace(t) ==
    /\ left.edits > 0 /\ t # Missing /\ path # Missing
    /\ left' = [left EXCEPT !.edits = @ - 1]
    /\ path' = t
    /\ opened' = IF opened = Missing \/ detached THEN opened ELSE t
    /\ changes' = changes \cup {"edit"}
    /\ UNCHANGED <<detached, loadVars, phase, stop, ring, spool>>

\* A rename over the file, a removal, or a new file: an open stream keeps the old one.
Replace(t) ==
    /\ left.edits > 0
    /\ left' = [left EXCEPT !.edits = @ - 1]
    /\ path' = t
    /\ detached' = (opened # Missing)
    /\ changes' = changes \cup {"replace"}
    /\ UNCHANGED <<opened, loadVars, phase, stop, ring, spool>>

-------------------------------------------------------------------------------

Daemon ==
    \/ ReadProfile \/ ReadRules \/ Reject \/ HashConfig \/ Attach \/ AttachFails
    \/ TestStop \/ Wake \/ TimeOut \/ PollReturns \/ Handle \/ Leave

World ==
    \/ Start \/ Signal \/ Kill
    \/ \E e \in CallEvents : Reserve(e)
    \/ \E i \in DOMAIN ring : Submit(i)
    \/ \E t \in Edits[path] : EditInPlace(t) \/ Replace(t)

Next == Daemon \/ World

\* Once its handlers are in place, main runs on: the poll times out, handle_event
\* returns.  Other processes make only so many calls while the daemon stops.
Fairness ==
    /\ WF_vars(Attach) /\ WF_vars(TestStop) /\ WF_vars(Wake) /\ WF_vars(TimeOut)
    /\ WF_vars(PollReturns) /\ WF_vars(Handle) /\ WF_vars(Leave)

Spec == Init /\ [][Next]_vars /\ Fairness

-------------------------------------------------------------------------------
(* Properties. *)

\* Every variable has the shape its code gives it; what a stop leaves behind is none.
TypeOK ==
    /\ path \in DOMAIN Edits /\ opened \in DOMAIN Edits
    /\ phase \in {"down", "profile", "rules", "rejected", "hashing", "attaching", "leaving",
                  "testing", "waiting", "draining"}
    /\ \A list \in Lists : Len(rules.list[list]) <= MAX_RULES
    /\ changes \subseteq {"edit", "replace"}
    /\ detached => opened # Missing
    /\ Len(ring) <= RingSlots /\ (ring # <<>> => Attached)
    /\ stop => Attached \/ phase = "attaching"

Loaded == read.rules # Missing
LoadedWhole == Loaded /\ read.profile = read.rules

\* The value a line adds to a list, as it is stored there, or removes from it.
Means(list, line) ==
    IF line.key # list THEN Sought(list, line.parts)
    ELSE Stored(list, IF list \in DetectionLists
                      THEN split_rule_value(list, line.parts).value ELSE line.parts)

\* The lines of the loaded text that add to a list or remove from it, and those of them
\* that are about value v.
Naming(list) ==
    {i \in DOMAIN read.rules : read.rules[i].parts # <<>>
                                  /\ read.rules[i].key \in {list, DisableKey[list]}}
About(list, v) == {i \in Naming(list) : Means(list, read.rules[i]) = v}

\* "Later duplicate rules override earlier duplicate severities": in an accepted
\* configuration the last line about a value decides whether the list has it and with
\* which id and severity (the scan finds the last entry first), a value no line is about
\* is as the profile left it, in number and order, and the last line about a rule id
\* decides its override.  Values are compared as they are stored: a disable line is
\* about the value it spells out.
LastLineDecides ==
    (phase = "hashing" /\ Loaded) =>
        LET text == read.rules
            Overriding == {i \in DOMAIN text : text[i].key = "rule_severity" /\ text[i].parts # <<>>}
            Is(list, v) == {k \in DOMAIN rules.list[list] : rules.list[list][k].value = v}
            AsLastSaid(list, v) ==
                LET line == text[Max(About(list, v))] IN
                IF line.key # list THEN Is(list, v) = {}
                ELSE /\ Is(list, v) # {}
                     /\ list \in DetectionLists =>
                            LET entry == rules.list[list][Max(Is(list, v))]
                                rule == split_rule_value(list, line.parts)
                            IN entry.id = rule.id /\ entry.severity = rule.severity
            Untouched(list, r) == Removed(r.list[list], {Means(list, text[i]) : i \in Naming(list)})
        IN /\ \A list \in Lists :
                /\ \A i \in Naming(list) : AsLastSaid(list, Means(list, text[i]))
                /\ Untouched(list, rules) =
                       Untouched(list, apply_profile(init_default_rules, SelectedProfile(read.profile)))
           /\ \A i \in Overriding :
                LET same == {k \in Overriding : text[k].parts[1] = text[i].parts[1]}
                IN rules.override[text[i].parts[1]] = SeverityOf[text[Max(same)].parts[2]]

\* "Explicit entries and disable/override controls apply after it": where the profile
\* line stands makes no difference to what is loaded, or to whether it is.
ProfileBeforeLines ==
    (phase \in {"hashing", "rejected"} /\ LoadedWhole) =>
        LET named == {line \in ToSet(read.rules) : IsProfileLine(line)}
            others == Those(read.rules, ToSet(read.rules) \ named)
            first == Those(read.rules, named) \o others
            last == others \o Those(read.rules, named)
            loaded == [rules |-> rules, valid |-> valid]
        IN LoadFrom(first, first) = loaded /\ LoadFrom(last, last) = loaded

\* The profiles rank as they are described: the lines of the loaded text report no event as
\* less severe under a stricter profile, whatever the profile does to the lists the lines
\* then work on and to the flows.  developer-workstation is below baseline and baseline
\* below server; high-signal is above baseline but for the two shells it no longer reports
\* the start of (README.md:240).  Where the lines overfill a list under one of the two,
\* neither is said to be stricter.
ProfilesRank ==
    (phase = "hashing" /\ Loaded) =>
        LET load == [name \in Profiles |->
                        LoadFrom(<<[key |-> "profile", parts |-> <<name>>]>>, read.rules)]
            policy == [name \in Profiles |-> Policy(load[name].rules)]
            NotAbove(name, stricter, s) ==
                (load[name].valid /\ load[stricter].valid) =>
                    evaluate_event(policy[name], s.e, s.c, s.f).severity
                        <= evaluate_event(policy[stricter], s.e, s.c, s.f).severity
            StartsShell(e) ==
                e.type = "EXEC" /\ \E shell \in {"bash", "sh"} :
                                        e.target \in Hits("suspicious_exec_exact", <<shell>>)
        IN \A s \in Situations :
              /\ NotAbove("developer-workstation", "baseline", s)
              /\ NotAbove("baseline", "server", s)
              /\ ~StartsShell(s.e) => NotAbove("baseline", "high-signal", s)

\* Saying a second time that something is disabled changes nothing, except for a
\* suspicious port: there it makes the whole configuration invalid.
DisablingTwice ==
    (phase \in {"hashing", "rejected"} /\ LoadedWhole) =>
        \A i \in {k \in DOMAIN read.rules : read.rules[k].parts # <<>>} :
            LET key == read.rules[i].key
                again == InsertAt(read.rules, i, read.rules[i])
            IN IF key = "disable_suspicious_port" THEN ~LoadFrom(again, again).valid
               ELSE key \in {DisableKey[list] : list \in Lists} \cup {"disable_rule_id"} =>
                        LoadFrom(again, again) = [rules |-> rules, valid |-> valid]

\* A configuration that is replaced by renaming another file over it is read whole:
\* profile and rules come from one and the same text, however often it is replaced;
\* and the label names that text, a missing file counting as the compiled defaults,
\* if nobody touched the file between the two opens.
RenameNeverMixes ==
    /\ (Loaded /\ "edit" \notin changes) => read.profile = read.rules
    /\ (phase = "attaching" /\ changes = {}) => read.hash = read.rules

\* A signal that meets the poll does not cost a record that is submitted, unless one
\* reserved before it is not: it is handled before the cache is flushed.  What stands
\* behind a reservation, or comes in between the poll and the test of stop, is lost.
StopDrainsTheRing == phase = "leaving" => \A i \in DOMAIN ring : ~ring[i].due

\* The daemon's own reads of /proc keep it busy for good: handling the record of one
\* makes it read /proc again.
SelfFeeding ==
    LET finding == Evaluated(OwnOpen) IN
    Enriches(OwnOpen, finding, should_emit(Policy(rules), left.all_events, finding))

\* A stop signal ends the daemon, whatever it was doing, unless it is busy with
\* records of its own.
StopHonoured == (stop /\ ~SelfFeeding) ~> (phase = "down")

-------------------------------------------------------------------------------
(* What the documents say and the code does not do. *)

\* README: config_hash is a hash of the active config file.  Records with the same
\* hash come from the same rules.
SameHashSameRules ==
    \A r1, r2 \in spool : r1.hash = r2.hash => r1.profile = r2.profile /\ r1.rules = r2.rules
===============================================================================
