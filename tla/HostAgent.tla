------------------------------- MODULE HostAgent -------------------------------
(***************************************************************************)
(* The agent from the system call to its output: EventPipeline up to the   *)
(* finding, then the rest of handle_event (dev/host/asic_main.c), which    *)
(* counts the event, asks the duplicate cache, and prints; and the end of  *)
(* main, which flushes the cache.  Printing also feeds the two rings of    *)
(* dev/host/asic_telemetry.c.                                              *)
(*                                                                         *)
(* The cache is DedupCache itself, with the findings of the pipeline for   *)
(* its keys.  A printed record is its key, its repeat count, and whether   *)
(* its severity makes it an alert; kills are DedupCache's alone.           *)
(***************************************************************************)
EXTENDS EventPipeline

CONSTANTS
    NoKey, NoDst, DEDUP_ENTRIES, dedup_window_ns, TsModulus, RepeatModulus, MaxSeen,
    MAX_ALERTS, MAX_RECENT_EVENTS

\* What same_dedup_key compares: everything about the event but the address.
Fields(e) ==
    CASE e.type = "EXEC" -> <<e.target>>
      [] e.type = "OPENAT" -> <<e.target, e.flags>>
      [] e.type = "CONNECT" -> <<e.dst.family, e.port>>
      [] OTHER -> <<e.prot, e.anonymous>>
HasFlow(finding) == finding.rule \in FlowRules /\ finding.score > 0
FlowRoot(finding, root) == IF HasFlow(finding) THEN root ELSE 0
FindingKey(e, finding, root) ==
    <<e.type, e.pid, e.comm>> \o Fields(e) \o <<finding.rule, FlowRoot(finding, root)>>
DstOf(e) == IF e.type = "CONNECT" THEN e.dst.addr ELSE <<>>

\* What the calls can raise; a rule of a line may have a flow's id, and has no score.
FindingKeys ==
    UNION {{FindingKey(e, [rule |-> id, score |-> score], r) :
                id \in RulesOf(Policy, e), score \in {0, 1}, r \in Pids} : e \in AllCalls}
Dsts == {DstOf(e) : e \in AllCalls}

ASSUME AgentAssumption ==
    /\ IsPolicy(Policy) /\ \A e \in AllCalls : IsEvent(e)
    /\ NoKey \notin FindingKeys /\ NoDst \notin Dsts
    /\ DEDUP_ENTRIES \in Nat \ {0} /\ dedup_window_ns \in Nat
    /\ TsModulus \in Nat /\ MaxTs < TsModulus /\ dedup_window_ns < TsModulus
    /\ RepeatModulus \in Nat \ {0, 1} /\ MaxSeen \in Nat
    /\ MAX_ALERTS \in Nat \ {0} /\ MAX_RECENT_EVENTS \in Nat \ {0}

VARIABLES
    all_events,          \* --all-events
    dedup_cache, dedup_cursor, stage, flushPos, clock,
    seen, shown, summed, summaries, lost, lastTs, raised, told,
    telemetry,           \* g_telemetry
    printed              \* the records of the JSONL output, in order

Cache == INSTANCE DedupCache WITH
    Keys <- FindingKeys, Skew <- MaxTs, cache <- dedup_cache, cursor <- dedup_cursor

cacheVars == <<dedup_cache, dedup_cursor, stage, flushPos, clock,
               seen, shown, summed, summaries, lost, lastTs, raised, told>>
agentVars == <<all_events, cacheVars, telemetry, printed>>
allVars == <<vars, agentVars>>

KeyOf(h) == FindingKey(h.e, h.finding, h.root)

NothingCounted ==
    [exec_events |-> 0, mem_events |-> 0, file_events |-> 0, net_events |-> 0,
     suspicious_events |-> 0, alert_count |-> 0, alert_head |-> 0, recent_head |-> 0,
     alerts |-> <<>>, recent_events |-> <<>>]

\* Slips that the properties below are there to catch.
Advanced_NoWrap(head, size) == head + 1
Emits_AboveThreshold(h) ==
    all_events \/ (h.finding.severity > INFO /\ h.finding.severity > Policy.min_severity)

Advanced(head, size) == (head + 1) % size

\* Ring r, of which no more is known than was ever written, with x at place i
Put(r, i, x) == [k \in DOMAIN r \cup {i} |-> IF k = i THEN x ELSE r[k]]

\* add_traffic, and for an alert add_alert.
Shown(t, record) ==
    LET u == [t EXCEPT !.recent_events = Put(@, t.recent_head, record),
                       !.recent_head = Advanced(@, MAX_RECENT_EVENTS)]
    IN IF ~record.alert THEN u
       ELSE [u EXCEPT !.alerts = Put(@, t.alert_head, record),
                      !.alert_head = Advanced(@, MAX_ALERTS),
                      !.alert_count = IF @ < MAX_ALERTS THEN @ + 1 ELSE @]

\* handle_event counts the event before it decides about a record.
Counted(t, h) ==
    LET u == [t EXCEPT !.suspicious_events = IF h.finding.severity > INFO THEN @ + 1 ELSE @]
    IN CASE h.e.type = "EXEC" -> [u EXCEPT !.exec_events = @ + 1]
         [] h.e.type \in {"MPROTECT", "MMAP"} -> [u EXCEPT !.mem_events = @ + 1]
         [] h.e.type = "OPENAT" -> [u EXCEPT !.file_events = @ + 1]
         [] h.e.type = "CONNECT" -> [u EXCEPT !.net_events = @ + 1]

\* An output is what has been printed and what g_telemetry holds then.
Output(t) == [telemetry |-> t, printed |-> printed]
Becomes(out) == telemetry' = out.telemetry /\ printed' = out.printed

\* emit_finding
Shows(out, record) ==
    [telemetry |-> Shown(out.telemetry, record), printed |-> Append(out.printed, record)]

emit_dedup_entry(out, s) ==
    IF ~Cache!HasSummary(s) THEN out
    ELSE Shows(out, [key |-> dedup_cache[s].key, count |-> dedup_cache[s].repeat, alert |-> TRUE])

Emits(h) == should_emit(Policy, all_events, h.finding)

-------------------------------------------------------------------------------

AgentInit == Init /\ all_events \in BOOLEAN /\ Cache!Init /\ telemetry = NothingCounted /\ printed = <<>>

\* What handle_event does with the finding of record h.
Report(h) ==
    LET key == KeyOf(h)
        dst == DstOf(h.e)
        out == Output(Counted(telemetry, h))
        record == [key |-> key, count |-> 0, alert |-> h.finding.severity > INFO]
    IN \/ ~Emits(h) /\ Becomes(out) /\ UNCHANGED cacheVars
       \/ Emits(h) /\ all_events /\ Becomes(Shows(out, record)) /\ UNCHANGED cacheVars
       \/ /\ Emits(h) /\ ~all_events
          /\ \/ Cache!Suppress(key, dst, h.ts) /\ Becomes(out)
             \/ /\ Cache!Expire(key, dst, h.ts)
                /\ \E s \in Cache!Slots :
                      Cache!Match(s, key) /\ Becomes(Shows(emit_dedup_entry(out, s), record))
             \/ /\ Cache!Insert(key, dst, h.ts)
                /\ Becomes(Shows(emit_dedup_entry(out, dedup_cursor), record))

Handle == stage = "running" /\ Poll /\ Report(Last(handled')) /\ UNCHANGED all_events

\* The poll has returned and the loop sees the stop flag.  What the ring holds by then,
\* be it submitted, is never handled.
StopLoop ==
    /\ Cache!Stop
    /\ UNCHANGED <<vars, all_events, telemetry, printed>>

Flush ==
    /\ Cache!FlushEntry
    /\ Becomes(emit_dedup_entry(Output(telemetry), flushPos))
    /\ UNCHANGED <<vars, all_events>>

\* What other processes do once the loop is left reaches no output and is left out.
Traced ==
    /\ stage = "running"
    /\ \/ \E q \in Pids : (\E call \in Calls[q] : Enter(q, call)) \/ Submit(q) \/ Exit(q)
       \/ Tick
    /\ UNCHANGED agentVars

AgentNext == Handle \/ StopLoop \/ Flush \/ Traced

\* A tracepoint program runs to its end, and while the loop runs it keeps polling:
\* handle_event always returns, so Handle can take a step whenever a record can be taken.
AgentFairness ==
    /\ WF_ring(stage = "running" /\ \E i \in DOMAIN ring : Takes(i))
    /\ \A q \in {p \in Pids : Calls[p] # {}} : WF_vars(stage = "running" /\ Submit(q))

AgentSpec == AgentInit /\ [][AgentNext]_allVars /\ AgentFairness

-------------------------------------------------------------------------------

\* Every record is of a finding the calls can raise; the rings, heads and counters of
\* the telemetry stay in range.
AgentTypeOK ==
    /\ TypeOK /\ Cache!TypeOK
    /\ \A i \in DOMAIN printed :
          printed[i].key \in FindingKeys /\ printed[i].count \in 0 .. RepeatModulus - 1
    /\ DOMAIN telemetry.alerts \subseteq 0 .. MAX_ALERTS - 1
    /\ DOMAIN telemetry.recent_events \subseteq 0 .. MAX_RECENT_EVENTS - 1
    /\ telemetry.alert_count \in 0 .. MAX_ALERTS

Worth(h) == h.finding.severity >= WARN /\ h.finding.severity >= Policy.min_severity

\* The findings with key k that the printed records stand for, one by one.
StandsFor(record) == IF record.count = 0 THEN 1 ELSE record.count
Told(k) == UNION {{i} \X (1 .. StandsFor(printed[i])) : i \in {j \in DOMAIN printed : printed[j].key = k}}

\* From the call to the output nothing is lost in silence, whatever order records came
\* in and whichever entries made way in the cache: once the agent has exited, each
\* finding worth a record stands in one, alone or in a repeat count, and in no second;
\* but for what a wrap of the 32-bit repeat_count swallowed.
NothingUntold ==
    stage = "exited" =>
        \A k \in FindingKeys :
            Cardinality(Told(k)) + lost[k] =
                Cardinality({i \in DOMAIN handled :
                                KeyOf(handled[i]) = k /\ (all_events \/ Worth(handled[i]))})

\* The positions of the alerts among the records, and how many of positions S follow i.
Alerts == {i \in DOMAIN printed : printed[i].alert}
Behind(S, i) == Cardinality({j \in S : j > i})

\* The records at positions S stand in a ring before its head, the latest first, as
\* many as the ring has places.
Holds(r, head, size, S) ==
    \A i \in S : Behind(S, i) < size => r[(head - 1 - Behind(S, i)) % size] = printed[i]

\* g_telemetry tells the same story as the output and the events handled: the rings
\* hold the latest records and the latest alerts, however often they went round, and
\* the counters add up.
TelemetryAgrees ==
    LET t == telemetry
        alerts == Cardinality(Alerts)
    IN /\ t.alert_count = (IF alerts < MAX_ALERTS THEN alerts ELSE MAX_ALERTS)
       /\ Holds(t.alerts, t.alert_head, MAX_ALERTS, Alerts)
       /\ Holds(t.recent_events, t.recent_head, MAX_RECENT_EVENTS, DOMAIN printed)
       /\ t.exec_events + t.mem_events + t.file_events + t.net_events = Len(handled)
       /\ alerts <= t.suspicious_events

\* Calls come to an end, and then the ring does: unless the agent is stopped, no record
\* is left behind one that stays busy.  By EveryCallAccounted what left the ring was handled.
RingDrains == ring # <<>> ~> (ring = <<>> \/ stage # "running")
===============================================================================
