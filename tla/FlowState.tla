------------------------------ MODULE FlowState -------------------------------
(***************************************************************************)
(* The flow table under a stream of events (dev/host/asic_main.c).  One    *)
(* step is the flow part of one call of handle_event.  Events carry the    *)
(* timestamp the sensor gave them on its CPU, so a step may carry a        *)
(* timestamp older than one already handled.  The workload, chosen at the  *)
(* start, bounds the process trees, the time and the lateness.             *)
(***************************************************************************)
EXTENDS FlowTable, FiniteSets

CONSTANT Workloads  \* bounds: trees that send events, latest timestamp, and skew, how
                    \* far a timestamp may lie behind the newest one

ASSUME WorkloadAssumption == Workloads \subseteq [trees : Nat, latest : Ts, skew : Nat]

VARIABLES
    workload,    \* the bounds of this behaviour
    flow,        \* flow_state
    cursor,      \* flow_state_cursor modulo FLOW_STATE_ENTRIES
    clock,       \* newest timestamp handled so far
    lastAt,      \* lastAt[r]: timestamp of the event of root r handled last, or None
    readAt,      \* readAt[r]: timestamp of the sensitive read of root r handled last
    shells,      \* roots in whose tree a shell was executed
    displaced,   \* roots whose entry was taken over in a full table since their read
    overtaken,   \* roots for which an event older than their entry came since their read
    asker,       \* root evaluate_connect_flow looked up for the last event, or NoRoot
    answer       \* what it learnt from that lookup

vars == <<workload, flow, cursor, clock, lastAt, readAt, shells, displaced, overtaken,
          asker, answer>>

None == -1

\* The root whose entry flow_state_get takes over, if the table is full.
Displaced(r, now) ==
    IF ~Known(flow, r, now) /\ Full(flow, now) THEN {flow[cursor].root} ELSE {}

\* The roots with an entry newer than now: flow_entry_expired holds for it.
Overtaken(now) == {flow[s].root : s \in {q \in Slots : flow[q].active /\ now < flow[q].last}}

\* What every event does apart from the table: an event of root r at time now.
Event(r, now) ==
    /\ now <= workload.latest /\ now + workload.skew >= clock
    /\ Cardinality({q \in Roots : lastAt[q] # None} \cup {r}) <= workload.trees
    /\ clock' = IF now > clock THEN now ELSE clock
    /\ lastAt' = [lastAt EXCEPT ![r] = now]
    /\ cursor' = CursorAfter(flow, cursor, r, now)
    /\ UNCHANGED workload

-------------------------------------------------------------------------------

Init ==
    /\ workload \in Workloads
    /\ flow = EmptyTable
    /\ cursor = 0
    /\ clock = 0
    /\ lastAt = [r \in Roots |-> None]
    /\ readAt = [r \in Roots |-> None]
    /\ shells = {}
    /\ displaced = {} /\ overtaken = {}
    /\ asker = NoRoot /\ answer = NothingFound

\* EXEC: flow_state_observe_event.
Exec(r, now, isShell) ==
    /\ Event(r, now)
    /\ \E s \in Slots :
        Picks(flow, cursor, s, r, now) /\ flow' = AfterObserve(flow, s, r, now, FALSE, isShell)
    /\ shells' = IF isShell THEN shells \cup {r} ELSE shells
    /\ displaced' = displaced \cup Displaced(r, now)
    /\ overtaken' = overtaken \cup Overtaken(now)
    /\ asker' = NoRoot /\ answer' = NothingFound
    /\ UNCHANGED readAt

\* OPENAT with a file.sensitive_read finding: flow_state_observe_sensitive_read.
SensitiveRead(r, now) ==
    /\ Event(r, now)
    /\ \E s \in Slots :
        Picks(flow, cursor, s, r, now) /\ flow' = AfterObserve(flow, s, r, now, TRUE, FALSE)
    /\ readAt' = [readAt EXCEPT ![r] = now]
    /\ displaced' = (displaced \cup Displaced(r, now)) \ {r}
    /\ overtaken' = (overtaken \cup Overtaken(now)) \ {r}
    /\ asker' = NoRoot /\ answer' = NothingFound
    /\ UNCHANGED shells

\* CONNECT that evaluate_connect_flow dismisses at once: the destination is not
\* public or the program no transfer tool.
Connect(r, now) ==
    /\ Event(r, now)
    /\ \E s \in Slots :
        Picks(flow, cursor, s, r, now) /\ flow' = AfterObserve(flow, s, r, now, FALSE, FALSE)
    /\ displaced' = displaced \cup Displaced(r, now)
    /\ overtaken' = overtaken \cup Overtaken(now)
    /\ asker' = NoRoot /\ answer' = NothingFound
    /\ UNCHANGED <<readAt, shells>>

\* CONNECT of a transfer tool to a public destination: the table is updated, then
\* evaluate_connect_flow looks the root up with the same timestamp.
TransferConnect(r, now) ==
    /\ Event(r, now)
    /\ \E s \in Slots :
        /\ Picks(flow, cursor, s, r, now)
        /\ LET t == AfterObserve(flow, s, r, now, FALSE, FALSE) IN
              flow' = AfterLookup(t, r, now) /\ answer' = LookupAnswer(t, r, now)
    /\ asker' = r
    /\ displaced' = displaced \cup Displaced(r, now)
    /\ overtaken' = overtaken \cup Overtaken(now)
    /\ UNCHANGED <<readAt, shells>>

Next ==
    \E r \in Roots, now \in Ts :
        \/ \E isShell \in BOOLEAN : Exec(r, now, isShell)
        \/ SensitiveRead(r, now)
        \/ Connect(r, now)
        \/ TransferConnect(r, now)

Spec == Init /\ [][Next]_vars
-------------------------------------------------------------------------------

\* Every variable stays in its type, the cursor inside the table.
TypeOK ==
    /\ workload \in Workloads
    /\ flow \in [Slots -> Entry]
    /\ cursor \in Slots
    /\ clock \in Ts
    /\ lastAt \in [Roots -> Ts \cup {None}]
    /\ readAt \in [Roots -> Ts \cup {None}]
    /\ shells \subseteq Roots
    /\ displaced \subseteq Roots /\ overtaken \subseteq Roots
    /\ asker \in Roots \cup {NoRoot}
    /\ answer \in [found : BOOLEAN, sensitive : BOOLEAN, shell : BOOLEAN]

\* flow_state_get never opens a second entry for a process tree, whatever expired
\* or was taken over meanwhile, and the lookup of evaluate_connect_flow finds the one
\* its own event has just refreshed: the code never correlates against nothing.
OneEntryPerRoot ==
    /\ \A p, s \in Slots :
        (flow[p].active /\ flow[s].active /\ flow[p].root = flow[s].root) => p = s
    /\ asker # NoRoot => answer.found

\* What an entry claims of its tree is true: it carries the time of the event of
\* that root handled last, and each flag stands for a read or a shell of that very
\* tree; slots change owner without handing on flags.
EntryIsTrue ==
    \A s \in Slots : flow[s].active =>
        LET r == flow[s].root IN
        /\ r \in Roots
        /\ flow[s].last = lastAt[r]
        /\ flow[s].sensitive => readAt[r] # None
        /\ flow[s].shell => r \in shells

\* A sensitive read is remembered for at least the flow window, unless the tree's
\* entry was taken over in a full table or an older event came after a newer one.
ReadRemembered ==
    \A r \in Roots \ (displaced \cup overtaken) :
        (readAt[r] # None /\ clock - readAt[r] <= FlowWindow) =>
            \E s \in Slots : /\ flow[s].active /\ flow[s].root = r
                             /\ flow[s].sensitive /\ flow[s].last >= readAt[r]

\* A tree that was silent for more than the window starts afresh: the connect
\* that breaks the silence is not correlated with anything before it.
SilenceForgets ==
    [][(asker' # NoRoot /\ (answer'.sensitive \/ answer'.shell)) =>
          LET before == lastAt[asker']
              now == lastAt'[asker']
          IN before # None /\ before <= now /\ now - before <= FlowWindow]_vars

===============================================================================
