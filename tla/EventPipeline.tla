---------------------------- MODULE EventPipeline -----------------------------
(***************************************************************************)
(* From a system call to a finding: the tracepoint programs of             *)
(* dev/sensors/asic_sensor.bpf.c reserve, stamp and submit records in the  *)
(* BPF ring buffer, the host's poll loop takes them out in ring order, and *)
(* handle_event (dev/host/asic_main.c) reads /proc, updates the flow       *)
(* table and evaluates the event.  Processes exit whenever they like, so   *)
(* /proc tells the state at handling time, not at the time of the call.    *)
(*                                                                         *)
(* A record is stamped after its place in the ring was reserved; stamping  *)
(* and submitting are one step here, because nothing reads the record in   *)
(* between.  The reads of /proc for one event are one step.                *)
(***************************************************************************)
EXTENDS FlowTable, Detection, SequencesExt

CONSTANTS
    Pids,          \* processes; 1 is init and stays
    parent,        \* parent[q]: the parent pid q was forked by, 0 for init
    comm,          \* comm[q]: its command name
    tty,           \* processes with a controlling terminal
    Calls,         \* Calls[q]: the system calls q may make
    MaxCalls,      \* bound: system calls of each process
    RingSlots,     \* records the ring buffer holds
    Mortal,        \* processes that may exit
    Policy         \* the policy in force

AllCalls == UNION {Calls[q] : q \in Pids}

ASSUME PipelineAssumption ==
    /\ 1 \in Pids /\ parent[1] = 0 /\ 1 \notin Mortal /\ 0 \notin Pids
    /\ Roots = Pids /\ Mortal \subseteq Pids
    /\ parent \in [Pids -> Pids \cup {0}]
    /\ \A q \in Pids : \A call \in Calls[q] : call.pid = q
    /\ RingSlots \in Nat \ {0} /\ MaxCalls \in [Pids -> Nat]

VARIABLES
    alive,     \* processes that /proc shows
    made,      \* made[q]: number of system calls q has entered
    ring,      \* records reserved and not yet consumed, in ring order
    dropped,   \* identities <<pid, n>> of calls for which reservation failed
    now,       \* bpf_ktime_get_ns
    flow,      \* flow_state
    cursor,    \* flow_state_cursor
    handled    \* history: what handle_event made of each record, in order

vars == <<alive, made, ring, dropped, now, flow, cursor, handled>>

\* Slips that the properties below are there to catch.
Ready_AnyRecord(i) == i \in DOMAIN ring /\ ring[i].ready
Fits_OneMore == Len(ring) <= RingSlots
ObservesRead_Never(e, finding) == FALSE
Submitted_NotReady(rec, ts) == [rec EXCEPT !.ts = ts]

-------------------------------------------------------------------------------
(* /proc, as enrich_process finds it. *)

\* read_proc_ppid: 0 when /proc has no such process.  An orphan belongs to init.
Ppid(q) ==
    IF q \notin alive THEN 0
    ELSE IF parent[q] = 0 \/ parent[q] \in alive THEN parent[q] ELSE 1

CommOf(q) == IF q \in alive THEN comm[q] ELSE ""

enrich_process(q) ==
    [ppid |-> Ppid(q), gppid |-> Ppid(Ppid(q)),
     parent_comm |-> CommOf(Ppid(q)), grandparent_comm |-> CommOf(Ppid(Ppid(q))),
     has_tty |-> q \in alive \cap tty, interactive |-> q \in alive \cap tty,
     user_idle |-> USER_IDLE_UNKNOWN, exe |-> ""]

-------------------------------------------------------------------------------

Init ==
    /\ alive = Pids
    /\ made = [q \in Pids |-> 0]
    /\ ring = <<>>
    /\ dropped = {}
    /\ now = 0
    /\ flow = EmptyTable
    /\ cursor = 0
    /\ handled = <<>>

InCall(q) == \E i \in DOMAIN ring : ring[i].e.pid = q /\ ~ring[i].ready

\* bpf_ringbuf_reserve
Fits == Len(ring) < RingSlots

\* A process enters a traced system call: a record is reserved, or the call goes
\* unseen because the ring is full.
Enter(q, call) ==
    /\ q \in alive /\ ~InCall(q) /\ made[q] < MaxCalls[q]
    /\ made' = [made EXCEPT ![q] = @ + 1]
    /\ IF Fits
       THEN /\ ring' = Append(ring, [id |-> <<q, made[q] + 1>>, e |-> call, ready |-> FALSE, ts |-> 0])
            /\ UNCHANGED dropped
       ELSE /\ dropped' = dropped \cup {<<q, made[q] + 1>>}
            /\ UNCHANGED ring
    /\ UNCHANGED <<alive, now, flow, cursor, handled>>

\* fill_task_identity and bpf_ringbuf_submit
Submitted(rec, ts) == [rec EXCEPT !.ready = TRUE, !.ts = ts]

Submit(q) ==
    /\ \E i \in DOMAIN ring :
        /\ ring[i].e.pid = q /\ ~ring[i].ready
        /\ ring' = [ring EXCEPT ![i] = Submitted(@, now)]
    /\ UNCHANGED <<alive, made, dropped, now, flow, cursor, handled>>

Exit(q) ==
    /\ q \in Mortal \cap alive /\ ~InCall(q)
    /\ alive' = alive \ {q}
    /\ UNCHANGED <<made, ring, dropped, now, flow, cursor, handled>>

Tick ==
    /\ now < MaxTs
    /\ now' = now + 1
    /\ UNCHANGED <<alive, made, ring, dropped, flow, cursor, handled>>

\* ring_buffer__poll hands out records in ring order and stops at one still busy.
Ready(i) == i = 1 /\ ring # <<>> /\ ring[1].ready

\* handle_event on an exec or a connect: /proc is read and the flow table updated
\* before the event is evaluated; evaluation looks the table up only for a public
\* connect of a transfer tool.
HandleTreeEvent(rec) ==
    LET e == rec.e
        c == enrich_process(e.pid)
        r == flow_root_pid(e, c)
        isShell == e.type = "EXEC" /\ is_shell_command(e.comm, e.target)
    IN \E s \in Slots :
        /\ Picks(flow, cursor, s, r, rec.ts)
        /\ LET t == AfterObserve(flow, s, r, rec.ts, FALSE, isShell)
               f == IF IsPublicTransfer(e) THEN LookupAnswer(t, r, rec.ts) ELSE NothingFound
               finding == evaluate_event(Policy, e, c, f)
           IN /\ flow' = IF IsPublicTransfer(e) THEN AfterLookup(t, r, rec.ts) ELSE t
              /\ handled' = Append(handled, [id |-> rec.id, e |-> e, ts |-> rec.ts,
                                             root |-> r, finding |-> finding])
        /\ cursor' = CursorAfter(flow, cursor, r, rec.ts)

ObservesRead(e, finding) == FeedsFlow(Policy, e, finding)

\* handle_event on an open: evaluated first; only a sensitive-read finding makes it
\* read /proc and mark the tree.
HandleOpen(rec) ==
    LET e == rec.e
        c == enrich_process(e.pid)
        r == flow_root_pid(e, c)
        finding == evaluate_event(Policy, e, c, NothingFound)
    IN /\ handled' = Append(handled, [id |-> rec.id, e |-> e, ts |-> rec.ts,
                                      root |-> r, finding |-> finding])
       /\ IF ObservesRead(e, finding)
          THEN /\ \E s \in Slots :
                    /\ Picks(flow, cursor, s, r, rec.ts)
                    /\ flow' = AfterObserve(flow, s, r, rec.ts, TRUE, FALSE)
               /\ cursor' = CursorAfter(flow, cursor, r, rec.ts)
          ELSE UNCHANGED <<flow, cursor>>

\* handle_event on a memory event: nothing but an evaluation.
HandleMemory(rec) ==
    /\ LET e == rec.e
           c == enrich_process(e.pid)
           finding == evaluate_event(Policy, e, c, NothingFound)
       IN handled' = Append(handled, [id |-> rec.id, e |-> e, ts |-> rec.ts,
                                      root |-> flow_root_pid(e, c), finding |-> finding])
    /\ UNCHANGED <<flow, cursor>>

Takes(i) == Ready(i) /\ ring' = RemoveAt(ring, i)

\* One record of ring_buffer__poll.
Poll ==
    /\ \E i \in DOMAIN ring :
        /\ Takes(i)
        /\ \/ ring[i].e.type \in {"EXEC", "CONNECT"} /\ HandleTreeEvent(ring[i])
           \/ ring[i].e.type = "OPENAT" /\ HandleOpen(ring[i])
           \/ ring[i].e.type \in {"MPROTECT", "MMAP"} /\ HandleMemory(ring[i])
    /\ UNCHANGED <<alive, made, dropped, now>>

Next ==
    \/ \E q \in Pids : (\E call \in Calls[q] : Enter(q, call)) \/ Submit(q) \/ Exit(q)
    \/ Tick
    \/ Poll

Spec == Init /\ [][Next]_vars

-------------------------------------------------------------------------------

\* Process q, its parent and its grandparent.
Up(q) == {q, parent[q], IF parent[q] = 0 THEN 0 ELSE parent[parent[q]]} \ {0}

IsRead(h) == h.e.type = "OPENAT" /\ h.finding.rule \in Policy.read_family

\* Records carry identities of calls made; the flow table stays a table.
TypeOK ==
    /\ alive \subseteq Pids /\ 1 \in alive
    /\ \A q \in Pids : made[q] \in 0 .. MaxCalls[q]
    /\ Len(ring) <= RingSlots
    /\ \A i \in DOMAIN ring : ring[i].id[1] = ring[i].e.pid /\ ring[i].ts <= now
    /\ now \in Ts /\ flow \in [Slots -> Entry] /\ cursor \in Slots

\* Each traced call was dropped for want of space, or it was handled or is waiting in
\* the ring, once, and the calls of a process in the order they were made, although
\* several CPUs fill the ring at once.
EveryCallAccounted ==
    LET done == [i \in DOMAIN handled |-> handled[i].id]
        waiting == [i \in DOMAIN ring |-> ring[i].id]
        kept == done \o waiting
    IN /\ \A i, j \in DOMAIN kept :
            (i < j /\ kept[i][1] = kept[j][1]) => kept[i][2] < kept[j][2]
       /\ ToSet(kept) \cap dropped = {}
       /\ ToSet(kept) \cup dropped = UNION {{q} \X (1 .. made[q]) : q \in Pids}

\* Only a finding of the flow has a score: a rule of a list may have been given its id.
Blamed(h) == h.finding.rule = FLOW_SENSITIVE_READ /\ h.finding.score > 0

\* A transfer is blamed for a sensitive read only if a process did read, and that
\* process and the transferring one hang under the same pid at most two
\* generations up, or both under init.
CorrelatedAreKin ==
    \A j \in DOMAIN handled : Blamed(handled[j]) =>
        \E i \in 1 .. j - 1 :
            /\ IsRead(handled[i]) /\ handled[i].root = handled[j].root
            /\ handled[i].root \in {1} \cup (Up(handled[i].e.pid) \cap Up(handled[j].e.pid))

\* A public transfer after a sensitive read handled with the same root, inside the
\* window, is reported as such, if records came in timestamp order, the table had
\* room and the rule is not disabled.
ReadThenConnectCaught ==
    \A i, j \in DOMAIN handled :
        (/\ i < j /\ IsRead(handled[i]) /\ IsPublicTransfer(handled[j].e)
         /\ handled[i].root = handled[j].root /\ FLOW_SENSITIVE_READ \notin Policy.disabled
         /\ handled[j].ts - handled[i].ts <= FlowWindow
         /\ \A m \in 2 .. j : handled[m - 1].ts <= handled[m].ts
         /\ Cardinality({handled[m].root : m \in 1 .. j}) <= FLOW_STATE_ENTRIES)
            => Blamed(handled[j])

-------------------------------------------------------------------------------
(* What the documents say of the flows and the code does not do. *)

Siblings(p, q) == p # q /\ parent[p] = parent[q]

\* plan/architecture/BEHAVIORAL_FLOWS.md: a transfer to a public destination within
\* the window of a sensitive read in the same process tree is reported as that flow.
\* Here for two processes forked by the same parent.
SiblingReadCorrelated ==
    \A i, j \in DOMAIN handled :
        (/\ i < j /\ IsRead(handled[i]) /\ IsPublicTransfer(handled[j].e)
         /\ Siblings(handled[i].e.pid, handled[j].e.pid)
         /\ handled[j].ts - handled[i].ts <= FlowWindow
         /\ \A m \in 2 .. j : handled[m - 1].ts <= handled[m].ts)
            => handled[j].finding.rule = FLOW_SENSITIVE_READ
===============================================================================
