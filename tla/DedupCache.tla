------------------------------ MODULE DedupCache ------------------------------
(***************************************************************************)
(* The duplicate-finding cache of the EDR host (dev/host/asic_main.c,      *)
(* suppress_duplicate, emit_dedup_entry, flush_dedup_cache): a fixed array *)
(* of entries, replaced round robin, that swallows repeats of a finding    *)
(* and later reports how many it swallowed.                                *)
(*                                                                         *)
(* A key stands for the twelve fields same_dedup_key compares (type, pid,  *)
(* prot, flags, address family, port, reason, rule id, has_flow, flow root,*)
(* comm, target); dst for the destination address, which the event carries *)
(* and the key leaves out.  One step of the specification is one call, the *)
(* host being single threaded; only the final flush is split, so that the  *)
(* process may be killed in the middle of it.                              *)
(***************************************************************************)
EXTENDS Integers

CONSTANTS
    Keys,             \* the distinguishable findings
    Dsts,             \* destination addresses
    NoKey, NoDst,     \* what memset leaves in a cleared entry
    DEDUP_ENTRIES,    \* size of dedup_cache
    dedup_window_ns,  \* rules.dedup_window_ns; 0 switches suppression off
    TsModulus,        \* timestamps are unsigned, 2^64 in the code
    RepeatModulus,    \* repeat_count is unsigned, 2^32 in the code
    MaxTs,            \* bound: latest timestamp
    Skew,             \* bound: how far a timestamp may lie behind the newest
    MaxSeen           \* bound: findings per key

ASSUME DedupAssumption ==
    /\ NoKey \notin Keys /\ NoDst \notin Dsts
    /\ DEDUP_ENTRIES \in Nat \ {0}
    /\ dedup_window_ns \in Nat
    /\ MaxTs \in Nat /\ TsModulus \in Nat /\ MaxTs < TsModulus
    /\ dedup_window_ns < TsModulus
    /\ RepeatModulus \in Nat \ {0, 1}
    /\ Skew \in Nat /\ MaxSeen \in Nat

VARIABLES
    cache,      \* dedup_cache
    cursor,     \* dedup_cursor modulo DEDUP_ENTRIES
    stage,      \* "running", "flushing" (flush_dedup_cache), "exited", "killed"
    flushPos,   \* loop index of flush_dedup_cache
    clock,      \* newest timestamp delivered so far
    seen,       \* seen[k]: findings with key k handed to suppress_duplicate
    shown,      \* shown[k]: of those, emitted at once with repeat_count 0
    summed,     \* summed[k]: total of the repeat counts emitted for k
    summaries,  \* summaries[k]: number of repeat summaries emitted for k
    lost,       \* lost[k]: repeats forgotten because repeat_count wrapped
    lastTs,     \* lastTs[k]: timestamp of the latest finding with key k
    raised,     \* <<key, dst>> pairs handed to suppress_duplicate
    told        \* <<key, dst>> pairs that were printed in some record

book == <<seen, shown, summed, summaries, lost, lastTs, raised, told>>
vars == <<cache, cursor, stage, flushPos, clock, book>>

Slots == 0 .. DEDUP_ENTRIES - 1
Ts == 0 .. MaxTs

\* struct dedup_entry, the fields of the key folded into one
Entry == [active : BOOLEAN, key : Keys \cup {NoKey}, dst : Dsts \cup {NoDst},
          last : Ts, repeat : 0 .. RepeatModulus - 1]

\* clear_dedup_entry: memset to zero
Cleared == [active |-> FALSE, key |-> NoKey, dst |-> NoDst, last |-> 0, repeat |-> 0]

\* e->timestamp_ns - entry->last_seen_ns in unsigned arithmetic
Elapsed(now, then) == IF now >= then THEN now - then ELSE TsModulus + now - then

\* Slips that the properties below are there to catch.
WithinWindow_Inclusive(now, then) == dedup_window_ns > 0 /\ Elapsed(now, then) <= dedup_window_ns
Resident_SkipsFirst(k) == \E s \in Slots \ {0} : cache[s].active /\ cache[s].key = k
Repeated_KeepsTime(e, ts) == [e EXCEPT !.repeat = IF @ + 1 = RepeatModulus THEN 0 ELSE @ + 1]
SummedAfter_Dropped(s) == summed
AfterEmit_StaysActive(s) == [cache[s] EXCEPT !.repeat = 0]
NextCursor_NoWrap(c) == c + 1
LastFlush_OneShort(p) == p + 2 = DEDUP_ENTRIES
WithinWindow(now, then) ==
    dedup_window_ns > 0 /\ Elapsed(now, then) < dedup_window_ns

same_dedup_key(s, k) == cache[s].active /\ cache[s].key = k

\* the slot at which the scan of suppress_duplicate stops
Match(s, k) == same_dedup_key(s, k) /\ \A r \in Slots : r < s => ~same_dedup_key(r, k)

Resident(k) == \E s \in Slots : same_dedup_key(s, k)

Bump(n) == IF n + 1 = RepeatModulus THEN 0 ELSE n + 1
Repeated(e, ts) == [e EXCEPT !.last = ts, !.repeat = Bump(@)]

NextCursor(c) == IF c + 1 = DEDUP_ENTRIES THEN 0 ELSE c + 1

\* the loop of flush_dedup_cache
NextFlush(p) == p + 1
LastFlush(p) == p + 1 = DEDUP_ENTRIES

HasSummary(s) == cache[s].active /\ cache[s].repeat > 0

\* The record emit_dedup_entry prints for slot s carries the first event of the
\* run and the number of swallowed repeats.
SummedAfter(s) ==
    IF HasSummary(s) THEN [summed EXCEPT ![cache[s].key] = @ + cache[s].repeat] ELSE summed
SummariesAfter(s) ==
    IF HasSummary(s) THEN [summaries EXCEPT ![cache[s].key] = @ + 1] ELSE summaries
AfterEmit(s) == Cleared
ToldAfter(s) ==
    IF HasSummary(s) THEN told \cup {<<cache[s].key, cache[s].dst>>} ELSE told

-------------------------------------------------------------------------------

Init ==
    /\ cache = [s \in Slots |-> Cleared]
    /\ cursor = 0
    /\ stage = "running"
    /\ flushPos = 0
    /\ clock = 0
    /\ seen = [k \in Keys |-> 0]
    /\ shown = [k \in Keys |-> 0]
    /\ summed = [k \in Keys |-> 0]
    /\ summaries = [k \in Keys |-> 0]
    /\ lost = [k \in Keys |-> 0]
    /\ lastTs = [k \in Keys |-> 0]
    /\ raised = {}
    /\ told = {}

\* A finding with key k, destination d and timestamp ts reaches suppress_duplicate.
Arrive(k, d, ts) ==
    /\ stage = "running"
    /\ seen[k] < MaxSeen
    /\ ts + Skew >= clock
    /\ clock' = IF ts > clock THEN ts ELSE clock
    /\ seen' = [seen EXCEPT ![k] = @ + 1]
    /\ lastTs' = [lastTs EXCEPT ![k] = ts]
    /\ raised' = raised \cup {<<k, d>>}
    /\ UNCHANGED <<stage, flushPos>>

\* A repeat inside the window: counted, not emitted.
Suppress(k, d, ts) ==
    /\ Arrive(k, d, ts)
    /\ \E s \in Slots :
        /\ Match(s, k)
        /\ WithinWindow(ts, cache[s].last)
        /\ cache' = [cache EXCEPT ![s] = Repeated(@, ts)]
        /\ lost' = [lost EXCEPT ![k] =
                        IF Bump(cache[s].repeat) = 0 THEN @ + RepeatModulus ELSE @]
    /\ UNCHANGED <<cursor, shown, summed, summaries, told>>

\* A repeat outside the window: the entry is summarised and cleared, and the
\* finding is emitted without being cached again.
Expire(k, d, ts) ==
    /\ Arrive(k, d, ts)
    /\ \E s \in Slots :
        /\ Match(s, k)
        /\ ~WithinWindow(ts, cache[s].last)
        /\ cache' = [cache EXCEPT ![s] = AfterEmit(s)]
        /\ summed' = SummedAfter(s)
        /\ summaries' = SummariesAfter(s)
        /\ told' = ToldAfter(s) \cup {<<k, d>>}
    /\ shown' = [shown EXCEPT ![k] = @ + 1]
    /\ UNCHANGED <<cursor, lost>>

\* No entry: the slot under the cursor is summarised if need be and taken over,
\* even when another slot is free.
Insert(k, d, ts) ==
    /\ Arrive(k, d, ts)
    /\ ~Resident(k)
    /\ cache' = [cache EXCEPT ![cursor] =
                    [active |-> TRUE, key |-> k, dst |-> d, last |-> ts, repeat |-> 0]]
    /\ cursor' = NextCursor(cursor)
    /\ summed' = SummedAfter(cursor)
    /\ summaries' = SummariesAfter(cursor)
    /\ told' = ToldAfter(cursor) \cup {<<k, d>>}
    /\ shown' = [shown EXCEPT ![k] = @ + 1]
    /\ UNCHANGED lost

\* The poll loop has seen the stop flag.
Stop ==
    /\ stage = "running"
    /\ stage' = "flushing"
    /\ UNCHANGED <<cache, cursor, flushPos, clock, book>>

\* One iteration of flush_dedup_cache; main returns after the last.
FlushEntry ==
    /\ stage = "flushing"
    /\ cache' = [cache EXCEPT ![flushPos] = AfterEmit(flushPos)]
    /\ summed' = SummedAfter(flushPos)
    /\ summaries' = SummariesAfter(flushPos)
    /\ told' = ToldAfter(flushPos)
    /\ flushPos' = NextFlush(flushPos)
    /\ stage' = IF LastFlush(flushPos) THEN "exited" ELSE stage
    /\ UNCHANGED <<cursor, clock, seen, shown, lost, lastTs, raised>>

\* SIGKILL or a crash of the host: whatever the cache holds is never reported.
Kill ==
    /\ stage \in {"running", "flushing"}
    /\ stage' = "killed"
    /\ UNCHANGED <<cache, cursor, flushPos, clock, book>>

Deliver ==
    \E k \in Keys, d \in Dsts, ts \in Ts :
        Suppress(k, d, ts) \/ Expire(k, d, ts) \/ Insert(k, d, ts)

Next == Deliver \/ Stop \/ FlushEntry \/ Kill

Spec == Init /\ [][Next]_vars

-------------------------------------------------------------------------------

\* Every variable stays in its type, the cursor and the flush index inside the array.
TypeOK ==
    /\ cache \in [Slots -> Entry]
    /\ cursor \in Slots
    /\ stage \in {"running", "flushing", "exited", "killed"}
    /\ flushPos \in 0 .. DEDUP_ENTRIES
    /\ clock \in Ts
    /\ seen \in [Keys -> Nat] /\ shown \in [Keys -> Nat]
    /\ summed \in [Keys -> Nat] /\ summaries \in [Keys -> Nat]
    /\ lost \in [Keys -> Nat]
    /\ lastTs \in [Keys -> Ts]
    /\ raised \subseteq Keys \X Dsts /\ told \subseteq Keys \X Dsts

\* suppress_duplicate never caches a finding twice: at most one active entry per
\* key, whatever expiries and round-robin evictions happened before.
OneEntryPerKey ==
    \A r, s \in Slots :
        (cache[r].active /\ cache[s].active /\ cache[r].key = cache[s].key) => r = s

\* No finding vanishes and none is reported twice: each one was emitted at once,
\* counted in an emitted summary, still waits in the cache, or fell to a wrap of
\* the 32-bit repeat_count.
Conservation ==
    \A k \in Keys :
        /\ \A s \in Slots : same_dedup_key(s, k) =>
              seen[k] = shown[k] + summed[k] + lost[k] + cache[s].repeat
        /\ ~Resident(k) => seen[k] = shown[k] + summed[k] + lost[k]

\* A summary closes a run that began with an alert of its own: counting the run
\* still open, there are never more summaries for a key than individual alerts.
SummaryPerAlert ==
    \A k \in Keys :
        summaries[k] + (IF Resident(k) THEN 1 ELSE 0) <= shown[k]

\* After the flush of an orderly exit nothing is left unreported except what a
\* counter wrap swallowed, and a wrap takes at least 2^32 findings of one key.
NothingPendingAtExit ==
    /\ stage = "exited" =>
          \A k \in Keys : ~Resident(k) /\ seen[k] = shown[k] + summed[k] + lost[k]
    /\ \A k \in Keys : lost[k] > 0 => seen[k] > RepeatModulus

\* The timestamp the window is measured from is that of the latest finding of
\* the key, and what a later summary will print was printed when the run began.
EntryIsLatest ==
    \A s \in Slots : cache[s].active =>
        /\ cache[s].last = lastTs[cache[s].key]
        /\ <<cache[s].key, cache[s].dst>> \in told

\* suppress_duplicate swallows a finding only if the previous finding with its
\* key lies less than the window back; with window 0 it swallows none.
SuppressedOnlyInWindow ==
    [][\A k \in Keys :
         (seen'[k] # seen[k] /\ shown'[k] = shown[k])
            => seen[k] > 0 /\ Elapsed(lastTs'[k], lastTs[k]) < dedup_window_ns]_vars

\* The count waiting in the cache for key k, and the ledger the cache keeps.
PendingOf(k) ==
    IF Resident(k) THEN cache[CHOOSE s \in Slots : same_dedup_key(s, k)].repeat ELSE 0

Ledger == INSTANCE AlertLedger WITH
    open <- [k \in Keys |-> Resident(k)],
    pending <- [k \in Keys |-> PendingOf(k)]

\* The cache with its slots, cursor and window implements the ledger: every call
\* of suppress_duplicate and every flush step is one ledger entry or none.
ImplementsLedger == Ledger!Spec

-------------------------------------------------------------------------------
(* What the repository's comments say of the cache and the code does not do. *)

\* config/rules.conf: identical findings repeated within the window are suppressed.
RepeatInWindowSuppressed ==
    [][\A k \in Keys :
         (seen'[k] # seen[k] /\ seen[k] > 0 /\ lastTs'[k] >= lastTs[k]
            /\ lastTs'[k] - lastTs[k] < dedup_window_ns)
            => shown'[k] = shown[k]]_vars

\* config/rules.conf: it is identical findings that are suppressed, so after an
\* orderly exit each destination that raised a finding stands in some record.
EveryDestinationReported == stage = "exited" => raised \subseteq told
===============================================================================
