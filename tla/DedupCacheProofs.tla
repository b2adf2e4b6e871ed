--------------------------- MODULE DedupCacheProofs ---------------------------
(***************************************************************************)
(* The accounting of the duplicate cache holds for every set of keys,      *)
(* every number of entries, every window and every counter width; and the  *)
(* cache implements the ledger of AlertLedger.                             *)
(***************************************************************************)
EXTENDS DedupCache, TLAPS

-------------------------------------------------------------------------------
(* The inductive invariant: the four properties of the cache, and where the   *)
(* flush stands and what a counter wrap implies.                              *)

\* Slots behind the flush index are cleared, and the index says which stage it is.
FlushProgress ==
    /\ stage = "running" => flushPos = 0
    /\ stage = "flushing" => flushPos < DEDUP_ENTRIES
    /\ stage = "exited" => flushPos = DEDUP_ENTRIES
    /\ \A s \in Slots : s < flushPos => ~cache[s].active

\* A wrap forgets a whole modulus of repeats, after an alert of its own.
WrapAfterAlert ==
    \A k \in Keys : lost[k] > 0 => lost[k] >= RepeatModulus /\ shown[k] > 0

\* An active entry has a key and a destination of its own.
ActiveHasKey ==
    \A s \in Slots : cache[s].active => cache[s].key \in Keys /\ cache[s].dst \in Dsts

IInv ==
    /\ TypeOK /\ ActiveHasKey /\ OneEntryPerKey /\ Conservation /\ SummaryPerAlert
    /\ EntryIsLatest /\ FlushProgress /\ WrapAfterAlert

-------------------------------------------------------------------------------

\* What emit_dedup_entry does to the counters: the waiting count of the slot's key
\* is added to its summaries and nothing else changes.
LEMMA EmitCounts ==
    ASSUME TypeOK, ActiveHasKey, NEW s \in Slots
    PROVE  /\ SummedAfter(s) \in [Keys -> Nat]
           /\ SummariesAfter(s) \in [Keys -> Nat]
           /\ \A d \in told : d \in ToldAfter(s)
           /\ ToldAfter(s) \subseteq Keys \X Dsts
           /\ \A k \in Keys :
                /\ SummedAfter(s)[k] = summed[k] +
                       (IF same_dedup_key(s, k) THEN cache[s].repeat ELSE 0)
                /\ SummariesAfter(s)[k] <= summaries[k] +
                       (IF same_dedup_key(s, k) THEN 1 ELSE 0)
<1>1. /\ summed \in [Keys -> Nat] /\ summaries \in [Keys -> Nat]
      /\ cache[s] \in Entry /\ told \subseteq Keys \X Dsts
  BY DEF TypeOK
<1>2. cache[s].repeat \in Nat
  BY <1>1, DedupAssumption DEF Entry
<1>3. CASE HasSummary(s)
  <2>1. cache[s].active /\ cache[s].key \in Keys /\ cache[s].dst \in Dsts
    BY <1>3 DEF HasSummary, ActiveHasKey
  <2>2. /\ SummedAfter(s) = [summed EXCEPT ![cache[s].key] = @ + cache[s].repeat]
        /\ SummariesAfter(s) = [summaries EXCEPT ![cache[s].key] = @ + 1]
        /\ ToldAfter(s) = told \cup {<<cache[s].key, cache[s].dst>>}
    BY <1>3 DEF SummedAfter, SummariesAfter, ToldAfter
  <2> QED
    BY <1>1, <1>2, <2>1, <2>2 DEF same_dedup_key
<1>4. CASE ~HasSummary(s)
  <2>1. SummedAfter(s) = summed /\ SummariesAfter(s) = summaries /\ ToldAfter(s) = told
    BY <1>4 DEF SummedAfter, SummariesAfter, ToldAfter
  <2>2. cache[s].active => cache[s].repeat = 0
    BY <1>2, <1>4 DEF HasSummary
  <2> QED
    BY <1>1, <2>1, <2>2 DEF same_dedup_key
<1> QED
  BY <1>3, <1>4

\* An empty cache, as the loader leaves the static array, satisfies the invariant.
LEMMA InitInv == Init => IInv
<1> SUFFICES ASSUME Init PROVE IInv
  OBVIOUS
<1> USE DedupAssumption
<1>1. Cleared \in Entry /\ ~Cleared.active
  BY DEF Cleared, Entry, Ts
<1>2. \A s \in Slots : cache[s] = Cleared
  BY DEF Init
<1>3. TypeOK
  BY <1>1 DEF Init, TypeOK, Slots, Ts
<1> QED
  BY <1>1, <1>2, <1>3 DEF Init, IInv, ActiveHasKey, OneEntryPerKey, Conservation,
     SummaryPerAlert, EntryIsLatest, FlushProgress, WrapAfterAlert, Resident,
     same_dedup_key, Slots

-------------------------------------------------------------------------------
(* The three outcomes of a call of suppress_duplicate. *)

\* What every call of suppress_duplicate records of the finding it was given.
LEMMA ArriveType ==
    ASSUME TypeOK, NEW k \in Keys, NEW d \in Dsts, NEW ts \in Ts, Arrive(k, d, ts)
    PROVE  /\ clock' \in Ts /\ seen' \in [Keys -> Nat] /\ lastTs' \in [Keys -> Ts]
           /\ raised' \subseteq Keys \X Dsts
           /\ stage = "running" /\ stage' = stage /\ flushPos' = flushPos
           /\ seen'[k] = seen[k] + 1 /\ lastTs'[k] = ts
           /\ \A j \in Keys : j # k => seen'[j] = seen[j] /\ lastTs'[j] = lastTs[j]
BY DEF Arrive, TypeOK

\* A swallowed repeat moves one finding into the waiting count of its own entry.
LEMMA SuppressInv ==
    ASSUME IInv, NEW k \in Keys, NEW d \in Dsts, NEW ts \in Ts, Suppress(k, d, ts)
    PROVE  IInv'
<1> USE DedupAssumption
<1>a. TypeOK /\ ActiveHasKey
  BY DEF IInv
<1>b. Arrive(k, d, ts)
  BY DEF Suppress
<1>1. PICK s \in Slots :
        /\ Match(s, k)
        /\ cache' = [cache EXCEPT ![s] = Repeated(cache[s], ts)]
        /\ lost' = [lost EXCEPT ![k] =
                IF Bump(cache[s].repeat) = 0 THEN @ + RepeatModulus ELSE @]
  BY DEF Suppress
<1>2. /\ cursor' = cursor /\ shown' = shown /\ summed' = summed
      /\ summaries' = summaries /\ told' = told
  BY DEF Suppress
<1>3. /\ cache[s].active /\ cache[s].key = k
      /\ cache[s] \in Entry /\ cache \in [Slots -> Entry]
  BY <1>1, <1>a DEF Match, same_dedup_key, TypeOK
<1>4. /\ cache'[s] = Repeated(cache[s], ts)
      /\ cache'[s].active /\ cache'[s].key = k /\ cache'[s].dst = cache[s].dst
      /\ cache'[s].last = ts /\ cache'[s].repeat = Bump(cache[s].repeat)
      /\ \A r \in Slots : r # s => cache'[r] = cache[r]
  BY <1>1, <1>3 DEF Repeated, Entry
<1>5. ASSUME NEW r \in Slots
      PROVE  /\ cache'[r].active = cache[r].active
             /\ cache'[r].key = cache[r].key
             /\ cache'[r].dst = cache[r].dst
  <2>1. CASE r = s
    BY <1>3, <1>4, <2>1
  <2>2. CASE r # s
    BY <1>4, <2>2
  <2> QED
    BY <2>1, <2>2
<1>6. /\ cache[s].repeat \in Nat /\ Bump(cache[s].repeat) \in 0 .. RepeatModulus - 1
      /\ Bump(cache[s].repeat) =
            cache[s].repeat + 1 - (IF Bump(cache[s].repeat) = 0 THEN RepeatModulus ELSE 0)
  BY <1>3 DEF Entry, Bump
<1>7. Repeated(cache[s], ts) \in Entry
  BY <1>3, <1>6 DEF Repeated, Entry
<1>8. TypeOK'
  <2>1. lost' \in [Keys -> Nat]
    BY <1>1, <1>a DEF TypeOK
  <2> QED
    BY <1>a, <1>b, <1>1, <1>2, <1>3, <1>7, <2>1, ArriveType DEF TypeOK
<1>9. ActiveHasKey' /\ OneEntryPerKey'
  BY <1>5 DEF IInv, ActiveHasKey, OneEntryPerKey
<1>10. \A j \in Keys : \A r \in Slots : same_dedup_key(r, j)' <=> same_dedup_key(r, j)
  BY <1>5 DEF same_dedup_key
<1>11. \A r \in Slots : r # s => ~same_dedup_key(r, k)
  BY <1>3 DEF IInv, OneEntryPerKey, same_dedup_key
<1>12. Conservation'
  <2> SUFFICES ASSUME NEW j \in Keys
               PROVE  /\ \A r \in Slots : same_dedup_key(r, j) =>
                            seen'[j] = shown[j] + summed[j] + lost'[j] + cache'[r].repeat
                      /\ ~Resident(j) => seen'[j] = shown[j] + summed[j] + lost'[j]
    BY <1>2, <1>10 DEF Conservation, Resident
  <2>1. /\ \A r \in Slots : same_dedup_key(r, j) =>
              seen[j] = shown[j] + summed[j] + lost[j] + cache[r].repeat
        /\ ~Resident(j) => seen[j] = shown[j] + summed[j] + lost[j]
    BY DEF IInv, Conservation
  <2>2. /\ lost \in [Keys -> Nat] /\ seen \in [Keys -> Nat] /\ shown \in [Keys -> Nat]
        /\ summed \in [Keys -> Nat]
    BY <1>a DEF TypeOK
  <2>3. CASE j = k
    <3>1. same_dedup_key(s, k) /\ Resident(k)
      BY <1>3 DEF same_dedup_key, Resident
    <3>2. seen'[k] = seen[k] + 1
      BY <1>a, <1>b, ArriveType
    <3>3. lost'[k] = lost[k] + (IF Bump(cache[s].repeat) = 0 THEN RepeatModulus ELSE 0)
      BY <1>1, <2>2
    <3>4. seen[k] = shown[k] + summed[k] + lost[k] + cache[s].repeat
      BY <2>1, <2>3, <3>1
    <3>5. seen'[k] = shown[k] + summed[k] + lost'[k] + cache'[s].repeat
      BY <3>2, <3>3, <3>4, <1>4, <1>6, <2>2
    <3> QED
      BY <2>3, <3>1, <3>5, <1>11
  <2>4. CASE j # k
    <3>1. seen'[j] = seen[j] /\ lost'[j] = lost[j]
      BY <1>a, <1>b, <1>1, <2>2, <2>4, ArriveType
    <3>2. \A r \in Slots : same_dedup_key(r, j) => cache'[r] = cache[r]
      BY <1>3, <1>4, <2>4 DEF same_dedup_key
    <3> QED
      BY <2>1, <3>1, <3>2
  <2> QED
    BY <2>3, <2>4
<1>13. SummaryPerAlert'
  BY <1>2, <1>10 DEF IInv, SummaryPerAlert, Resident
<1>14. EntryIsLatest'
  <2> SUFFICES ASSUME NEW r \in Slots, cache'[r].active
               PROVE  /\ cache'[r].last = lastTs'[cache'[r].key]
                      /\ <<cache'[r].key, cache'[r].dst>> \in told
    BY <1>2 DEF EntryIsLatest
  <2>1. /\ cache[r].active /\ cache[r].key \in Keys
        /\ cache[r].last = lastTs[cache[r].key]
        /\ <<cache[r].key, cache[r].dst>> \in told
    BY <1>5, <1>a DEF IInv, EntryIsLatest, ActiveHasKey
  <2>2. CASE r = s
    BY <1>a, <1>b, <1>3, <1>4, <2>1, <2>2, ArriveType
  <2>3. CASE r # s
    <3>1. cache[r].key # k
      BY <2>1, <2>3, <1>11 DEF same_dedup_key
    <3> QED
      BY <1>a, <1>b, <1>4, <2>1, <2>3, <3>1, ArriveType
  <2> QED
    BY <2>2, <2>3
<1>15. FlushProgress'
  BY <1>a, <1>b, <1>5, ArriveType DEF IInv, FlushProgress
<1>16. WrapAfterAlert'
  <2> SUFFICES ASSUME NEW j \in Keys, lost'[j] > 0
               PROVE  lost'[j] >= RepeatModulus /\ shown[j] > 0
    BY <1>2 DEF WrapAfterAlert
  <2>1. /\ lost \in [Keys -> Nat] /\ shown \in [Keys -> Nat] /\ summaries \in [Keys -> Nat]
    BY <1>a DEF TypeOK
  <2>2. lost[j] > 0 => lost[j] >= RepeatModulus /\ shown[j] > 0
    BY DEF IInv, WrapAfterAlert
  <2>3. Resident(k) /\ shown[k] > 0
    <3>1. Resident(k)
      BY <1>3 DEF same_dedup_key, Resident
    <3>2. summaries[k] + 1 <= shown[k]
      BY <3>1 DEF IInv, SummaryPerAlert
    <3> QED
      BY <3>1, <3>2, <2>1
  <2>4. CASE j = k
    <3>1. lost'[k] = lost[k] \/ lost'[k] = lost[k] + RepeatModulus
      BY <1>1, <2>1
    <3> QED
      BY <2>1, <2>2, <2>3, <2>4, <3>1
  <2>5. CASE j # k
    BY <1>1, <2>1, <2>2, <2>5
  <2> QED
    BY <2>4, <2>5
<1> QED
  BY <1>8, <1>9, <1>12, <1>13, <1>14, <1>15, <1>16 DEF IInv
-------------------------------------------------------------------------------
(* Taking a slot out of the cache: common to expiry, eviction and the flush.   *)

Elsewhere(s, k) == \E r \in Slots \ {s} : same_dedup_key(r, k)

\* When slot s is summarised, every key stays accounted for by the other slots:
\* the waiting count of s has moved to the summaries.
LEMMA EmitAccounts ==
    ASSUME IInv, NEW s \in Slots, NEW k \in Keys
    PROVE  /\ \A r \in Slots \ {s} : same_dedup_key(r, k) =>
                 seen[k] = shown[k] + SummedAfter(s)[k] + lost[k] + cache[r].repeat
           /\ ~Elsewhere(s, k) => seen[k] = shown[k] + SummedAfter(s)[k] + lost[k]
           /\ SummariesAfter(s)[k] + (IF Elsewhere(s, k) THEN 1 ELSE 0) <= shown[k]
<1> USE DedupAssumption
<1>a. TypeOK /\ ActiveHasKey
  BY DEF IInv
<1>1. /\ seen[k] \in Nat /\ shown[k] \in Nat /\ summed[k] \in Nat
      /\ summaries[k] \in Nat /\ lost[k] \in Nat
      /\ \A r \in Slots : cache[r].repeat \in Nat
  BY <1>a DEF TypeOK, Entry
<1>2. /\ \A r \in Slots : same_dedup_key(r, k) =>
            seen[k] = shown[k] + summed[k] + lost[k] + cache[r].repeat
      /\ ~Resident(k) => seen[k] = shown[k] + summed[k] + lost[k]
      /\ summaries[k] + (IF Resident(k) THEN 1 ELSE 0) <= shown[k]
  BY DEF IInv, Conservation, SummaryPerAlert
<1>3. /\ SummedAfter(s)[k] = summed[k] + (IF same_dedup_key(s, k) THEN cache[s].repeat ELSE 0)
      /\ SummariesAfter(s)[k] <= summaries[k] + (IF same_dedup_key(s, k) THEN 1 ELSE 0)
      /\ SummariesAfter(s)[k] \in Nat
  BY <1>a, EmitCounts
<1>4. CASE same_dedup_key(s, k)
  <2>1. Resident(k)
    BY <1>4 DEF Resident
  <2>2. ~Elsewhere(s, k)
    BY <1>4 DEF IInv, OneEntryPerKey, same_dedup_key, Elsewhere
  <2>3. SummedAfter(s)[k] = summed[k] + cache[s].repeat
    BY <1>3, <1>4
  <2>4. seen[k] = shown[k] + summed[k] + lost[k] + cache[s].repeat
    BY <1>2, <1>4
  <2>5. seen[k] = shown[k] + SummedAfter(s)[k] + lost[k]
    BY <1>1, <2>3, <2>4
  <2>6. SummariesAfter(s)[k] <= shown[k]
    BY <1>1, <1>2, <1>3, <1>4, <2>1
  <2> QED
    BY <1>1, <1>3, <2>2, <2>5, <2>6 DEF Elsewhere
<1>5. CASE ~same_dedup_key(s, k)
  <2>1. Resident(k) <=> Elsewhere(s, k)
    BY <1>5 DEF Resident, Elsewhere
  <2>2. SummedAfter(s)[k] = summed[k] /\ SummariesAfter(s)[k] <= summaries[k]
    BY <1>1, <1>3, <1>5
  <2>3. SummariesAfter(s)[k] + (IF Elsewhere(s, k) THEN 1 ELSE 0) <= shown[k]
    BY <1>1, <1>2, <1>3, <2>1, <2>2
  <2> QED
    BY <1>2, <2>1, <2>2, <2>3
<1> QED
  BY <1>4, <1>5

\* Clearing slot s in the same step.
LEMMA ClearSlot ==
    ASSUME IInv, NEW s \in Slots, cache' = [cache EXCEPT ![s] = Cleared]
    PROVE  /\ cache' \in [Slots -> Entry] /\ ActiveHasKey' /\ OneEntryPerKey'
           /\ \A r \in Slots : r # s => cache'[r] = cache[r]
           /\ \A r \in Slots : cache'[r].active =>
                 r # s /\ cache'[r] = cache[r] /\ cache[r].active
           /\ \A k \in Keys : /\ Resident(k)' <=> Elsewhere(s, k)
                              /\ \A r \in Slots : same_dedup_key(r, k)' <=>
                                    r # s /\ same_dedup_key(r, k)
<1> USE DedupAssumption
<1>1. cache \in [Slots -> Entry] /\ Cleared \in Entry /\ ~Cleared.active
  BY DEF IInv, TypeOK, Cleared, Entry, Ts
<1>2. cache'[s] = Cleared /\ \A r \in Slots : r # s => cache'[r] = cache[r]
  BY <1>1
<1>3. cache' \in [Slots -> Entry]
  BY <1>1
<1>4. \A r \in Slots : cache'[r].active => r # s /\ cache'[r] = cache[r] /\ cache[r].active
  BY <1>1, <1>2
<1>5. ActiveHasKey' /\ OneEntryPerKey'
  BY <1>4 DEF IInv, ActiveHasKey, OneEntryPerKey
<1>6. \A k \in Keys : \A r \in Slots : same_dedup_key(r, k)' <=> r # s /\ same_dedup_key(r, k)
  BY <1>2, <1>4 DEF same_dedup_key
<1>7. \A k \in Keys : Resident(k)' <=> Elsewhere(s, k)
  BY <1>6 DEF Resident, Elsewhere
<1> QED
  BY <1>2, <1>3, <1>4, <1>5, <1>6, <1>7

\* A repeat outside the window closes the run of its key and is shown.
LEMMA ExpireInv ==
    ASSUME IInv, NEW k \in Keys, NEW d \in Dsts, NEW ts \in Ts, Expire(k, d, ts)
    PROVE  IInv'
<1> USE DedupAssumption
<1>a. TypeOK /\ ActiveHasKey
  BY DEF IInv
<1>b. Arrive(k, d, ts)
  BY DEF Expire
<1>1. PICK s \in Slots :
        /\ Match(s, k)
        /\ cache' = [cache EXCEPT ![s] = Cleared]
        /\ summed' = SummedAfter(s)
        /\ summaries' = SummariesAfter(s)
        /\ told' = ToldAfter(s) \cup {<<k, d>>}
  BY DEF Expire, AfterEmit
<1>2. /\ cursor' = cursor /\ lost' = lost
      /\ shown' = [shown EXCEPT ![k] = @ + 1]
  BY DEF Expire
<1>3. /\ shown'[k] = shown[k] + 1 /\ \A j \in Keys : j # k => shown'[j] = shown[j]
      /\ shown' \in [Keys -> Nat]
  BY <1>2, <1>a DEF TypeOK
<1>4. /\ cache' \in [Slots -> Entry] /\ ActiveHasKey' /\ OneEntryPerKey'
      /\ \A r \in Slots : r # s => cache'[r] = cache[r]
      /\ \A r \in Slots : cache'[r].active =>
            r # s /\ cache'[r] = cache[r] /\ cache[r].active
      /\ \A j \in Keys : /\ Resident(j)' <=> Elsewhere(s, j)
                         /\ \A r \in Slots : same_dedup_key(r, j)' <=>
                               r # s /\ same_dedup_key(r, j)
  BY <1>1, ClearSlot
<1>5. TypeOK'
  <2>1. /\ summed' \in [Keys -> Nat] /\ summaries' \in [Keys -> Nat]
        /\ told' \subseteq Keys \X Dsts
    BY <1>a, <1>1, EmitCounts
  <2> QED
    BY <1>a, <1>b, <1>2, <1>3, <1>4, <2>1, ArriveType DEF TypeOK
<1>7. \A r \in Slots : cache'[r].active => cache[r].key # k
  BY <1>1, <1>4 DEF Match, same_dedup_key, IInv, OneEntryPerKey
<1>8. Conservation' /\ SummaryPerAlert'
  <2> SUFFICES ASSUME NEW j \in Keys
               PROVE  /\ \A r \in Slots : same_dedup_key(r, j)' =>
                            seen'[j] = shown'[j] + summed'[j] + lost'[j] + cache'[r].repeat
                      /\ ~Resident(j)' => seen'[j] = shown'[j] + summed'[j] + lost'[j]
                      /\ summaries'[j] + (IF Resident(j)' THEN 1 ELSE 0) <= shown'[j]
    BY DEF Conservation, SummaryPerAlert
  <2>1. /\ seen[j] \in Nat /\ shown[j] \in Nat /\ lost[j] \in Nat
        /\ summed'[j] \in Nat /\ summaries'[j] \in Nat
        /\ \A r \in Slots : cache[r].repeat \in Nat
    BY <1>a, <1>5 DEF TypeOK, Entry
  <2>2. \/ j = k /\ seen'[j] = seen[j] + 1 /\ shown'[j] = shown[j] + 1
        \/ j # k /\ seen'[j] = seen[j] /\ shown'[j] = shown[j]
    BY <1>a, <1>b, <1>3, ArriveType
  <2>3. /\ \A r \in Slots \ {s} : same_dedup_key(r, j) =>
              seen[j] = shown[j] + summed'[j] + lost[j] + cache[r].repeat
        /\ ~Elsewhere(s, j) => seen[j] = shown[j] + summed'[j] + lost[j]
        /\ summaries'[j] + (IF Elsewhere(s, j) THEN 1 ELSE 0) <= shown[j]
    BY <1>1, EmitAccounts
  <2>4. ASSUME NEW r \in Slots, same_dedup_key(r, j)'
        PROVE  seen'[j] = shown'[j] + summed'[j] + lost'[j] + cache'[r].repeat
    <3>1. r # s /\ same_dedup_key(r, j) /\ cache'[r] = cache[r]
      BY <1>4, <2>4
    <3> QED
      BY <1>2, <2>1, <2>2, <2>3, <3>1
  <2>5. ~Resident(j)' => seen'[j] = shown'[j] + summed'[j] + lost'[j]
    BY <1>2, <1>4, <2>1, <2>2, <2>3
  <2>6. summaries'[j] + (IF Resident(j)' THEN 1 ELSE 0) <= shown'[j]
    BY <1>4, <2>1, <2>2, <2>3
  <2> QED
    BY <2>4, <2>5, <2>6
<1>9. EntryIsLatest'
  <2> SUFFICES ASSUME NEW r \in Slots, cache'[r].active
               PROVE  /\ cache'[r].last = lastTs'[cache'[r].key]
                      /\ <<cache'[r].key, cache'[r].dst>> \in told'
    BY DEF EntryIsLatest
  <2>1. /\ cache'[r] = cache[r] /\ cache[r].key \in Keys /\ cache[r].key # k
        /\ cache[r].last = lastTs[cache[r].key]
        /\ <<cache[r].key, cache[r].dst>> \in told
    BY <1>4, <1>7, <1>a DEF IInv, EntryIsLatest, ActiveHasKey
  <2>2. <<cache[r].key, cache[r].dst>> \in told'
    BY <1>a, <1>1, <2>1, EmitCounts
  <2> QED
    BY <1>a, <1>b, <2>1, <2>2, ArriveType
<1>10. FlushProgress'
  BY <1>a, <1>b, <1>4, ArriveType DEF IInv, FlushProgress
<1>11. WrapAfterAlert'
  <2> SUFFICES ASSUME NEW j \in Keys, lost[j] > 0
               PROVE  lost[j] >= RepeatModulus /\ shown'[j] > 0
    BY <1>2 DEF WrapAfterAlert
  <2>1. lost[j] >= RepeatModulus /\ shown[j] > 0 /\ shown[j] \in Nat
    BY <1>a DEF IInv, WrapAfterAlert, TypeOK
  <2> QED
    BY <1>3, <2>1
<1> QED
  BY <1>4, <1>5, <1>8, <1>9, <1>10, <1>11 DEF IInv

\* A finding without an entry takes over the slot under the cursor, whose own run
\* is summarised first.
LEMMA InsertInv ==
    ASSUME IInv, NEW k \in Keys, NEW d \in Dsts, NEW ts \in Ts, Insert(k, d, ts)
    PROVE  IInv'
<1> USE DedupAssumption
<1> DEFINE new == [active |-> TRUE, key |-> k, dst |-> d, last |-> ts, repeat |-> 0]
<1>a. TypeOK /\ ActiveHasKey
  BY DEF IInv
<1>b. Arrive(k, d, ts) /\ ~Resident(k) /\ cursor \in Slots
  BY <1>a DEF Insert, TypeOK
<1>1. /\ cache' = [cache EXCEPT ![cursor] = new]
      /\ cursor' = NextCursor(cursor)
      /\ summed' = SummedAfter(cursor)
      /\ summaries' = SummariesAfter(cursor)
      /\ told' = ToldAfter(cursor) \cup {<<k, d>>}
      /\ shown' = [shown EXCEPT ![k] = @ + 1]
      /\ lost' = lost
  BY DEF Insert
<1>2. /\ shown'[k] = shown[k] + 1 /\ \A j \in Keys : j # k => shown'[j] = shown[j]
      /\ shown' \in [Keys -> Nat]
  BY <1>1, <1>a DEF TypeOK
<1>3. new \in Entry /\ cache \in [Slots -> Entry]
  BY <1>a DEF TypeOK, Entry
<1>4. /\ cache' \in [Slots -> Entry]
      /\ cache'[cursor] = new
      /\ \A r \in Slots : r # cursor => cache'[r] = cache[r]
  BY <1>1, <1>3, <1>b
<1>5. /\ new.active /\ new.key = k /\ new.dst = d /\ new.last = ts /\ new.repeat = 0
  OBVIOUS
<1> HIDE DEF new
<1>6. cursor' \in Slots
  BY <1>1, <1>b DEF NextCursor, Slots
<1>7. TypeOK'
  <2>1. /\ summed' \in [Keys -> Nat] /\ summaries' \in [Keys -> Nat]
        /\ told' \subseteq Keys \X Dsts
    BY <1>a, <1>b, <1>1, EmitCounts
  <2> QED
    BY <1>a, <1>b, <1>1, <1>2, <1>4, <1>6, <2>1, ArriveType DEF TypeOK
<1>8. \A r \in Slots : cache[r].active => cache[r].key # k
  BY <1>b DEF Resident, same_dedup_key
<1>9. ActiveHasKey' /\ OneEntryPerKey'
  <2>1. ActiveHasKey'
    BY <1>a, <1>4, <1>5 DEF ActiveHasKey
  <2>2. ASSUME NEW p \in Slots, NEW q \in Slots, cache'[p].active, cache'[q].active,
               cache'[p].key = cache'[q].key
        PROVE  p = q
    <3>1. CASE p = cursor /\ q = cursor
      BY <3>1
    <3>2. CASE p = cursor /\ q # cursor
      BY <1>4, <1>5, <1>8, <2>2, <3>2
    <3>3. CASE p # cursor /\ q = cursor
      BY <1>4, <1>5, <1>8, <2>2, <3>3
    <3>4. CASE p # cursor /\ q # cursor
      BY <1>4, <2>2, <3>4 DEF IInv, OneEntryPerKey
    <3> QED
      BY <3>1, <3>2, <3>3, <3>4
  <2> QED
    BY <2>1, <2>2 DEF OneEntryPerKey
<1>10. \A j \in Keys : \A r \in Slots : same_dedup_key(r, j)' <=>
          (r = cursor /\ j = k) \/ (r # cursor /\ same_dedup_key(r, j))
  BY <1>4, <1>5 DEF same_dedup_key
<1>11. \A j \in Keys : Resident(j)' <=> (j = k \/ Elsewhere(cursor, j))
  BY <1>b, <1>10 DEF Resident, Elsewhere
<1>12. ~Elsewhere(cursor, k)
  BY <1>b DEF Resident, Elsewhere
<1>13. Conservation' /\ SummaryPerAlert'
  <2> SUFFICES ASSUME NEW j \in Keys
               PROVE  /\ \A r \in Slots : same_dedup_key(r, j)' =>
                            seen'[j] = shown'[j] + summed'[j] + lost'[j] + cache'[r].repeat
                      /\ ~Resident(j)' => seen'[j] = shown'[j] + summed'[j] + lost'[j]
                      /\ summaries'[j] + (IF Resident(j)' THEN 1 ELSE 0) <= shown'[j]
    BY DEF Conservation, SummaryPerAlert
  <2>1. /\ seen[j] \in Nat /\ shown[j] \in Nat /\ lost[j] \in Nat
        /\ summed'[j] \in Nat /\ summaries'[j] \in Nat
        /\ \A r \in Slots : cache[r].repeat \in Nat
    BY <1>a, <1>7 DEF TypeOK, Entry
  <2>2. \/ j = k /\ seen'[j] = seen[j] + 1 /\ shown'[j] = shown[j] + 1
        \/ j # k /\ seen'[j] = seen[j] /\ shown'[j] = shown[j]
    BY <1>a, <1>b, <1>2, ArriveType
  <2>3. /\ \A r \in Slots \ {cursor} : same_dedup_key(r, j) =>
              seen[j] = shown[j] + summed'[j] + lost[j] + cache[r].repeat
        /\ ~Elsewhere(cursor, j) => seen[j] = shown[j] + summed'[j] + lost[j]
        /\ summaries'[j] + (IF Elsewhere(cursor, j) THEN 1 ELSE 0) <= shown[j]
    BY <1>1, <1>b, EmitAccounts
  <2>4. CASE j = k
    <3>1. \A r \in Slots : same_dedup_key(r, j)' => cache'[r].repeat = 0
      BY <1>4, <1>5, <1>8, <1>10, <2>4 DEF same_dedup_key
    <3>2. seen'[j] = shown'[j] + summed'[j] + lost'[j] /\ summaries'[j] + 1 <= shown'[j]
      BY <1>1, <1>12, <2>1, <2>2, <2>3, <2>4
    <3>3. shown'[j] \in Nat /\ lost'[j] \in Nat
      BY <1>7 DEF TypeOK
    <3> QED
      BY <1>11, <2>1, <2>4, <3>1, <3>2, <3>3
  <2>5. CASE j # k
    <3>1. Resident(j)' <=> Elsewhere(cursor, j)
      BY <1>11, <2>5
    <3>2. \A r \in Slots : same_dedup_key(r, j)' =>
              r # cursor /\ same_dedup_key(r, j) /\ cache'[r] = cache[r]
      BY <1>4, <1>10, <2>5
    <3>3. seen'[j] = seen[j] /\ shown'[j] = shown[j] /\ lost'[j] = lost[j]
      BY <1>1, <2>2, <2>5
    <3>4. ASSUME NEW r \in Slots, same_dedup_key(r, j)'
          PROVE  seen'[j] = shown'[j] + summed'[j] + lost'[j] + cache'[r].repeat
      BY <2>3, <3>2, <3>3, <3>4
    <3> QED
      BY <2>3, <3>1, <3>3, <3>4
  <2> QED
    BY <2>4, <2>5
<1>14. EntryIsLatest'
  <2> SUFFICES ASSUME NEW r \in Slots, cache'[r].active
               PROVE  /\ cache'[r].last = lastTs'[cache'[r].key]
                      /\ <<cache'[r].key, cache'[r].dst>> \in told'
    BY DEF EntryIsLatest
  <2>1. CASE r = cursor
    BY <1>a, <1>b, <1>1, <1>4, <1>5, <2>1, ArriveType
  <2>2. CASE r # cursor
    <3>1. /\ cache'[r] = cache[r] /\ cache[r].key \in Keys /\ cache[r].key # k
          /\ cache[r].last = lastTs[cache[r].key]
          /\ <<cache[r].key, cache[r].dst>> \in told
      BY <1>4, <1>8, <1>a, <2>2 DEF IInv, EntryIsLatest, ActiveHasKey
    <3>2. <<cache[r].key, cache[r].dst>> \in told'
      BY <1>a, <1>b, <1>1, <3>1, EmitCounts
    <3> QED
      BY <1>a, <1>b, <3>1, <3>2, ArriveType
  <2> QED
    BY <2>1, <2>2
<1>15. FlushProgress'
  BY <1>a, <1>b, ArriveType DEF IInv, FlushProgress, Slots
<1>16. WrapAfterAlert'
  <2> SUFFICES ASSUME NEW j \in Keys, lost[j] > 0
               PROVE  lost[j] >= RepeatModulus /\ shown'[j] > 0
    BY <1>1 DEF WrapAfterAlert
  <2>1. lost[j] >= RepeatModulus /\ shown[j] > 0 /\ shown[j] \in Nat
    BY <1>a DEF IInv, WrapAfterAlert, TypeOK
  <2> QED
    BY <1>2, <2>1
<1> QED
  BY <1>7, <1>9, <1>13, <1>14, <1>15, <1>16 DEF IInv

\* One iteration of flush_dedup_cache summarises and clears one slot.
LEMMA FlushInv ==
    ASSUME IInv, FlushEntry
    PROVE  IInv'
<1> USE DedupAssumption
<1>a. TypeOK /\ ActiveHasKey
  BY DEF IInv
<1>1. /\ stage = "flushing"
      /\ cache' = [cache EXCEPT ![flushPos] = Cleared]
      /\ summed' = SummedAfter(flushPos) /\ summaries' = SummariesAfter(flushPos)
      /\ told' = ToldAfter(flushPos)
      /\ flushPos' = flushPos + 1
      /\ stage' = IF flushPos + 1 = DEDUP_ENTRIES THEN "exited" ELSE stage
      /\ cursor' = cursor /\ clock' = clock /\ seen' = seen /\ shown' = shown
      /\ lost' = lost /\ lastTs' = lastTs /\ raised' = raised
  BY DEF FlushEntry, AfterEmit, NextFlush, LastFlush
<1>2. flushPos \in Slots /\ flushPos + 1 \in 0 .. DEDUP_ENTRIES
  BY <1>a, <1>1 DEF IInv, FlushProgress, TypeOK, Slots
<1>3. /\ cache' \in [Slots -> Entry] /\ ActiveHasKey' /\ OneEntryPerKey'
      /\ \A r \in Slots : r # flushPos => cache'[r] = cache[r]
      /\ \A r \in Slots : cache'[r].active =>
            r # flushPos /\ cache'[r] = cache[r] /\ cache[r].active
      /\ \A j \in Keys : /\ Resident(j)' <=> Elsewhere(flushPos, j)
                         /\ \A r \in Slots : same_dedup_key(r, j)' <=>
                               r # flushPos /\ same_dedup_key(r, j)
  BY <1>1, <1>2, ClearSlot
<1>4. TypeOK'
  <2>1. /\ summed' \in [Keys -> Nat] /\ summaries' \in [Keys -> Nat]
        /\ told' \subseteq Keys \X Dsts
    BY <1>a, <1>1, <1>2, EmitCounts
  <2> QED
    BY <1>a, <1>1, <1>2, <1>3, <2>1 DEF TypeOK
<1>5. Conservation' /\ SummaryPerAlert'
  <2> SUFFICES ASSUME NEW j \in Keys
               PROVE  /\ \A r \in Slots : same_dedup_key(r, j)' =>
                            seen[j] = shown[j] + summed'[j] + lost[j] + cache'[r].repeat
                      /\ ~Resident(j)' => seen[j] = shown[j] + summed'[j] + lost[j]
                      /\ summaries'[j] + (IF Resident(j)' THEN 1 ELSE 0) <= shown[j]
    BY <1>1 DEF Conservation, SummaryPerAlert
  <2>1. /\ \A r \in Slots \ {flushPos} : same_dedup_key(r, j) =>
              seen[j] = shown[j] + summed'[j] + lost[j] + cache[r].repeat
        /\ ~Elsewhere(flushPos, j) => seen[j] = shown[j] + summed'[j] + lost[j]
        /\ summaries'[j] + (IF Elsewhere(flushPos, j) THEN 1 ELSE 0) <= shown[j]
    BY <1>1, <1>2, EmitAccounts
  <2> QED
    BY <1>3, <2>1
<1>6. EntryIsLatest'
  <2> SUFFICES ASSUME NEW r \in Slots, cache'[r].active
               PROVE  /\ cache'[r].last = lastTs[cache'[r].key]
                      /\ <<cache'[r].key, cache'[r].dst>> \in told'
    BY <1>1 DEF EntryIsLatest
  <2>1. /\ cache'[r] = cache[r]
        /\ cache[r].last = lastTs[cache[r].key]
        /\ <<cache[r].key, cache[r].dst>> \in told
    BY <1>3 DEF IInv, EntryIsLatest
  <2> QED
    BY <1>a, <1>1, <1>2, <2>1, EmitCounts
<1>7. FlushProgress'
  BY <1>a, <1>1, <1>2, <1>3 DEF IInv, FlushProgress, TypeOK, Slots
<1>8. WrapAfterAlert'
  BY <1>1 DEF IInv, WrapAfterAlert
<1> QED
  BY <1>3, <1>4, <1>5, <1>6, <1>7, <1>8 DEF IInv

\* Stopping, being killed and stuttering leave the cache and the books alone.
LEMMA StandStillInv ==
    ASSUME IInv, Stop \/ Kill \/ UNCHANGED vars
    PROVE  IInv'
<1>1. UNCHANGED <<cache, cursor, flushPos, clock, book>>
  BY DEF Stop, Kill, vars
<1>2. TypeOK'
  BY <1>1 DEF IInv, TypeOK, Stop, Kill, vars, book
<1>3. FlushProgress'
  BY <1>1, DedupAssumption DEF IInv, FlushProgress, Stop, Kill, vars
<1> QED
  BY <1>1, <1>2, <1>3 DEF IInv, ActiveHasKey, OneEntryPerKey, Conservation,
     SummaryPerAlert, EntryIsLatest, WrapAfterAlert, Resident, same_dedup_key, book

\* Every step of the host preserves the invariant.
LEMMA StepInv == IInv /\ [Next]_vars => IInv'
<1> SUFFICES ASSUME IInv, [Next]_vars PROVE IInv'
  OBVIOUS
<1>1. ASSUME NEW k \in Keys, NEW d \in Dsts, NEW ts \in Ts,
             Suppress(k, d, ts) \/ Expire(k, d, ts) \/ Insert(k, d, ts)
      PROVE  IInv'
  BY <1>1, SuppressInv, ExpireInv, InsertInv
<1>2. CASE FlushEntry
  BY <1>2, FlushInv
<1>3. CASE Stop \/ Kill \/ UNCHANGED vars
  BY <1>3, StandStillInv
<1> QED
  BY <1>1, <1>2, <1>3 DEF Next, Deliver

-------------------------------------------------------------------------------
(* The results. *)

\* Every call of suppress_duplicate and of the flush preserves the invariant.
THEOREM Invariant == Spec => []IInv
  BY InitInv, StepInv, PTL DEF Spec

\* The cache, its cursor and all counters stay in their types.
THEOREM TypeCorrect == Spec => []TypeOK
<1>1. IInv => TypeOK
  BY DEF IInv
<1> QED
  BY <1>1, Invariant, PTL

\* suppress_duplicate keeps at most one active entry per finding.
THEOREM UniqueEntries == Spec => []OneEntryPerKey
<1>1. IInv => OneEntryPerKey
  BY DEF IInv
<1> QED
  BY <1>1, Invariant, PTL

\* Every finding handed to suppress_duplicate is shown, summarised, waiting or
\* lost to a wrap of the repeat counter: exactly one of these.
THEOREM NothingVanishes == Spec => []Conservation
<1>1. IInv => Conservation
  BY DEF IInv
<1> QED
  BY <1>1, Invariant, PTL

\* No summary without an individually emitted alert of its own.
THEOREM SummariesBounded == Spec => []SummaryPerAlert
<1>1. IInv => SummaryPerAlert
  BY DEF IInv
<1> QED
  BY <1>1, Invariant, PTL

\* The window is always measured from the latest finding of the key, and what a
\* summary will print was printed before.
THEOREM WindowFromLatest == Spec => []EntryIsLatest
<1>1. IInv => EntryIsLatest
  BY DEF IInv
<1> QED
  BY <1>1, Invariant, PTL

\* The flush has been over every slot, so at the exit no count waits any more.
LEMMA NothingPends ==
    ASSUME IInv
    PROVE  NothingPendingAtExit
<1>1. stage = "exited" => \A k \in Keys : ~Resident(k)
  BY DedupAssumption DEF IInv, FlushProgress, Resident, same_dedup_key, Slots
<1>2. stage = "exited" => \A k \in Keys : seen[k] = shown[k] + summed[k] + lost[k]
  BY <1>1 DEF IInv, Conservation
<1>3. ASSUME NEW k \in Keys, lost[k] > 0 PROVE seen[k] > RepeatModulus
  <2>1. /\ lost[k] >= RepeatModulus /\ shown[k] > 0 /\ RepeatModulus \in Nat
        /\ seen[k] \in Nat /\ shown[k] \in Nat /\ summed[k] \in Nat /\ lost[k] \in Nat
    BY <1>3, DedupAssumption DEF IInv, WrapAfterAlert, TypeOK
  <2>2. PICK n \in Nat : seen[k] = shown[k] + summed[k] + lost[k] + n
    <3>1. CASE Resident(k)
      <4>1. PICK s \in Slots : same_dedup_key(s, k)
        BY <3>1 DEF Resident
      <4>2. cache[s].repeat \in Nat
        BY DedupAssumption DEF IInv, TypeOK, Entry
      <4> QED
        BY <4>1, <4>2 DEF IInv, Conservation
    <3>2. CASE ~Resident(k)
      BY <2>1, <3>2 DEF IInv, Conservation
    <3> QED
      BY <3>1, <3>2
  <2> QED
    BY <2>1, <2>2
<1> QED
  BY <1>1, <1>2, <1>3 DEF NothingPendingAtExit

\* An orderly exit leaves no swallowed finding unreported, short of 2^32 repeats.
THEOREM FlushReportsAll == Spec => []NothingPendingAtExit
<1>1. IInv => NothingPendingAtExit
  BY NothingPends
<1> QED
  BY <1>1, Invariant, PTL

\* A finding is swallowed only inside the window of the previous one of its key.
THEOREM SuppressionJustified == Spec => SuppressedOnlyInWindow
<1> DEFINE Justified == \A k \in Keys :
        (seen'[k] # seen[k] /\ shown'[k] = shown[k])
           => seen[k] > 0 /\ Elapsed(lastTs'[k], lastTs[k]) < dedup_window_ns
<1>1. ASSUME IInv, [Next]_vars PROVE Justified \/ UNCHANGED vars
  <2>1. ASSUME NEW k \in Keys, NEW d \in Dsts, NEW ts \in Ts, Suppress(k, d, ts)
        PROVE  Justified
    <3>1. /\ TypeOK /\ Arrive(k, d, ts)
      BY <1>1, <2>1 DEF IInv, Suppress
    <3>2. PICK s \in Slots : Match(s, k) /\ WithinWindow(ts, cache[s].last)
      BY <2>1 DEF Suppress
    <3>3. same_dedup_key(s, k) /\ Resident(k) /\ cache[s].last = lastTs[k]
      BY <1>1, <3>2 DEF IInv, EntryIsLatest, Match, same_dedup_key, Resident
    <3>4. seen[k] > 0
      <4>1. summaries[k] + 1 <= shown[k]
        BY <1>1, <3>3 DEF IInv, SummaryPerAlert
      <4>2. seen[k] = shown[k] + summed[k] + lost[k] + cache[s].repeat
        BY <1>1, <3>3 DEF IInv, Conservation
      <4>3. /\ shown[k] \in Nat /\ summed[k] \in Nat /\ lost[k] \in Nat
            /\ summaries[k] \in Nat /\ cache[s].repeat \in Nat
        BY <3>1, DedupAssumption DEF TypeOK, Entry
      <4> QED
        BY <4>1, <4>2, <4>3
    <3>5. Elapsed(lastTs'[k], lastTs[k]) < dedup_window_ns
      BY <3>1, <3>2, <3>3, ArriveType DEF WithinWindow
    <3> QED
      BY <3>1, <3>4, <3>5, ArriveType
  <2>2. ASSUME NEW k \in Keys, NEW d \in Dsts, NEW ts \in Ts,
               Expire(k, d, ts) \/ Insert(k, d, ts)
        PROVE  Justified
    <3>1. /\ TypeOK /\ Arrive(k, d, ts) /\ shown' = [shown EXCEPT ![k] = @ + 1]
      BY <1>1, <2>2 DEF IInv, Expire, Insert
    <3>2. shown'[k] # shown[k]
      BY <3>1 DEF TypeOK
    <3> QED
      BY <3>1, <3>2, ArriveType
  <2>3. CASE Stop \/ Kill \/ FlushEntry
    BY <2>3 DEF Stop, Kill, FlushEntry, book
  <2> QED
    BY <1>1, <2>1, <2>2, <2>3 DEF Next, Deliver
<1>2. ASSUME IInv, [Next]_vars PROVE [Justified]_vars
  BY <1>1, <1>2
<1> QED
  BY <1>2, Invariant, PTL DEF Spec, SuppressedOnlyInWindow

-------------------------------------------------------------------------------
(* The abstraction: which runs are open, and how much waits in each.         *)

\* With one entry per key, the count waiting for a key is that of its entry.
LEMMA PendingIsRepeat ==
    ASSUME OneEntryPerKey, NEW k \in Keys, NEW s \in Slots, same_dedup_key(s, k)
    PROVE  Resident(k) /\ PendingOf(k) = cache[s].repeat
<1>1. Resident(k)
  BY DEF Resident
<1>2. (CHOOSE r \in Slots : same_dedup_key(r, k)) = s
  BY DEF OneEntryPerKey, same_dedup_key
<1> QED
  BY <1>1, <1>2 DEF PendingOf

\* The same of the state after a step.
LEMMA PendingIsRepeatNext ==
    ASSUME OneEntryPerKey', NEW k \in Keys, NEW s \in Slots, same_dedup_key(s, k)'
    PROVE  Resident(k)' /\ PendingOf(k)' = cache'[s].repeat
<1>1. Resident(k)'
  BY DEF Resident
<1>2. (CHOOSE r \in Slots : same_dedup_key(r, k)') = s
  BY DEF OneEntryPerKey, same_dedup_key
<1> QED
  BY <1>1, <1>2 DEF PendingOf

\* The runs that are closed when slot s is summarised and given up: none or one.
ClosedBy(s) == {k \in Keys : same_dedup_key(s, k)}

\* Summarising slot s moves the count of the run it holds to the summaries.
LEMMA EmitCloses ==
    ASSUME IInv, NEW s \in Slots, summed' = SummedAfter(s)
    PROVE  /\ ClosedBy(s) \in {{}} \cup {{c} : c \in Keys}
           /\ \A k \in ClosedBy(s) : Resident(k)
           /\ summed' = [k \in Keys |-> IF k \in ClosedBy(s)
                                        THEN summed[k] + PendingOf(k) ELSE summed[k]]
<1>a. TypeOK /\ ActiveHasKey /\ OneEntryPerKey
  BY DEF IInv
<1>1. ClosedBy(s) \in {{}} \cup {{c} : c \in Keys}
  <2>1. \A k \in ClosedBy(s) : ClosedBy(s) = {k}
    BY DEF ClosedBy, same_dedup_key
  <2>2. ClosedBy(s) # {} => \E k \in Keys : k \in ClosedBy(s)
    BY DEF ClosedBy
  <2> QED
    BY <2>1, <2>2
<1>2. \A k \in ClosedBy(s) : Resident(k) /\ PendingOf(k) = cache[s].repeat
  BY <1>a, PendingIsRepeat DEF ClosedBy
<1>3. /\ SummedAfter(s) \in [Keys -> Nat] /\ summed \in [Keys -> Nat]
      /\ \A k \in Keys : SummedAfter(s)[k] = summed[k] +
             (IF same_dedup_key(s, k) THEN cache[s].repeat ELSE 0)
  BY <1>a, EmitCounts DEF TypeOK
<1>4. ASSUME NEW k \in Keys
      PROVE  SummedAfter(s)[k] = IF k \in ClosedBy(s)
                                 THEN summed[k] + PendingOf(k) ELSE summed[k]
  <2>1. CASE k \in ClosedBy(s)
    BY <1>2, <1>3, <2>1 DEF ClosedBy
  <2>2. CASE k \notin ClosedBy(s)
    BY <1>3, <2>2 DEF ClosedBy
  <2> QED
    BY <2>1, <2>2
<1> QED
  BY <1>1, <1>2, <1>3, <1>4

\* What the ledger sees of the other slots when slot s is given up.
LEMMA OthersStay ==
    ASSUME IInv, OneEntryPerKey', NEW s \in Slots, NEW k \in Keys,
           \A r \in Slots : r # s => cache'[r] = cache[r],
           ~same_dedup_key(s, k)'
    PROVE  /\ Resident(k)' <=> Resident(k) /\ k \notin ClosedBy(s)
           /\ PendingOf(k)' = IF k \in ClosedBy(s) THEN 0 ELSE PendingOf(k)
<1>a. OneEntryPerKey
  BY DEF IInv
<1>1. \A r \in Slots : same_dedup_key(r, k)' <=> r # s /\ same_dedup_key(r, k)
  BY DEF same_dedup_key
<1>2. CASE k \in ClosedBy(s)
  <2>1. \A r \in Slots : r # s => ~same_dedup_key(r, k)
    BY <1>a, <1>2 DEF ClosedBy, OneEntryPerKey, same_dedup_key
  <2>2. ~Resident(k)'
    BY <1>1, <2>1 DEF Resident
  <2> QED
    BY <1>2, <2>2 DEF PendingOf
<1>3. CASE k \notin ClosedBy(s)
  <2>1. \A r \in Slots : same_dedup_key(r, k)' <=> same_dedup_key(r, k)
    BY <1>1, <1>3 DEF ClosedBy
  <2>2. Resident(k)' <=> Resident(k)
    BY <2>1 DEF Resident
  <2>3. CASE Resident(k)
    <3>1. PICK r \in Slots : same_dedup_key(r, k)
      BY <2>3 DEF Resident
    <3>2. PendingOf(k) = cache[r].repeat /\ PendingOf(k)' = cache'[r].repeat
      BY <1>a, <2>1, <3>1, PendingIsRepeat, PendingIsRepeatNext
    <3>3. cache'[r] = cache[r]
      BY <1>1, <2>1, <3>1
    <3> QED
      BY <1>3, <2>2, <3>2, <3>3
  <2>4. CASE ~Resident(k)
    BY <1>3, <2>2, <2>4 DEF PendingOf
  <2> QED
    BY <2>2, <2>3, <2>4
<1> QED
  BY <1>2, <1>3

-------------------------------------------------------------------------------
(* Each call of suppress_duplicate and each flush step is one ledger entry.  *)

\* A repeat inside the window is swallowed into the open run of its key.
LEMMA SuppressSwallows ==
    ASSUME IInv, IInv', NEW k \in Keys, NEW d \in Dsts, NEW ts \in Ts, Suppress(k, d, ts)
    PROVE  Ledger!Swallow(k)
<1>a. /\ TypeOK /\ OneEntryPerKey /\ OneEntryPerKey'
      /\ shown' = shown /\ summed' = summed
  BY DEF IInv, Suppress
<1>1. PICK s \in Slots : Match(s, k) /\ cache' = [cache EXCEPT ![s] = Repeated(@, ts)]
  BY DEF Suppress
<1>2. same_dedup_key(s, k)
  BY <1>1 DEF Match
<1>3. /\ cache'[s].active = cache[s].active /\ cache'[s].key = cache[s].key
      /\ cache'[s].repeat = Bump(cache[s].repeat)
      /\ \A r \in Slots : r # s => cache'[r] = cache[r]
  BY <1>1, <1>a DEF TypeOK, Repeated, Entry
<1>4. \A j \in Keys : \A r \in Slots : same_dedup_key(r, j)' <=> same_dedup_key(r, j)
  <2>1. ASSUME NEW r \in Slots
        PROVE  cache'[r].active = cache[r].active /\ cache'[r].key = cache[r].key
    BY <1>3
  <2> QED
    BY <2>1 DEF same_dedup_key
<1>5. \A j \in Keys : Resident(j)' <=> Resident(j)
  BY <1>4 DEF Resident
<1>6. /\ Resident(k) /\ PendingOf(k) = cache[s].repeat
      /\ PendingOf(k)' = Bump(cache[s].repeat)
  BY <1>a, <1>2, <1>3, <1>4, PendingIsRepeat, PendingIsRepeatNext
<1>7. ASSUME NEW j \in Keys, j # k PROVE PendingOf(j)' = PendingOf(j)
  <2>1. CASE Resident(j)
    <3>1. PICK r \in Slots : same_dedup_key(r, j)
      BY <2>1 DEF Resident
    <3>2. r # s
      BY <1>2, <1>7, <3>1 DEF same_dedup_key
    <3> QED
      BY <1>a, <1>3, <1>4, <3>1, <3>2, PendingIsRepeat, PendingIsRepeatNext
  <2>2. CASE ~Resident(j)
    BY <1>5, <2>2 DEF PendingOf
  <2> QED
    BY <2>1, <2>2
<1>8. [j \in Keys |-> Resident(j)'] = [j \in Keys |-> Resident(j)]
  BY <1>5 DEF Resident
<1>9. [j \in Keys |-> PendingOf(j)'] =
        [[j \in Keys |-> PendingOf(j)] EXCEPT
            ![k] = IF @ + 1 = RepeatModulus THEN 0 ELSE @ + 1]
  BY <1>6, <1>7 DEF Bump
<1> QED
  BY <1>a, <1>6, <1>8, <1>9 DEF Ledger!Swallow

\* A call that shows finding k: the run in the slot it gives up is closed, and a
\* run for k is open afterwards exactly if the finding was cached.
LEMMA ShownInLedger ==
    ASSUME IInv, IInv', NEW k \in Keys, NEW s \in Slots, NEW opens \in BOOLEAN,
           summed' = SummedAfter(s), shown' = [shown EXCEPT ![k] = @ + 1],
           \A r \in Slots : r # s => cache'[r] = cache[r],
           Resident(k) => k \in ClosedBy(s),
           opens => k \notin ClosedBy(s),
           opens <=> same_dedup_key(s, k)',
           opens => cache'[s].repeat = 0,
           \A j \in Keys : j # k => ~same_dedup_key(s, j)'
    PROVE  Ledger!Show(k)
<1>a. OneEntryPerKey /\ OneEntryPerKey'
  BY DEF IInv
<1>1. /\ ClosedBy(s) \in {{}} \cup {{c} : c \in Keys}
      /\ \A j \in ClosedBy(s) : Resident(j)
      /\ summed' = [j \in Keys |-> IF j \in ClosedBy(s)
                                   THEN summed[j] + PendingOf(j) ELSE summed[j]]
  BY EmitCloses
<1>2. ASSUME NEW j \in Keys
      PROVE  /\ Resident(j)' <=> IF j = k THEN opens
                                 ELSE Resident(j) /\ j \notin ClosedBy(s)
             /\ PendingOf(j)' = IF j \in ClosedBy(s) THEN 0 ELSE PendingOf(j)
  <2>1. CASE j = k /\ opens
    <3>1. Resident(k)' /\ PendingOf(k)' = 0
      BY <1>a, <2>1, PendingIsRepeatNext
    <3>2. k \notin ClosedBy(s) /\ PendingOf(k) = 0
      BY <2>1 DEF PendingOf
    <3> QED
      BY <2>1, <3>1, <3>2
  <2>2. CASE ~(j = k /\ opens)
    <3>1. ~same_dedup_key(s, j)'
      BY <2>2
    <3>2. /\ Resident(j)' <=> Resident(j) /\ j \notin ClosedBy(s)
          /\ PendingOf(j)' = IF j \in ClosedBy(s) THEN 0 ELSE PendingOf(j)
      BY <1>a, <3>1, OthersStay
    <3> QED
      BY <2>2, <3>2
  <2> QED
    BY <2>1, <2>2
<1> DEFINE Open == [j \in Keys |-> Resident(j)]
           Pending == [j \in Keys |-> PendingOf(j)]
<1>3. /\ \A j \in ClosedBy(s) : Open[j]
      /\ summed' = [j \in Keys |-> IF j \in ClosedBy(s)
                                   THEN summed[j] + Pending[j] ELSE summed[j]]
      /\ Pending' = [j \in Keys |-> IF j \in ClosedBy(s) THEN 0 ELSE Pending[j]]
  BY <1>1, <1>2 DEF ClosedBy
<1>4. Open' = [j \in Keys |-> IF j = k THEN opens ELSE Open[j] /\ j \notin ClosedBy(s)]
  BY <1>2 DEF Resident
<1>5. Open[k] => k \in ClosedBy(s)
  OBVIOUS
<1> QED
  BY <1>1, <1>3, <1>4, <1>5 DEF Ledger!Show, Ledger!Close

\* A repeat outside the window closes the run of its key and opens none.
LEMMA ExpireShows ==
    ASSUME IInv, IInv', NEW k \in Keys, NEW d \in Dsts, NEW ts \in Ts, Expire(k, d, ts)
    PROVE  Ledger!Show(k)
<1>1. PICK s \in Slots : /\ Match(s, k)
                         /\ cache' = [cache EXCEPT ![s] = Cleared]
                         /\ summed' = SummedAfter(s)
  BY DEF Expire, AfterEmit
<1>2. shown' = [shown EXCEPT ![k] = @ + 1]
  BY DEF Expire
<1>3. k \in ClosedBy(s)
  BY <1>1 DEF Match, ClosedBy
<1>4. /\ \A r \in Slots : r # s => cache'[r] = cache[r]
      /\ \A j \in Keys : ~same_dedup_key(s, j)'
  BY <1>1 DEF IInv, TypeOK, Cleared, same_dedup_key
<1>5. FALSE \in BOOLEAN
  OBVIOUS
<1> QED
  BY <1>1, <1>2, <1>3, <1>4, <1>5, ShownInLedger

\* A finding with no entry closes the run in the slot under the cursor, if there
\* is one, and opens a run of its own.
LEMMA InsertShows ==
    ASSUME IInv, IInv', NEW k \in Keys, NEW d \in Dsts, NEW ts \in Ts, Insert(k, d, ts)
    PROVE  Ledger!Show(k)
<1>1. PICK s \in Slots :
        /\ cache' = [cache EXCEPT ![s] =
                       [active |-> TRUE, key |-> k, dst |-> d, last |-> ts, repeat |-> 0]]
        /\ summed' = SummedAfter(s)
  BY DEF Insert, IInv, TypeOK
<1>2. ~Resident(k) /\ shown' = [shown EXCEPT ![k] = @ + 1] /\ cache \in [Slots -> Entry]
  BY DEF Insert, IInv, TypeOK
<1>3. k \notin ClosedBy(s)
  BY <1>2 DEF Resident, ClosedBy
<1>4. /\ \A r \in Slots : r # s => cache'[r] = cache[r]
      /\ cache'[s].active /\ cache'[s].key = k /\ cache'[s].repeat = 0
  BY <1>1, <1>2
<1>5. same_dedup_key(s, k)' /\ \A j \in Keys : j # k => ~same_dedup_key(s, j)'
  BY <1>4 DEF same_dedup_key
<1>6. TRUE \in BOOLEAN
  OBVIOUS
<1> QED
  BY <1>1, <1>2, <1>3, <1>4, <1>5, <1>6, ShownInLedger

\* A flush step reports the run of the slot it clears, if the slot holds one.
LEMMA FlushReports ==
    ASSUME IInv, IInv', FlushEntry
    PROVE  (\E k \in Keys : Ledger!Report(k)) \/ UNCHANGED Ledger!ledger
<1>1. PICK s \in Slots : /\ cache' = [cache EXCEPT ![s] = Cleared]
                         /\ summed' = SummedAfter(s)
  <2>1. flushPos \in Slots
    BY DedupAssumption DEF FlushEntry, IInv, FlushProgress, TypeOK, Slots
  <2>2. /\ cache' = [cache EXCEPT ![flushPos] = Cleared]
        /\ summed' = SummedAfter(flushPos)
    BY DEF FlushEntry, AfterEmit
  <2> QED
    BY <2>1, <2>2
<1>2. shown' = shown /\ OneEntryPerKey'
  BY DEF FlushEntry, IInv
<1>3. /\ \A r \in Slots : r # s => cache'[r] = cache[r]
      /\ \A j \in Keys : ~same_dedup_key(s, j)'
  BY <1>1 DEF IInv, TypeOK, Cleared, same_dedup_key
<1>4. /\ ClosedBy(s) \in {{}} \cup {{c} : c \in Keys}
      /\ \A j \in ClosedBy(s) : Resident(j)
      /\ summed' = [j \in Keys |-> IF j \in ClosedBy(s)
                                   THEN summed[j] + PendingOf(j) ELSE summed[j]]
  BY <1>1, EmitCloses
<1>5. ASSUME NEW j \in Keys
      PROVE  /\ Resident(j)' <=> Resident(j) /\ j \notin ClosedBy(s)
             /\ PendingOf(j)' = IF j \in ClosedBy(s) THEN 0 ELSE PendingOf(j)
  BY <1>2, <1>3, OthersStay
<1> DEFINE Open == [j \in Keys |-> Resident(j)]
           Pending == [j \in Keys |-> PendingOf(j)]
<1>6. Pending' = [j \in Keys |-> IF j \in ClosedBy(s) THEN 0 ELSE Pending[j]]
  BY <1>5
<1>7. Open' = [j \in Keys |-> Open[j] /\ j \notin ClosedBy(s)]
  BY <1>5 DEF Resident
<1>8. CASE ClosedBy(s) = {}
  <2>1. Open' = Open
    BY <1>5, <1>8 DEF Resident
  <2>2. Pending' = Pending
    BY <1>6, <1>8
  <2>3. summed' = summed
    BY <1>4, <1>8 DEF IInv, TypeOK
  <2> QED
    BY <1>2, <2>1, <2>2, <2>3 DEF Ledger!ledger
<1>9. CASE \E c \in Keys : ClosedBy(s) = {c}
  <2>1. PICK c \in Keys : ClosedBy(s) = {c}
    BY <1>9
  <2>2. /\ \A j \in {c} : Open[j]
        /\ summed' = [j \in Keys |-> IF j \in {c} THEN summed[j] + Pending[j]
                                     ELSE summed[j]]
    BY <1>4, <2>1
  <2>3. Open' = [Open EXCEPT ![c] = FALSE]
    BY <1>5, <2>1 DEF Resident
  <2>4. Ledger!Report(c)
    BY <1>2, <1>6, <2>1, <2>2, <2>3 DEF Ledger!Report, Ledger!Close
  <2> QED
    BY <2>4
<1> QED
  BY <1>4, <1>8, <1>9

-------------------------------------------------------------------------------
(* The refinement. *)

\* The empty cache is the empty ledger.
LEMMA LedgerInit == Init => Ledger!Init
<1> SUFFICES ASSUME Init PROVE Ledger!Init
  OBVIOUS
<1>1. \A k \in Keys : ~Resident(k)
  BY DEF Init, Resident, same_dedup_key, Cleared
<1>2. \A k \in Keys : PendingOf(k) = 0
  BY <1>1 DEF PendingOf
<1>3. [k \in Keys |-> Resident(k)] = [k \in Keys |-> FALSE]
  BY <1>1 DEF Resident
<1>4. [k \in Keys |-> PendingOf(k)] = [k \in Keys |-> 0]
  BY <1>2
<1> QED
  BY <1>3, <1>4 DEF Init, Ledger!Init

\* Every step of the host is a step of the ledger or leaves it alone.
LEMMA LedgerStep ==
    ASSUME IInv, IInv', [Next]_vars
    PROVE  Ledger!Next \/ UNCHANGED Ledger!ledger
<1>1. ASSUME NEW k \in Keys, NEW d \in Dsts, NEW ts \in Ts,
             Suppress(k, d, ts) \/ Expire(k, d, ts) \/ Insert(k, d, ts)
      PROVE  Ledger!Next
  BY <1>1, SuppressSwallows, ExpireShows, InsertShows DEF Ledger!Next
<1>2. CASE FlushEntry
  BY <1>2, FlushReports DEF Ledger!Next
<1>3. CASE Stop \/ Kill \/ UNCHANGED vars
  <2>1. cache' = cache /\ shown' = shown /\ summed' = summed
    BY <1>3 DEF Stop, Kill, vars, book
  <2> QED
    BY <2>1 DEF Ledger!ledger, PendingOf, Resident, same_dedup_key
<1> QED
  BY <1>1, <1>2, <1>3 DEF Next, Deliver

\* The duplicate cache implements the ledger: whatever sequence of findings,
\* expiries, evictions and flush steps, each finding is shown or swallowed into an
\* open run, and a run that is closed is reported with its whole count.
THEOREM CacheKeepsLedger == Spec => ImplementsLedger
<1>1. IInv /\ IInv' /\ [Next]_vars => [Ledger!Next]_(Ledger!ledger)
  BY LedgerStep
<1> QED
  BY <1>1, LedgerInit, Invariant, PTL DEF Spec, ImplementsLedger, Ledger!Spec
===============================================================================
