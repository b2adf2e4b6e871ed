--------------------------- MODULE FlowStateProofs ----------------------------
(***************************************************************************)
(* The flow table keeps its promises for every number of process trees and *)
(* of slots, every window, and every order in which events come in.        *)
(***************************************************************************)
EXTENDS FlowState, FlowTableProofs, TLAPS

-------------------------------------------------------------------------------
(* The inductive invariant, and what one event does to it.                   *)

IInv == TypeOK /\ OneEntryPerRoot /\ EntryIsTrue /\ ReadRemembered

\* The empty table satisfies the invariant.
LEMMA InitInv == Init => IInv
<1> SUFFICES ASSUME Init PROVE IInv
  OBVIOUS
<1>1. \A s \in Slots : flow[s] = Cleared /\ ~flow[s].active
  BY ClearedIsEntry DEF Init, EmptyTable
<1>2. TypeOK
  BY ClearedIsEntry, FlowAssumption DEF Init, TypeOK, EmptyTable, NothingFound, Slots, Ts
<1> QED
  BY <1>1, <1>2 DEF Init, IInv, OneEntryPerRoot, EntryIsTrue, ReadRemembered

\* One event of root r, whatever its kind: the table and the history move together.
Moved(s, r, now, isRead, isShell) ==
    /\ Event(r, now)
    /\ HandedOut(flow, cursor, flow', s, r, now, isRead, isShell)
    /\ readAt' = IF isRead THEN [readAt EXCEPT ![r] = now] ELSE readAt
    /\ shells' = IF isShell THEN shells \cup {r} ELSE shells
    /\ displaced' = (displaced \cup Displaced(r, now)) \ (IF isRead THEN {r} ELSE {})
    /\ overtaken' = (overtaken \cup Overtaken(now)) \ (IF isRead THEN {r} ELSE {})

\* The roots an event may displace or overtake are roots of live or active entries.
LEMMA HistoryTypes ==
    ASSUME IInv, NEW r \in Roots, NEW now \in Ts
    PROVE  Displaced(r, now) \subseteq Roots /\ Overtaken(now) \subseteq Roots
<1>1. \A q \in Slots : flow[q].active => flow[q].root \in Roots
  BY DEF IInv, EntryIsTrue
<1>2. Displaced(r, now) \subseteq Roots
  BY <1>1 DEF Displaced, Full, Live, IInv, TypeOK
<1>3. Overtaken(now) \subseteq Roots
  BY <1>1 DEF Overtaken
<1> QED
  BY <1>2, <1>3

\* The types, the uniqueness and the truth of the entries after one event.
LEMMA MovedEntries ==
    ASSUME IInv, NEW s \in Slots, NEW r \in Roots, NEW now \in Ts,
           NEW isRead \in BOOLEAN, NEW isShell \in BOOLEAN,
           Moved(s, r, now, isRead, isShell)
    PROVE  /\ flow' \in [Slots -> Entry] /\ cursor' \in Slots /\ clock' \in Ts
           /\ workload' \in Workloads /\ lastAt' \in [Roots -> Ts \cup {None}]
           /\ readAt' \in [Roots -> Ts \cup {None}] /\ shells' \subseteq Roots
           /\ displaced' \subseteq Roots /\ overtaken' \subseteq Roots
           /\ UniqueRoots(flow')
           /\ EntryIsTrue'
<1>1. TypeOK /\ UniqueRoots(flow) /\ EntryIsTrue
  BY DEF IInv, OneEntryPerRoot, UniqueRoots
<1>2. Event(r, now) /\ HandedOut(flow, cursor, flow', s, r, now, isRead, isShell)
  BY DEF Moved
<1>3. /\ lastAt' = [lastAt EXCEPT ![r] = now] /\ workload' = workload
      /\ clock' = (IF now > clock THEN now ELSE clock)
      /\ cursor' = CursorAfter(flow, cursor, r, now)
  BY <1>2 DEF Event
<1>4. cursor' \in Slots
  BY <1>1, <1>3, FlowAssumption DEF TypeOK, CursorAfter, NextCursor, Slots
<1>5. /\ clock' \in Ts /\ workload' \in Workloads /\ lastAt' \in [Roots -> Ts \cup {None}]
  BY <1>1, <1>3 DEF TypeOK
<1>6. readAt' \in [Roots -> Ts \cup {None}] /\ shells' \subseteq Roots
  BY <1>1 DEF Moved, TypeOK
<1>7. displaced' \subseteq Roots /\ overtaken' \subseteq Roots
  BY <1>1, HistoryTypes DEF Moved, TypeOK
<1>8. /\ flow' \in [Slots -> Entry]
      /\ flow'[s].active /\ flow'[s].root = r /\ flow'[s].last = now
      /\ \A q \in Slots \ {s} : flow'[q].active => flow'[q] = flow[q] /\ flow'[q].root # r
  BY <1>2, ClearedIsEntry DEF HandedOut
<1>9. UniqueRoots(flow')
  BY <1>1, <1>8 DEF UniqueRoots
<1>10. EntryIsTrue'
  <2> SUFFICES ASSUME NEW q \in Slots, flow'[q].active
               PROVE  /\ flow'[q].root \in Roots
                      /\ flow'[q].last = lastAt'[flow'[q].root]
                      /\ flow'[q].sensitive => readAt'[flow'[q].root] # None
                      /\ flow'[q].shell => flow'[q].root \in shells'
    BY DEF EntryIsTrue
  <2>1. CASE q = s
    <3>1. flow'[s].last = lastAt'[r]
      BY <1>1, <1>3, <1>8 DEF TypeOK
    <3>2. flow'[s].sensitive => readAt'[r] # None
      <4>1. CASE isRead
        BY <1>1, <4>1 DEF Moved, TypeOK, None, Ts
      <4>2. CASE ~isRead
        BY <1>1, <1>2, <4>2 DEF Moved, HandedOut, Hit, Live, EntryIsTrue
      <4> QED
        BY <4>1, <4>2
    <3>3. flow'[s].shell => r \in shells'
      <4>1. CASE isShell
        BY <4>1 DEF Moved
      <4>2. CASE ~isShell
        BY <1>1, <1>2, <4>2 DEF Moved, HandedOut, Hit, Live, EntryIsTrue
      <4> QED
        BY <4>1, <4>2
    <3> QED
      BY <1>8, <2>1, <3>1, <3>2, <3>3
  <2>2. CASE q # s
    <3>1. flow'[q] = flow[q] /\ flow[q].root # r /\ flow[q].active
      BY <1>8, <2>2
    <3>2. /\ flow[q].root \in Roots /\ flow[q].last = lastAt[flow[q].root]
          /\ flow[q].sensitive => readAt[flow[q].root] # None
          /\ flow[q].shell => flow[q].root \in shells
      BY <1>1, <3>1 DEF EntryIsTrue
    <3>3. /\ lastAt'[flow[q].root] = lastAt[flow[q].root]
          /\ readAt'[flow[q].root] = readAt[flow[q].root]
          /\ shells \subseteq shells'
      BY <1>1, <1>3, <3>1, <3>2 DEF Moved, TypeOK
    <3> QED
      BY <3>1, <3>2, <3>3
  <2> QED
    BY <2>1, <2>2
<1> QED
  BY <1>4, <1>5, <1>6, <1>7, <1>8, <1>9, <1>10

\* A sensitive read survives one event, of its own tree or of another, unless the entry
\* is taken over or the event is older than the entry.
LEMMA MovedRemembers ==
    ASSUME IInv, NEW s \in Slots, NEW r \in Roots, NEW now \in Ts,
           NEW isRead \in BOOLEAN, NEW isShell \in BOOLEAN,
           Moved(s, r, now, isRead, isShell)
    PROVE  ReadRemembered'
<1>1. TypeOK /\ UniqueRoots(flow) /\ EntryIsTrue
  BY DEF IInv, OneEntryPerRoot, UniqueRoots
<1>2. Event(r, now) /\ HandedOut(flow, cursor, flow', s, r, now, isRead, isShell)
  BY DEF Moved
<1>3. /\ clock' \in Ts /\ now <= clock' /\ clock <= clock' /\ clock \in Ts
  BY <1>1, <1>2 DEF Event, TypeOK, Ts
<1>4. flow'[s].active /\ flow'[s].root = r /\ flow'[s].last = now
  BY <1>2 DEF HandedOut
<1> SUFFICES ASSUME NEW k \in Roots, k \notin displaced', k \notin overtaken',
                    readAt'[k] # None, clock' - readAt'[k] <= FlowWindow
             PROVE  \E q \in Slots : /\ flow'[q].active /\ flow'[q].root = k
                                     /\ flow'[q].sensitive /\ flow'[q].last >= readAt'[k]
  BY DEF ReadRemembered
<1>5. CASE isRead /\ k = r
  <2>1. readAt'[k] = now
    BY <1>1, <1>5 DEF Moved, TypeOK
  <2>2. flow'[s].sensitive
    BY <1>2, <1>5 DEF HandedOut
  <2> QED
    BY <1>4, <1>5, <2>1, <2>2 DEF Ts
<1>6. CASE ~(isRead /\ k = r)
  <2>1. /\ readAt'[k] = readAt[k] /\ readAt[k] \in Ts
        /\ k \notin displaced /\ k \notin Displaced(r, now)
        /\ k \notin overtaken /\ k \notin Overtaken(now)
    BY <1>1, <1>6 DEF Moved, TypeOK
  <2>2. clock - readAt[k] <= FlowWindow
    BY <1>3, <2>1, FlowAssumption DEF Ts
  <2>3. PICK e \in Slots : /\ flow[e].active /\ flow[e].root = k
                           /\ flow[e].sensitive /\ flow[e].last >= readAt[k]
    BY <2>1, <2>2 DEF IInv, ReadRemembered, None, Ts
  <2>4. flow[e] \in Entry /\ flow[e].last \in Ts
    BY <1>1 DEF TypeOK, Entry
  <2>5. ~flow_entry_expired(flow[e], now)
    <3>1. ~(now < flow[e].last)
      BY <2>1, <2>3 DEF Overtaken
    <3>2. ~(now - flow[e].last > FlowWindow)
      BY <1>3, <2>1, <2>3, <2>4, FlowAssumption DEF Ts
    <3> QED
      BY <3>1, <3>2 DEF flow_entry_expired
  <2>6. Live(flow, e, now)
    BY <2>3, <2>5 DEF Live
  <2>7. CASE e = s
    <3>1. Hit(flow, s, r, now)
      <4>1. ~(~Known(flow, r, now) /\ Full(flow, now) /\ s = cursor)
        BY <2>1, <2>3, <2>7 DEF Displaced
      <4> QED
        BY <1>2, <2>6, <2>7, <4>1 DEF HandedOut
    <3>2. k = r
      BY <2>3, <2>7, <3>1 DEF Hit
    <3>3. flow'[s].sensitive
      BY <1>2, <2>3, <2>7, <3>1 DEF HandedOut
    <3>4. now >= readAt[k]
      BY <2>1, <2>3, <2>4, <2>5 DEF flow_entry_expired, Ts
    <3> QED
      BY <1>4, <2>1, <3>2, <3>3, <3>4
  <2>8. CASE e # s
    <3>1. flow'[e] = flow[e]
      BY <1>2, <2>5, <2>8 DEF HandedOut
    <3> QED
      BY <2>1, <2>3, <3>1
  <2> QED
    BY <2>7, <2>8
<1> QED
  BY <1>5, <1>6

-------------------------------------------------------------------------------
(* The actions: which slot they used, and what the correlation was told.     *)

\* An event that does not ask about its flow.
Unasked == asker' = NoRoot /\ answer' = NothingFound

\* EXEC, a sensitive read and a connect that is dismissed move one entry.
LEMMA ObserveMoves ==
    ASSUME IInv, NEW r \in Roots, NEW now \in Ts,
           \/ \E isShell \in BOOLEAN : Exec(r, now, isShell)
           \/ SensitiveRead(r, now)
           \/ Connect(r, now)
    PROVE  /\ Unasked
           /\ \E s \in Slots, isRead \in BOOLEAN, isShell \in BOOLEAN :
                 Moved(s, r, now, isRead, isShell)
<1>1. flow \in [Slots -> Entry] /\ UniqueRoots(flow) /\ cursor \in Slots
  BY DEF IInv, TypeOK, OneEntryPerRoot, UniqueRoots
<1>2. ASSUME NEW isShell \in BOOLEAN, Exec(r, now, isShell)
      PROVE  Unasked /\ \E s \in Slots : Moved(s, r, now, FALSE, isShell)
  <2>1. PICK s \in Slots : /\ Picks(flow, cursor, s, r, now)
                           /\ flow' = AfterObserve(flow, s, r, now, FALSE, isShell)
    BY <1>2 DEF Exec
  <2>2. HandedOut(flow, cursor, flow', s, r, now, FALSE, isShell)
    BY <1>1, <2>1, ObserveLeaves
  <2> QED
    BY <1>2, <2>2 DEF Exec, Moved, Unasked
<1>3. CASE SensitiveRead(r, now)
  <2>1. PICK s \in Slots : /\ Picks(flow, cursor, s, r, now)
                           /\ flow' = AfterObserve(flow, s, r, now, TRUE, FALSE)
    BY <1>3 DEF SensitiveRead
  <2>2. HandedOut(flow, cursor, flow', s, r, now, TRUE, FALSE)
    BY <1>1, <2>1, ObserveLeaves
  <2>3. Moved(s, r, now, TRUE, FALSE)
    BY <1>3, <2>2 DEF SensitiveRead, Moved
  <2> QED
    BY <1>3, <2>3 DEF SensitiveRead, Unasked
<1>4. CASE Connect(r, now)
  <2>1. PICK s \in Slots : /\ Picks(flow, cursor, s, r, now)
                           /\ flow' = AfterObserve(flow, s, r, now, FALSE, FALSE)
    BY <1>4 DEF Connect
  <2>2. HandedOut(flow, cursor, flow', s, r, now, FALSE, FALSE)
    BY <1>1, <2>1, ObserveLeaves
  <2>3. Moved(s, r, now, FALSE, FALSE)
    BY <1>4, <2>2 DEF Connect, Moved
  <2> QED
    BY <1>4, <2>3 DEF Connect, Unasked
<1> QED
  BY <1>2, <1>3, <1>4

\* The connect that asks is answered from the entry its own event has refreshed: it
\* was found, and it speaks of the past only if the entry was live.
LEMMA TransferMoves ==
    ASSUME IInv, NEW r \in Roots, NEW now \in Ts, TransferConnect(r, now)
    PROVE  \E s \in Slots :
              /\ Moved(s, r, now, FALSE, FALSE)
              /\ asker' = r
              /\ answer' \in [found : {TRUE}, sensitive : BOOLEAN, shell : BOOLEAN]
              /\ (answer'.sensitive \/ answer'.shell) => Hit(flow, s, r, now)
<1>1. flow \in [Slots -> Entry] /\ UniqueRoots(flow) /\ cursor \in Slots
  BY DEF IInv, TypeOK, OneEntryPerRoot, UniqueRoots
<1>2. PICK s \in Slots :
         LET t == AfterObserve(flow, s, r, now, FALSE, FALSE)
         IN  /\ Picks(flow, cursor, s, r, now)
             /\ flow' = AfterLookup(t, r, now)
             /\ answer' = LookupAnswer(t, r, now)
  BY DEF TransferConnect
<1> DEFINE t == AfterObserve(flow, s, r, now, FALSE, FALSE)
<1>3. HandedOut(flow, cursor, t, s, r, now, FALSE, FALSE)
  BY <1>1, <1>2, ObserveLeaves
<1> HIDE DEF t
<1>4. t \in [Slots -> Entry] /\ FALSE \in BOOLEAN
  BY <1>3 DEF HandedOut
<1>5. /\ HandedOut(flow, cursor, AfterLookup(t, r, now), s, r, now, FALSE, FALSE)
      /\ LookupAnswer(t, r, now) \in [found : {TRUE}, sensitive : BOOLEAN, shell : BOOLEAN]
      /\ LookupAnswer(t, r, now).sensitive <=> t[s].sensitive
      /\ LookupAnswer(t, r, now).shell <=> t[s].shell
  BY <1>1, <1>3, <1>4, LookupFinds
<1>6. flow' = AfterLookup(t, r, now) /\ answer' = LookupAnswer(t, r, now)
  BY <1>2 DEF t
<1>7. (answer'.sensitive \/ answer'.shell) => Hit(flow, s, r, now)
  BY <1>3, <1>5, <1>6 DEF HandedOut
<1>8. Moved(s, r, now, FALSE, FALSE)
  BY <1>5, <1>6 DEF TransferConnect, Moved
<1> QED
  BY <1>5, <1>6, <1>7, <1>8 DEF TransferConnect

\* Every event preserves the invariant.
LEMMA StepInv == IInv /\ [Next]_vars => IInv'
<1> SUFFICES ASSUME IInv, [Next]_vars PROVE IInv'
  OBVIOUS
<1>1. ASSUME NEW r \in Roots, NEW now \in Ts,
             \/ \E isShell \in BOOLEAN : Exec(r, now, isShell)
             \/ SensitiveRead(r, now)
             \/ Connect(r, now)
      PROVE  IInv'
  <2>1. Unasked
    BY <1>1, ObserveMoves
  <2>2. PICK s \in Slots, isRead \in BOOLEAN, isShell \in BOOLEAN :
            Moved(s, r, now, isRead, isShell)
    BY <1>1, ObserveMoves
  <2>3. TypeOK' /\ OneEntryPerRoot'
    BY <2>1, <2>2, MovedEntries
       DEF TypeOK, OneEntryPerRoot, UniqueRoots, Unasked, NothingFound
  <2> QED
    BY <2>2, <2>3, MovedEntries, MovedRemembers DEF IInv
<1>2. ASSUME NEW r \in Roots, NEW now \in Ts, TransferConnect(r, now)
      PROVE  IInv'
  <2>1. PICK s \in Slots :
            /\ Moved(s, r, now, FALSE, FALSE)
            /\ asker' = r
            /\ answer' \in [found : {TRUE}, sensitive : BOOLEAN, shell : BOOLEAN]
    BY <1>2, TransferMoves
  <2>2. answer' \in [found : BOOLEAN, sensitive : BOOLEAN, shell : BOOLEAN] /\ answer'.found
    BY <2>1
  <2>3. TypeOK' /\ OneEntryPerRoot'
    BY <2>1, <2>2, MovedEntries DEF TypeOK, OneEntryPerRoot, UniqueRoots
  <2> QED
    BY <2>1, <2>3, MovedEntries, MovedRemembers DEF IInv
<1>3. CASE UNCHANGED vars
  BY <1>3 DEF IInv, TypeOK, OneEntryPerRoot, EntryIsTrue, ReadRemembered, vars
<1> QED
  BY <1>1, <1>2, <1>3 DEF Next

-------------------------------------------------------------------------------
(* The results. *)

\* Every call of handle_event preserves the invariant.
THEOREM Invariant == Spec => []IInv
BY InitInv, StepInv, PTL DEF Spec

\* The table, its cursor and the recorded history stay in their types.
THEOREM TypeCorrect == Spec => []TypeOK
<1>1. IInv => TypeOK
  BY DEF IInv
<1> QED
  BY <1>1, Invariant, PTL

\* flow_state_get keeps one entry per process tree, and the lookup that follows an
\* event finds the entry of that event.
THEOREM UniqueFlows == Spec => []OneEntryPerRoot
<1>1. IInv => OneEntryPerRoot
  BY DEF IInv
<1> QED
  BY <1>1, Invariant, PTL

\* No entry claims a read, a shell or a time that its process tree did not have,
\* whoever owned the slot before.
THEOREM EntriesTrue == Spec => []EntryIsTrue
<1>1. IInv => EntryIsTrue
  BY DEF IInv
<1> QED
  BY <1>1, Invariant, PTL

\* A sensitive read is remembered for the whole window, short of a full table or of
\* timestamps out of order.
THEOREM ReadsRemembered == Spec => []ReadRemembered
<1>1. IInv => ReadRemembered
  BY DEF IInv
<1> QED
  BY <1>1, Invariant, PTL

\* A connect is correlated only with a past that reaches into the window: the event
\* of its tree handled last lies neither in the future nor further back.
THEOREM SilenceBreaksFlow == Spec => SilenceForgets
<1> DEFINE Forgets == (asker' # NoRoot /\ (answer'.sensitive \/ answer'.shell)) =>
        LET before == lastAt[asker']
            now == lastAt'[asker']
        IN before # None /\ before <= now /\ now - before <= FlowWindow
<1>1. ASSUME IInv, [Next]_vars PROVE Forgets \/ UNCHANGED vars
  <2>1. ASSUME NEW r \in Roots, NEW now \in Ts, TransferConnect(r, now)
        PROVE  Forgets
    <3> SUFFICES ASSUME answer'.sensitive \/ answer'.shell, asker' # NoRoot
                 PROVE  /\ lastAt[asker'] # None /\ lastAt[asker'] <= lastAt'[asker']
                        /\ lastAt'[asker'] - lastAt[asker'] <= FlowWindow
      OBVIOUS
    <3>1. PICK s \in Slots : /\ Moved(s, r, now, FALSE, FALSE)
                             /\ asker' = r
                             /\ Hit(flow, s, r, now)
      BY <1>1, <2>1, TransferMoves
    <3>2. lastAt'[r] = now
      BY <1>1, <3>1 DEF Moved, Event, IInv, TypeOK
    <3>3. flow[s].last \in Ts /\ flow[s].last = lastAt[r]
      BY <1>1, <3>1 DEF Hit, Live, IInv, TypeOK, Entry, EntryIsTrue
    <3>4. ~(now < flow[s].last) /\ ~(now - flow[s].last > FlowWindow)
      BY <3>1 DEF Hit, Live, flow_entry_expired
    <3> QED
      BY <3>1, <3>2, <3>3, <3>4, FlowAssumption DEF Ts, None
  <2>2. ASSUME NEW r \in Roots, NEW now \in Ts,
               \/ \E isShell \in BOOLEAN : Exec(r, now, isShell)
               \/ SensitiveRead(r, now)
               \/ Connect(r, now)
        PROVE  Forgets
    <3>1. asker' = NoRoot
      BY <1>1, <2>2, ObserveMoves DEF Unasked
    <3> QED
      BY <3>1
  <2> QED
    BY <1>1, <2>1, <2>2 DEF Next
<1>2. ASSUME IInv, [Next]_vars PROVE [Forgets]_vars
  BY <1>1, <1>2
<1> QED
  BY <1>2, Invariant, PTL DEF Spec, SilenceForgets
===============================================================================
