---------------------------- MODULE FlowTableProofs ---------------------------
(***************************************************************************)
(* What the functions of the flow table return and leave behind, for every *)
(* table, root and time.                                                   *)
(***************************************************************************)
EXTENDS FlowTable, TLAPS

-------------------------------------------------------------------------------
(* What flow_state_get and its callers leave in the table, slot by slot.      *)

\* No two active entries of table t belong to one process tree.
UniqueRoots(t) ==
    \A p, q \in Slots : (t[p].active /\ t[q].active /\ t[p].root = t[q].root) => p = q

\* Table u is table t after slot s was handed out to root r at time now: s holds the
\* root's entry, which has kept its flags only if it was live; every other slot is as
\* before or was cleared because its entry had expired; and s is a slot whose entry
\* may go.
HandedOut(t, c, u, s, r, now, isRead, isShell) ==
    /\ u \in [Slots -> Entry]
    /\ u[s].active /\ u[s].root = r /\ u[s].last = now
    /\ u[s].sensitive <=> isRead \/ (Hit(t, s, r, now) /\ t[s].sensitive)
    /\ u[s].shell <=> isShell \/ (Hit(t, s, r, now) /\ t[s].shell)
    /\ \A q \in Slots \ {s} :
          u[q] = t[q] \/ (u[q] = Cleared /\ flow_entry_expired(t[q], now))
    /\ \A q \in Slots \ {s} : u[q].active => u[q].root # r
    /\ \/ Hit(t, s, r, now)
       \/ ~Live(t, s, now)
       \/ ~Known(t, r, now) /\ Full(t, now) /\ s = c

\* An entry that is cleared has the type of an entry and is not active.
LEMMA ClearedIsEntry == Cleared \in Entry /\ Cleared.active = FALSE
BY FlowAssumption DEF Cleared, Entry, Ts

\* A scan only clears expired entries.
LEMMA SweepClears ==
    ASSUME NEW t \in [Slots -> Entry], NEW now \in Ts, NEW upto \in Slots
    PROVE  /\ Swept(t, upto, now) \in [Slots -> Entry]
           /\ \A q \in Slots :
                \/ Swept(t, upto, now)[q] = t[q]
                \/ Swept(t, upto, now)[q] = Cleared /\ flow_entry_expired(t[q], now)
           /\ \A q \in Slots : q <= upto =>
                (Swept(t, upto, now)[q].active => Live(t, q, now))
           /\ \A q \in Slots : Live(t, q, now) => Swept(t, upto, now)[q] = t[q]
<1>1. \A q \in Slots : Swept(t, upto, now)[q] =
         IF q <= upto /\ flow_entry_expired(t[q], now) THEN Cleared ELSE t[q]
  BY DEF Swept
<1>2. \A q \in Slots : Swept(t, upto, now)[q] \in Entry
  BY <1>1, ClearedIsEntry
<1>3. Swept(t, upto, now) \in [Slots -> Entry]
  BY <1>2 DEF Swept
<1> QED
  BY <1>1, <1>3, ClearedIsEntry DEF Live, flow_entry_expired

\* flow_state_get and the marking by its caller.
LEMMA ObserveLeaves ==
    ASSUME NEW t \in [Slots -> Entry], UniqueRoots(t), NEW c \in Slots, NEW s \in Slots,
           NEW r \in Roots, NEW now \in Ts, NEW isRead \in BOOLEAN, NEW isShell \in BOOLEAN,
           Picks(t, c, s, r, now)
    PROVE  HandedOut(t, c, AfterObserve(t, s, r, now, isRead, isShell), s, r, now,
                    isRead, isShell)
<1> DEFINE u == AfterObserve(t, s, r, now, isRead, isShell)
<1>1. CASE Known(t, r, now)
  <2>1. Hit(t, s, r, now)
    BY <1>1 DEF Picks, FirstMatch
  <2>2. Live(t, s, now) /\ t[s].active /\ t[s].root = r /\ t[s] \in Entry
    BY <2>1 DEF Hit, Live
  <2>3. Swept(t, s, now)[s] = t[s]
    BY <2>2, SweepClears
  <2>4. u = [Swept(t, s, now) EXCEPT ![s] = Marked(t[s], now, isRead, isShell)]
    BY <1>1, <2>3 DEF AfterObserve
  <2>5. /\ Marked(t[s], now, isRead, isShell) \in Entry
        /\ Marked(t[s], now, isRead, isShell).active = t[s].active
        /\ Marked(t[s], now, isRead, isShell).root = t[s].root
        /\ Marked(t[s], now, isRead, isShell).last = now
        /\ Marked(t[s], now, isRead, isShell).sensitive <=> (t[s].sensitive \/ isRead)
        /\ Marked(t[s], now, isRead, isShell).shell <=> (t[s].shell \/ isShell)
    BY <2>2 DEF Marked, Touched, Entry
  <2>6. /\ u \in [Slots -> Entry] /\ u[s] = Marked(t[s], now, isRead, isShell)
        /\ \A q \in Slots \ {s} : u[q] = Swept(t, s, now)[q]
    BY <2>4, <2>5, SweepClears
  <2>7. \A q \in Slots \ {s} :
            u[q] = t[q] \/ (u[q] = Cleared /\ flow_entry_expired(t[q], now))
    BY <2>6, SweepClears
  <2>8. \A q \in Slots \ {s} : u[q].active => u[q].root # r
    BY <2>2, <2>7, ClearedIsEntry DEF UniqueRoots
  <2> HIDE DEF u
  <2> QED
    BY <2>1, <2>2, <2>5, <2>6, <2>7, <2>8 DEF HandedOut, u
<1>2. CASE ~Known(t, r, now)
  <2>1. LastSlot \in Slots /\ \A q \in Slots : q <= LastSlot
    BY FlowAssumption DEF Slots, LastSlot
  <2>2. ~Hit(t, s, r, now)
    BY <1>2 DEF Known
  <2>3. ~Live(t, s, now) \/ (Full(t, now) /\ s = c)
    BY <1>2, <2>2 DEF Picks, FirstMatch, FirstFree
  <2> DEFINE e == Marked(Opened(Swept(t, LastSlot, now)[s], r, now), now, isRead, isShell)
  <2>4. u = [Swept(t, LastSlot, now) EXCEPT ![s] = e]
    BY <1>2 DEF AfterObserve
  <2>5. /\ e \in Entry /\ e.active = TRUE /\ e.root = r /\ e.last = now
        /\ e.sensitive <=> isRead
        /\ e.shell <=> isShell
    BY DEF Marked, Opened, Touched, Cleared, Entry
  <2> HIDE DEF e
  <2>6. /\ u \in [Slots -> Entry] /\ u[s] = e
        /\ \A q \in Slots \ {s} : u[q] = Swept(t, LastSlot, now)[q]
    BY <2>1, <2>4, <2>5, SweepClears
  <2>7. \A q \in Slots \ {s} :
            u[q] = t[q] \/ (u[q] = Cleared /\ flow_entry_expired(t[q], now))
    BY <2>1, <2>6, SweepClears
  <2>8. \A q \in Slots \ {s} : u[q].active => u[q].root # r
    <3> SUFFICES ASSUME NEW q \in Slots \ {s}, u[q].active, u[q].root = r PROVE FALSE
      OBVIOUS
    <3>1. Live(t, q, now)
      BY <2>1, <2>6, SweepClears
    <3>2. u[q] = t[q]
      BY <2>7, ClearedIsEntry
    <3> QED
      BY <1>2, <3>1, <3>2 DEF Known, Hit
  <2> HIDE DEF u
  <2> QED
    BY <1>2, <2>2, <2>3, <2>5, <2>6, <2>7, <2>8 DEF HandedOut, u
<1> QED
  BY <1>1, <1>2

\* flow_state_lookup right after the table was updated for the same root and time: it
\* stops at the entry just handed out, answers with its flags, and clears no more than
\* expired entries on its way.
LEMMA LookupFinds ==
    ASSUME NEW t \in [Slots -> Entry], NEW c \in Slots, NEW u \in [Slots -> Entry],
           NEW s \in Slots, NEW r \in Roots, NEW now \in Ts, NEW isRead, NEW isShell,
           HandedOut(t, c, u, s, r, now, isRead, isShell)
    PROVE  /\ HandedOut(t, c, AfterLookup(u, r, now), s, r, now, isRead, isShell)
           /\ LookupAnswer(u, r, now) \in [found : {TRUE}, sensitive : BOOLEAN, shell : BOOLEAN]
           /\ LookupAnswer(u, r, now).sensitive <=> u[s].sensitive
           /\ LookupAnswer(u, r, now).shell <=> u[s].shell
<1>1. /\ u \in [Slots -> Entry]
      /\ u[s].active /\ u[s].root = r /\ u[s].last = now
      /\ \A q \in Slots \ {s} :
            u[q] = t[q] \/ (u[q] = Cleared /\ flow_entry_expired(t[q], now))
      /\ \A q \in Slots \ {s} : u[q].active => u[q].root # r
  BY DEF HandedOut
<1>2. Hit(u, s, r, now)
  BY <1>1, FlowAssumption DEF Hit, Live, flow_entry_expired, Ts
<1>3. \A q \in Slots \ {s} : ~Hit(u, q, r, now)
  BY <1>1 DEF Hit, Live
<1>4. Known(u, r, now) /\ TheMatch(u, r, now) = s
  <2>1. \A q \in Slots : q < s => q # s
    BY DEF Slots
  <2>2. FirstMatch(u, s, r, now)
    BY <1>2, <1>3, <2>1 DEF FirstMatch
  <2>3. \A q \in Slots : FirstMatch(u, q, r, now) => q = s
    BY <1>3 DEF FirstMatch
  <2> QED
    BY <1>2, <2>2, <2>3 DEF Known, TheMatch
<1>5. /\ LookupAnswer(u, r, now) \in [found : {TRUE}, sensitive : BOOLEAN, shell : BOOLEAN]
      /\ LookupAnswer(u, r, now).sensitive <=> u[s].sensitive
      /\ LookupAnswer(u, r, now).shell <=> u[s].shell
  <2>1. LookupAnswer(u, r, now) =
           [found |-> TRUE, sensitive |-> u[s].sensitive, shell |-> u[s].shell]
    BY <1>4 DEF LookupAnswer
  <2>2. u[s] \in Entry
    BY <1>1
  <2> QED
    BY <2>1, <2>2 DEF Entry
<1> DEFINE v == Swept(u, s, now)
<1>6. AfterLookup(u, r, now) = v
  BY <1>4 DEF AfterLookup
<1>7. /\ v \in [Slots -> Entry] /\ v[s] = u[s]
      /\ \A q \in Slots : v[q] = u[q] \/ (v[q] = Cleared /\ flow_entry_expired(u[q], now))
  BY <1>1, <1>2, SweepClears DEF Hit
<1>8. \A q \in Slots \ {s} :
         v[q] = t[q] \/ (v[q] = Cleared /\ flow_entry_expired(t[q], now))
  BY <1>1, <1>7
<1>9. \A q \in Slots \ {s} : v[q].active => v[q].root # r
  BY <1>1, <1>7, ClearedIsEntry
<1> HIDE DEF v
<1>10. HandedOut(t, c, v, s, r, now, isRead, isShell)
  BY <1>7, <1>8, <1>9 DEF HandedOut
<1> QED
  BY <1>5, <1>6, <1>10

===============================================================================
