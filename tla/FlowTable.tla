------------------------------ MODULE FlowTable -------------------------------
(***************************************************************************)
(* The bounded table of per-process-tree state that behavioral flows are   *)
(* correlated with (dev/host/asic_main.c), as operators on a table t: what *)
(* flow_state_get, the two flow_state_observe functions and                *)
(* flow_state_lookup return and leave behind.  Their loops scan the slots  *)
(* in order, clear each expired entry they meet, and stop at a match.      *)
(***************************************************************************)
EXTENDS Integers

CONSTANTS
    Roots,               \* flow root pids
    NoRoot,              \* what memset leaves in a cleared entry
    FLOW_STATE_ENTRIES,  \* size of the table
    FlowWindow,          \* FLOW_WINDOW_SECONDS, in timestamp units
    MaxTs                \* bound: latest timestamp

ASSUME FlowAssumption ==
    /\ NoRoot \notin Roots
    /\ FLOW_STATE_ENTRIES \in Nat \ {0}
    /\ FlowWindow \in Nat /\ MaxTs \in Nat

Slots == 0 .. FLOW_STATE_ENTRIES - 1
LastSlot == FLOW_STATE_ENTRIES - 1
Ts == 0 .. MaxTs

\* struct flow_state_entry.  The code also notes transfer execs, public connects
\* and the pids behind each flag, but nothing ever reads them back.
Entry == [active : BOOLEAN, root : Roots \cup {NoRoot}, last : Ts,
          sensitive : BOOLEAN, shell : BOOLEAN]

Cleared == [active |-> FALSE, root |-> NoRoot, last |-> 0,
            sensitive |-> FALSE, shell |-> FALSE]

EmptyTable == [s \in Slots |-> Cleared]

NothingFound == [found |-> FALSE, sensitive |-> FALSE, shell |-> FALSE]

\* Slips that the properties below are there to catch.
flow_entry_expired_NeverAges(e, now) == e.active /\ now < e.last
flow_entry_expired_Early(e, now) == e.active /\ (now < e.last \/ now - e.last >= FlowWindow)
Opened_KeepsMarks(e, r, now) == [e EXCEPT !.active = TRUE, !.root = r, !.last = now]
Known_SkipsFirst(t, r, now) == \E s \in Slots \ {0} : t[s].active /\ t[s].root = r
Hit_AnyRoot(t, s, r, now) == t[s].active
NextCursor_NoWrap(c) == c + 1

flow_entry_expired(e, now) ==
    e.active /\ (now < e.last \/ now - e.last > FlowWindow)

\* The scans clear each expired entry of table t before they look at it.
Live(t, s, now) == t[s].active /\ ~flow_entry_expired(t[s], now)

Hit(t, s, r, now) == Live(t, s, now) /\ t[s].root = r
Known(t, r, now) == \E s \in Slots : Hit(t, s, r, now)
FirstMatch(t, s, r, now) ==
    Hit(t, s, r, now) /\ \A q \in Slots : q < s => ~Hit(t, q, r, now)

Full(t, now) == \A s \in Slots : Live(t, s, now)
FirstFree(t, s, now) == ~Live(t, s, now) /\ \A q \in Slots : q < s => Live(t, q, now)

\* Table t after a scan that stopped at slot upto: what lies behind is untouched.
Swept(t, upto, now) ==
    [s \in Slots |-> IF s <= upto /\ flow_entry_expired(t[s], now) THEN Cleared ELSE t[s]]

\* memset and the assignments that open an entry
Opened(e, r, now) == [Cleared EXCEPT !.active = TRUE, !.root = r, !.last = now]

\* What the observe functions do to the entry flow_state_get hands them.
Touched(e, now) == [e EXCEPT !.last = now]
Marked(e, now, isRead, isShell) ==
    [Touched(e, now) EXCEPT !.sensitive = @ \/ isRead, !.shell = @ \/ isShell]

NextCursor(c) == IF c + 1 = FLOW_STATE_ENTRIES THEN 0 ELSE c + 1

\* flow_state_get on table t with cursor c returns slot s: the root's entry, else
\* the first free slot, else the slot under the cursor.
Picks(t, c, s, r, now) ==
    \/ FirstMatch(t, s, r, now)
    \/ ~Known(t, r, now) /\ ~Full(t, now) /\ FirstFree(t, s, now)
    \/ ~Known(t, r, now) /\ Full(t, now) /\ s = c

\* The table once flow_state_get returned slot s and its caller marked the entry.
AfterObserve(t, s, r, now, isRead, isShell) ==
    IF Known(t, r, now)
    THEN [Swept(t, s, now) EXCEPT ![s] = Marked(@, now, isRead, isShell)]
    ELSE [Swept(t, LastSlot, now) EXCEPT ![s] =
                Marked(Opened(@, r, now), now, isRead, isShell)]

CursorAfter(t, c, r, now) == IF ~Known(t, r, now) /\ Full(t, now) THEN NextCursor(c) ELSE c

\* flow_state_lookup: the scan ends at the match, or at the last slot with nothing found.
TheMatch(t, r, now) == CHOOSE s \in Slots : FirstMatch(t, s, r, now)

AfterLookup(t, r, now) ==
    Swept(t, IF Known(t, r, now) THEN TheMatch(t, r, now) ELSE LastSlot, now)

LookupAnswer(t, r, now) ==
    IF Known(t, r, now)
    THEN [found |-> TRUE, sensitive |-> t[TheMatch(t, r, now)].sensitive,
          shell |-> t[TheMatch(t, r, now)].shell]
    ELSE NothingFound
===============================================================================
