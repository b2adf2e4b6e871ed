------------------------------ MODULE AlertLedger ------------------------------
(***************************************************************************)
(* What the duplicate cache promises to whoever reads the output, without  *)
(* slots, cursor or timestamps.  A finding is either shown at once or      *)
(* swallowed into the open run of its key; a run is opened only by a shown *)
(* finding, and when it is closed its whole count is reported.  A count    *)
(* that reaches its modulus starts again from zero.                        *)
(***************************************************************************)
EXTENDS Integers

CONSTANTS Keys, RepeatModulus

VARIABLES
    open,      \* open[k]: repeats of k may be swallowed
    pending,   \* pending[k]: swallowed and not yet reported
    shown,     \* shown[k]: findings shown one by one
    summed     \* summed[k]: findings reported in summaries

ledger == <<open, pending, shown, summed>>

Init ==
    /\ open = [k \in Keys |-> FALSE]
    /\ pending = [k \in Keys |-> 0]
    /\ shown = [k \in Keys |-> 0]
    /\ summed = [k \in Keys |-> 0]

\* The runs in C are closed: their counts move to the report.
Close(C) ==
    /\ \A k \in C : open[k]
    /\ summed' = [k \in Keys |-> IF k \in C THEN summed[k] + pending[k] ELSE summed[k]]
    /\ pending' = [k \in Keys |-> IF k \in C THEN 0 ELSE pending[k]]

\* A finding is shown, which may open a run for it; at most one run makes way.
Show(k) ==
    \E C \in {{}} \cup {{c} : c \in Keys}, opens \in BOOLEAN :
        /\ Close(C)
        /\ open[k] => k \in C
        /\ opens => k \notin C
        /\ open' = [j \in Keys |-> IF j = k THEN opens ELSE open[j] /\ j \notin C]
        /\ shown' = [shown EXCEPT ![k] = @ + 1]

Swallow(k) ==
    /\ open[k]
    /\ pending' = [pending EXCEPT ![k] = IF @ + 1 = RepeatModulus THEN 0 ELSE @ + 1]
    /\ UNCHANGED <<open, shown, summed>>

Report(k) ==
    /\ Close({k})
    /\ open' = [open EXCEPT ![k] = FALSE]
    /\ UNCHANGED shown

Next == \E k \in Keys : Show(k) \/ Swallow(k) \/ Report(k)

Spec == Init /\ [][Next]_ledger
===============================================================================
