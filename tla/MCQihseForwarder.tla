------------------------- MODULE MCQihseForwarder -------------------------
(***************************************************************************)
(* Instances of QihseForwarder.  Resumed runs work on one spool of three   *)
(* lines, on a shorter one with every kind of line, or beside a spool that *)
(* is not there, with unbuffered output; runs from the start on two spools *)
(* that may be rotated, with buffered output.                              *)
(***************************************************************************)
EXTENDS QihseForwarder, TLC

EventsSpool == <<"events.jsonl">>
TwoSpools   == <<"events.jsonl", "other.jsonl">>

(* What the daemon writes ... *)
DaemonLines == {Intact("finding")}

(* ... and what else may stand in a spool the tool is pointed at: a record *)
(* of a type it does not know, a policy summary with a bad context field,  *)
(* which the contract does not look at in that type, and a line on which   *)
(* the validator raises.                                                   *)
SkippedToo == DaemonLines \cup {Intact("other")}
EveryKind == SkippedToo \cup {Raising, [Intact("policy_summary") EXCEPT !.faults = {"context"}]}

Lines(events, others) == "events.jsonl" :> events @@ "other.jsonl" :> others

Resumed ==
    [resume |-> TRUE, strict |-> FALSE, batch |-> 2, unbuffered |-> TRUE, missing |-> {},
     written |-> SkippedToo, lines |-> Lines(3, 0), runs |-> 0, faults |-> 2, rotations |-> 0]
OfEveryKind ==
    [Resumed EXCEPT !.written = EveryKind, !.lines = Lines(2, 0), !.batch = 1]
BesideAMissingOne ==
    [Resumed EXCEPT !.written = DaemonLines, !.lines = Lines(2, 1), !.faults = 1,
                    !.missing = {"other.jsonl"}]
FromTheStart ==
    [resume |-> FALSE, strict |-> FALSE, batch |-> 2, unbuffered |-> FALSE, missing |-> {},
     written |-> DaemonLines, lines |-> Lines(2, 1), runs |-> 2, faults |-> 0, rotations |-> 1]
OnceWithAFault ==
    [FromTheStart EXCEPT !.runs = 1, !.faults = 1]
EveryUse == {Resumed, OfEveryKind, BesideAMissingOne, FromTheStart, OnceWithAFault}

OneKill ==
    [resume |-> TRUE, strict |-> FALSE, batch |-> 2, unbuffered |-> TRUE, missing |-> {},
     written |-> DaemonLines, lines |-> ("events.jsonl" :> 2), runs |-> 0, faults |-> 1, rotations |-> 0]
OneKillOnly == {OneKill}
=============================================================================
