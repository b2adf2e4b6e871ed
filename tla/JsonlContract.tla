--------------------------- MODULE JsonlContract ---------------------------
(***************************************************************************)
(* What tools/asic_jsonl_replay.py decides about one line of a spool.      *)
(*                                                                         *)
(* A line is abstracted to its form (how far it parses), the type its      *)
(* "record" field names, and the set of faults its fields have.  The two   *)
(* record types the daemon writes carry different field tables, so the     *)
(* same fault may refuse one record and be ignored in another.             *)
(***************************************************************************)
\* A "raising" line ends the process with an exception nobody catches: its record field
\* is a list or an object, it nests too deeply, or it holds a number of too many digits.
Forms == {"undecodable", "blank", "torn", "garbled", "scalar", "raising", "object"}

RecordTypes == {"policy_summary", "finding"}

Faults == {"common", "schema_version", "config_hash", "field", "context"}

LineTypes == [form : Forms, type : RecordTypes \cup {"other"}, faults : SUBSET Faults]

Intact(type) == [form |-> "object", type |-> type, faults |-> {}]
Torn         == [form |-> "torn", type |-> "other", faults |-> {}]
Garbled      == [form |-> "garbled", type |-> "other", faults |-> {}]
Raising      == [form |-> "raising", type |-> "other", faults |-> {}]

(* validate_common applies to both record types, and so does a field table *)
(* of their own; the optional context is looked at only in a finding.      *)
Checked(type) == IF type = "finding" THEN Faults ELSE Faults \ {"context"}

RejectedWith(strict, line) ==
    \/ line.form \in {"undecodable", "torn", "garbled", "scalar"}
    \/ line.form = "object" /\ line.type \notin RecordTypes /\ strict
    \/ /\ line.form = "object"
       /\ line.type \in RecordTypes
       /\ line.faults \cap Checked(line.type) # {}

\* A line no run gets past, whether it is refused with an error or raises.
Refused(strict, line) == RejectedWith(strict, line) \/ line.form = "raising"

Accepted(line) ==
    /\ line.form = "object"
    /\ line.type \in RecordTypes
    /\ line.faults \cap Checked(line.type) = {}

=============================================================================
