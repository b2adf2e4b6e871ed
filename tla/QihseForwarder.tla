-------------------------- MODULE QihseForwarder --------------------------
(***************************************************************************)
(* tools/asic_qihse_forwarder.py and the JSONL spools it reads while the   *)
(* daemon appends to them.                                                 *)
(*                                                                         *)
(* A run of the forwarder loads the checkpoint, reads and validates every  *)
(* spool, and only then either writes a quarantine report and gives up or  *)
(* emits the accepted records in batches and rewrites the checkpoint in    *)
(* place.  It may be killed between any two of these steps.  Its output    *)
(* goes through Python's stdout, whose buffer is written out when the      *)
(* process exits unless stdout is a terminal or PYTHONUNBUFFERED is set.   *)
(***************************************************************************)
EXTENDS Integers, Sequences, JsonlContract

CONSTANTS
    Paths,        \* the spools named on the command line, in order
    Settings,     \* the ways the tool may be used, and what happens around it
    MaxLines,     \* bound: lines of one spool
    MaxFaults,    \* bound: kills of writer and forwarder, failed reads and writes
    MaxRotations  \* bound: copytruncate rotations of a spool

Spools  == {Paths[i] : i \in DOMAIN Paths}

(* A setting has the options --resume, --strict and --batch-size, whether  *)
(* stdout reaches its reader at every print, the spools named that are not *)
(* there or may not be read, the lines the writer of a spool may produce,  *)
(* and bounds of its own: lines of each spool, runs without --resume,      *)
(* faults, rotations.                                                      *)
ASSUME ForwarderAssumption ==
    /\ Paths \in Seq(STRING) /\ Paths # <<>>
    /\ \A i, j \in DOMAIN Paths : Paths[i] = Paths[j] => i = j
    /\ Settings \subseteq [resume : BOOLEAN, strict : BOOLEAN, batch : Nat \ {0},
                           unbuffered : BOOLEAN, missing : SUBSET Spools,
                           written : SUBSET LineTypes,
                           lines : [Spools -> 0 .. MaxLines], runs : Nat,
                           faults : 0 .. MaxFaults, rotations : 0 .. MaxRotations]
    /\ MaxLines \in Nat /\ MaxFaults \in Nat /\ MaxRotations \in Nat

VARIABLES
    setting,    \* how the tool is used in this behaviour
    spool,      \* the lines of each spool
    writing,    \* per spool, what the writer still has to finish on its last line
    rotation,   \* rotations of each spool so far
    checkpoint, \* the checkpoint file: absent, unreadable, or lines per spool
    pc,         \* where the forwarder is
    at,         \* the spool it reads next
    accepted,   \* accepted_records
    errors,     \* collected_errors
    counted,    \* checkpoint_entries: the lines counted in each spool
    sent,       \* accepted records already printed
    buffered,   \* printed records still in the buffer of stdout
    emitted,    \* per spool and line, how often its record left the process
    report,     \* the quarantine report on disk
    runs, faults

vars == <<setting, spool, writing, rotation, checkpoint, pc, at, accepted, errors,
          counted, sent, buffered, emitted, report, runs, faults>>

daemonVars == <<setting, spool, writing, rotation>>
runVars    == <<at, accepted, errors, counted, sent, buffered>>

Nothing == [form |-> "nothing", type |-> "other", faults |-> {}]
Idle    == "idle"

Resume == setting.resume
Strict == setting.strict
Batch  == setting.batch

(* A record is identified by the spool, the rotation it was written in and *)
(* the line it stands on.                                                  *)
RecordIds == [path : Spools, rotation : 0..MaxRotations, line : 1..MaxLines]

(* An error names its line the same way, and one of a whole file no line.  *)
ErrorIds == [path : Spools, rotation : 0..MaxRotations, line : 0..MaxLines]

-----------------------------------------------------------------------------
(* The forwarder's helpers. *)

\* Slips that the properties below are there to catch.
StartLine_SkipsOne(p) ==
    IF Resume /\ checkpoint.state = "written" THEN checkpoint.lines[p] + 1 ELSE 0
StartLine_Ignored(p) == 0
AfterReading_Lenient(found) == "emitting"
LinesCounted_Twice(p, n) ==
    n + IF checkpoint.state = "written" THEN checkpoint.lines[p] ELSE 0

(* checkpoint_line_count, and the choice of the first line in              *)
(* validate_inputs.                                                        *)
StartLine(p) == IF Resume /\ checkpoint.state = "written" THEN checkpoint.lines[p] ELSE 0

(* The lines a run looks at in the first n lines of spool p.               *)
Unread(p, n) == StartLine(p) + 1 .. n

RecordId(p, line) == [path |-> p, rotation |-> rotation[p], line |-> line]

(* A set of lines in the order of the file. *)
InOrder(lines) ==
    CHOOSE s \in UNION {[1 .. n -> lines] : n \in 0 .. MaxLines} :
        /\ lines = {s[k] : k \in DOMAIN s}
        /\ \A j, k \in DOMAIN s : j < k => s[j] < s[k]

AcceptedIn(p, n) ==
    LET lines == InOrder({i \in Unread(p, n) : Accepted(spool[p][i])})
    IN [k \in DOMAIN lines |-> RecordId(p, lines[k])]

ErrorsIn(p, n) == {RecordId(p, i) : i \in {k \in Unread(p, n) : RejectedWith(Strict, spool[p][k])}}

(* file_error: the spool cannot be opened, or not be read to its end.      *)
FileError(p) == RecordId(p, 0)

(* validate_line raises on one of those lines.                             *)
RaisesIn(p, n) == \E i \in Unread(p, n) : spool[p][i].form = "raising"

(* The line_count validate_file returns counts the skipped lines too.      *)
LinesCounted(p, n) == n

(* emit_batches: the end of the slice that starts after the first `from`. *)
BatchEnd(from) == IF from + Batch < Len(accepted) THEN from + Batch ELSE Len(accepted)

(* What a finished run does next: any rejected line refuses all of it. *)
AfterReading(found) == IF found # {} THEN "quarantining" ELSE "emitting"

(* The records `ids` leave the process.  Records of a spool that has since *)
(* been rotated are no longer counted.                                     *)
Delivered(ids) ==
    [p \in Spools |->
        [i \in DOMAIN emitted[p] |->
            IF \E k \in DOMAIN ids : ids[k] = RecordId(p, i)
            THEN emitted[p][i] + 1 ELSE emitted[p][i]]]

-----------------------------------------------------------------------------
Init ==
    /\ setting \in Settings
    /\ spool = [p \in Spools |-> <<>>]
    /\ writing = [p \in Spools |-> Nothing]
    /\ rotation = [p \in Spools |-> 0]
    /\ checkpoint = [state |-> "absent", lines |-> [p \in Spools |-> 0]]
    /\ pc = Idle /\ at = 1
    /\ accepted = <<>> /\ errors = {} /\ sent = 0 /\ buffered = <<>>
    /\ counted = [p \in Spools |-> 0]
    /\ emitted = [p \in Spools |-> <<>>]
    /\ report = {} /\ runs = 0 /\ faults = 0

(* The last line of p has no end of line yet. *)
Unfinished(p) == /\ spool[p] # <<>>
           /\ spool[p][Len(spool[p])].form = "torn"

LastLineIs(p, line) == [spool EXCEPT ![p][Len(spool[p])] = line]

(* write_jsonl: one record reaches the file whole.  If a killed writer     *)
(* left half a line behind, the record is glued to it.                     *)
WriteRecord(p, line) ==
    /\ writing[p] = Nothing
    /\ \/ /\ Unfinished(p)
          /\ spool' = LastLineIs(p, Garbled)
          /\ emitted' = emitted
       \/ /\ ~Unfinished(p) /\ Len(spool[p]) < setting.lines[p]
          /\ spool' = [spool EXCEPT ![p] = Append(@, line)]
          /\ emitted' = [emitted EXCEPT ![p] = Append(@, 0)]
    /\ UNCHANGED <<setting, writing, rotation, checkpoint, pc, runVars, report, runs, faults>>

(* A record longer than the stdio buffer reaches the file in two writes.   *)
BeginRecord(p, line) ==
    /\ writing[p] = Nothing /\ ~Unfinished(p) /\ Len(spool[p]) < setting.lines[p]
    /\ writing' = [writing EXCEPT ![p] = line]
    /\ spool' = [spool EXCEPT ![p] = Append(@, Torn)]
    /\ emitted' = [emitted EXCEPT ![p] = Append(@, 0)]
    /\ UNCHANGED <<setting, rotation, checkpoint, pc, runVars, report, runs, faults>>

FinishRecord(p) ==
    /\ writing[p] # Nothing
    /\ spool' = IF Unfinished(p) THEN LastLineIs(p, writing[p])
                ELSE [spool EXCEPT ![p] = Append(@, Garbled)]
    /\ emitted' = IF Unfinished(p) THEN emitted ELSE [emitted EXCEPT ![p] = Append(@, 0)]
    /\ writing' = [writing EXCEPT ![p] = Nothing]
    /\ UNCHANGED <<setting, rotation, checkpoint, pc, runVars, report, runs, faults>>

(* The daemon is killed in the middle of a record; systemd restarts it.    *)
WriterKilled(p) ==
    /\ writing[p] # Nothing /\ faults < setting.faults
    /\ writing' = [writing EXCEPT ![p] = Nothing]
    /\ faults' = faults + 1
    /\ UNCHANGED <<setting, spool, rotation, checkpoint, pc, runVars, emitted, report, runs>>

(* logrotate's copytruncate empties the spool under its path.  The second  *)
(* half of a record being written then starts the new file.                *)
Rotate(p) ==
    /\ rotation[p] < setting.rotations /\ spool[p] # <<>>
    /\ spool' = [spool EXCEPT ![p] = <<>>]
    /\ emitted' = [emitted EXCEPT ![p] = <<>>]
    /\ rotation' = [rotation EXCEPT ![p] = @ + 1]
    /\ UNCHANGED <<setting, writing, checkpoint, pc, runVars, report, runs, faults>>

-----------------------------------------------------------------------------
(* The process is gone, and with it everything it had in memory.           *)
RunEnds ==
    /\ pc' = Idle /\ at' = 1
    /\ accepted' = <<>> /\ errors' = {} /\ sent' = 0 /\ buffered' = <<>>
    /\ counted' = [p \in Spools |-> 0]

(* main and load_checkpoint: a checkpoint that is there but cannot be      *)
(* parsed ends the run before it reads a spool.                            *)
Start ==
    /\ pc = Idle
    /\ checkpoint.state # "unreadable"
    /\ Resume \/ runs < setting.runs
    /\ runs' = IF Resume THEN runs ELSE runs + 1
    /\ pc' = "reading"
    /\ counted' = checkpoint.lines
    /\ UNCHANGED <<daemonVars, checkpoint, at, accepted, errors, sent, buffered, emitted, report, faults>>

(* validate_file has looked at the first n lines of spool p; fileErrors    *)
(* says whether it could not go on.                                        *)
ReadLines(p, n, fileErrors) ==
    /\ pc = "reading" /\ p = Paths[at] /\ ~RaisesIn(p, n)
    /\ accepted' = accepted \o AcceptedIn(p, n)
    /\ errors' = errors \cup ErrorsIn(p, n) \cup fileErrors
    /\ counted' = [counted EXCEPT ![p] = LinesCounted(p, n)]
    /\ at' = at + 1
    /\ pc' = IF at < Len(Paths) THEN "reading" ELSE AfterReading(errors')
    /\ UNCHANGED <<daemonVars, checkpoint, sent, buffered, emitted, report, runs>>

(* One pass to the end the file has now.                                   *)
ReadSpool(p) ==
    /\ p \notin setting.missing
    /\ ReadLines(p, Len(spool[p]), {}) /\ faults' = faults

(* An OSError, on opening the file or on reading it, ends the pass; the    *)
(* run goes on with the next spool.                                        *)
SpoolMissing(p) ==
    /\ p \in setting.missing
    /\ ReadLines(p, 0, {FileError(p)}) /\ faults' = faults

ReadFails(p) ==
    /\ p \notin setting.missing /\ faults < setting.faults /\ faults' = faults + 1
    /\ \E n \in 0 .. Len(spool[p]) : ReadLines(p, n, {FileError(p)})

(* An exception that is no OSError ends the run without a report.          *)
LineRaises(p) ==
    /\ pc = "reading" /\ p = Paths[at] /\ p \notin setting.missing
    /\ RaisesIn(p, Len(spool[p]))
    /\ RunEnds
    /\ UNCHANGED <<daemonVars, checkpoint, emitted, report, runs, faults>>

Reading == \E p \in Spools : ReadSpool(p) \/ SpoolMissing(p) \/ ReadFails(p) \/ LineRaises(p)

(* write_quarantine_report, which may fail; the run ends either way and    *)
(* the checkpoint stays where it was.                                      *)
Quarantine ==
    /\ pc = "quarantining"
    /\ \/ report' = errors /\ faults' = faults
       \/ faults < setting.faults /\ faults' = faults + 1 /\ UNCHANGED report
    /\ RunEnds
    /\ UNCHANGED <<daemonVars, checkpoint, emitted, runs>>

EmitBatch ==
    LET ids == SubSeq(accepted, sent + 1, BatchEnd(sent)) IN
    /\ pc = "emitting" /\ sent < Len(accepted)
    /\ sent' = BatchEnd(sent)
    /\ IF setting.unbuffered
       THEN emitted' = Delivered(ids) /\ UNCHANGED buffered
       ELSE buffered' = buffered \o ids /\ UNCHANGED emitted
    /\ UNCHANGED <<daemonVars, checkpoint, pc, at, accepted, errors, counted, report, runs, faults>>

(* write_checkpoint opens the file for writing, which empties it ...       *)
TruncateCheckpoint ==
    /\ pc = "emitting" /\ sent = Len(accepted)
    /\ pc' = "dumping"
    /\ checkpoint' = [checkpoint EXCEPT !.state = "unreadable"]
    /\ UNCHANGED <<daemonVars, runVars, emitted, report, runs, faults>>

(* ... and then writes the new content. *)
DumpCheckpoint ==
    /\ pc = "dumping"
    /\ pc' = "exiting"
    /\ checkpoint' = [state |-> "written", lines |-> counted]
    /\ UNCHANGED <<daemonVars, runVars, emitted, report, runs, faults>>

(* Either half may fail with an OSError; main then returns 1.              *)
CheckpointFails ==
    /\ pc = "dumping" \/ (pc = "emitting" /\ sent = Len(accepted))
    /\ faults < setting.faults /\ faults' = faults + 1
    /\ pc' = "exiting"
    /\ UNCHANGED <<daemonVars, checkpoint, runVars, emitted, report, runs>>

(* The interpreter writes out the buffer of stdout as the process ends.    *)
Exit ==
    /\ pc = "exiting"
    /\ RunEnds
    /\ emitted' = Delivered(buffered)
    /\ UNCHANGED <<daemonVars, checkpoint, report, runs, faults>>

ForwarderKilled ==
    /\ pc # Idle /\ faults < setting.faults
    /\ faults' = faults + 1
    /\ RunEnds
    /\ UNCHANGED <<daemonVars, checkpoint, emitted, report, runs>>

-----------------------------------------------------------------------------
Writer(p) == \/ \E line \in setting.written : WriteRecord(p, line) \/ BeginRecord(p, line)
             \/ FinishRecord(p)
             \/ WriterKilled(p)
             \/ Rotate(p)

Forwarder == \/ Start \/ Reading \/ Quarantine \/ EmitBatch
             \/ TruncateCheckpoint \/ DumpCheckpoint \/ CheckpointFails
             \/ Exit \/ ForwarderKilled

Next == Forwarder \/ \E p \in Spools : Writer(p)

Spec == Init /\ [][Next]_vars

(* A running process keeps running, a record half written is finished, and *)
(* the tool is run again for as long as it can be.                         *)
FairSpec ==
    /\ Spec
    /\ \A p \in Spools : WF_vars(FinishRecord(p))
    /\ WF_vars(Start) /\ WF_vars(Reading) /\ WF_vars(Quarantine)
    /\ WF_vars(EmitBatch) /\ WF_vars(TruncateCheckpoint)
    /\ WF_vars(DumpCheckpoint) /\ WF_vars(Exit)

-----------------------------------------------------------------------------
(* Properties. *)

(* Every variable has the shape its code gives it: in particular no        *)
(* checkpoint counts more lines than a spool can have.                     *)
TypeOK ==
    /\ spool \in [Spools -> Seq(LineTypes)]
    /\ writing \in [Spools -> LineTypes \cup {Nothing}]
    /\ rotation \in [Spools -> 0..MaxRotations]
    /\ checkpoint \in [state : {"absent", "unreadable", "written"}, lines : [Spools -> 0..MaxLines]]
    /\ pc \in {Idle, "reading", "quarantining", "emitting", "dumping", "exiting"}
    /\ at \in 1..Len(Paths) + 1
    /\ accepted \in Seq(RecordIds) /\ buffered \in Seq(RecordIds)
    /\ errors \subseteq ErrorIds /\ report \subseteq ErrorIds
    /\ counted \in [Spools -> 0..MaxLines]
    /\ sent \in 0..Len(accepted)
    /\ emitted \in [Spools -> Seq(Nat)]
    /\ \A p \in Spools : Len(emitted[p]) = Len(spool[p])
    /\ setting \in Settings /\ runs \in 0..setting.runs /\ faults \in 0..setting.faults

Left(p, i) == emitted[p][i] > 0

(* "The checkpoint represents the highest contiguous spool position that   *)
(* no longer needs live submission": between two runs, below the lines it   *)
(* records, every record the contract accepts has left the process and no  *)
(* line is one the contract refuses.  With a buffered output or a rotation *)
(* the code does not keep this.                                            *)
CheckpointCovers ==
    (pc = Idle /\ checkpoint.state = "written" /\ setting.unbuffered /\ setting.rotations = 0) =>
        \A p \in Spools : \A i \in DOMAIN spool[p] :
            i <= checkpoint.lines[p] =>
                /\ Accepted(spool[p][i]) => Left(p, i)
                /\ ~Refused(Strict, spool[p][i])

(* Records leave a spool in its order and without a gap: when a line has   *)
(* left, every accepted line before it has left as well, and no line       *)
(* before it is one that refuses the whole run, whatever was killed when;  *)
(* and nothing leaves while a spool named beside it cannot be read.        *)
(* A run with --resume trusts the checkpoint, so that it keeps this only   *)
(* where the checkpoint covers what it says.                               *)
LeavesInOrder ==
    (Resume => setting.unbuffered /\ setting.rotations = 0) =>
        \A p \in Spools : \A j \in DOMAIN spool[p] :
            Left(p, j) =>
                /\ setting.missing = {}
                /\ \A i \in 1..j - 1 :
                      /\ Accepted(spool[p][i]) => Left(p, i)
                      /\ ~Refused(Strict, spool[p][i])

(* With --resume a record leaves a second time only if a process was       *)
(* killed or a read or write failed                                        *)
RetriesBounded ==
    Resume => \A p \in Spools : \A i \in DOMAIN spool[p] : emitted[p][i] <= 1 + faults

(* "checkpoint offsets durably": no run, however it ends, leaves behind a  *)
(* checkpoint file that no later run can load.                             *)
CheckpointDurable == pc = Idle => checkpoint.state # "unreadable"

(* The tool is stuck for good: it cannot load its checkpoint, a spool it   *)
(* was given cannot be read, or a line no run gets past stands in one, and *)
(* nobody is about to finish that line.                                    *)
Stuck ==
    \/ checkpoint.state = "unreadable" /\ pc = Idle
    \/ setting.missing # {}
    \/ \E p \in Spools : \E i \in DOMAIN spool[p] :
          /\ Refused(Strict, spool[p][i])
          /\ ~(spool[p][i].form = "torn" /\ writing[p] # Nothing)

(* Every accepted record eventually leaves as long as the tool is run with *)
(* --resume again and again, unless it gets stuck: a line that is read half written *)
(* and refused, or a read that fails once, delays the others and does not  *)
(* lose them.                                                              *)
EventuallyForwarded ==
    \A p \in Spools : \A i \in 1..MaxLines :
        (Resume /\ i \in DOMAIN spool[p] /\ Accepted(spool[p][i]))
            ~> (Stuck \/ (i \in DOMAIN spool[p] /\ Left(p, i)))

=============================================================================
