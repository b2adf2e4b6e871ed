--------------------------- MODULE ForwarderProofs ---------------------------
(***************************************************************************)
(* What the forwarder keeps of the order of a spool, of its checkpoint and *)
(* of the number of duplicates, for every set of spools, every use of the  *)
(* tool and every number of kills, failed writes and rotations.            *)
(***************************************************************************)
EXTENDS QihseForwarder, TLAPS, SequenceTheorems, WellFoundedInduction

-------------------------------------------------------------------------------
(* Lines in the order of the file.                                           *)

\* s lists the members of S, ascending.
Lists(s, S) ==
    /\ S = {s[k] : k \in DOMAIN s}
    /\ \A j, k \in DOMAIN s : j < k => s[j] < s[k]

\* Every set of the first n lines can be listed.
CanBeListed(n) ==
    \A S \in SUBSET (1 .. n) : \E m \in 0 .. n : \E s \in [1 .. m -> S] : Lists(s, S)

\* No line at all can be listed ...
LEMMA ListingStarts == CanBeListed(0)
<1> SUFFICES ASSUME NEW S \in SUBSET (1 .. 0)
             PROVE  \E m \in 0 .. 0 : \E s \in [1 .. m -> S] : Lists(s, S)
  BY DEF CanBeListed
<1>1. S = {}
  OBVIOUS
<1> DEFINE none == [k \in 1 .. 0 |-> 0]
<1>2. none \in [1 .. 0 -> S] /\ Lists(none, S)
  BY <1>1 DEF Lists
<1> HIDE DEF none
<1>3. 0 \in 0 .. 0
  OBVIOUS
<1> QED
  BY <1>2, <1>3

\* ... and one line more goes to the end of the list ...
LEMMA ListingGrows ==
    ASSUME NEW n \in Nat, CanBeListed(n) PROVE CanBeListed(n + 1)
<1> SUFFICES ASSUME NEW S \in SUBSET (1 .. n + 1)
             PROVE  \E m \in 0 .. n + 1 : \E s \in [1 .. m -> S] : Lists(s, S)
  BY DEF CanBeListed
<1> DEFINE R == S \ {n + 1}
<1>1. R \in SUBSET (1 .. n)
  OBVIOUS
<1>2. PICK m \in 0 .. n : \E r \in [1 .. m -> R] : Lists(r, R)
  BY <1>1 DEF CanBeListed
<1>3. PICK r \in [1 .. m -> R] : Lists(r, R)
  BY <1>2
<1>4. CASE n + 1 \notin S
  <2>1. R = S
    BY <1>4
  <2>2. m \in 0 .. n + 1
    OBVIOUS
  <2> HIDE DEF R
  <2> QED
    BY <1>3, <2>1, <2>2
<1>5. CASE n + 1 \in S
  <2> DEFINE s == [k \in 1 .. m + 1 |-> IF k = m + 1 THEN n + 1 ELSE r[k]]
  <2>1. s \in [1 .. m + 1 -> S]
    BY <1>5
  <2>2. S = {s[k] : k \in DOMAIN s}
    <3>1. R = {r[k] : k \in 1 .. m}
      BY <1>3 DEF Lists
    <3>2. \A x \in S : \E k \in 1 .. m + 1 : x = s[k]
      BY <3>1
    <3> QED
      BY <2>1, <3>2
  <2>3. ASSUME NEW j \in DOMAIN s, NEW k \in DOMAIN s, j < k PROVE s[j] < s[k]
    <3>1. CASE k = m + 1
      <4>1. j \in 1 .. m
        BY <2>3, <3>1
      <4>2. r[j] \in R
        BY <4>1
      <4>3. r[j] \in 1 .. n
        BY <1>1, <4>2
      <4> QED
        BY <2>3, <3>1, <4>1, <4>3
    <3>2. CASE k # m + 1
      <4>1. j \in DOMAIN r /\ k \in DOMAIN r
        BY <2>3, <3>2
      <4> QED
        BY <1>3, <2>3, <3>2, <4>1 DEF Lists
    <3> QED
      BY <3>1, <3>2
  <2>4. Lists(s, S)
    BY <2>2, <2>3 DEF Lists
  <2> HIDE DEF s
  <2> QED
    BY <2>1, <2>4
<1> QED
  BY <1>4, <1>5

\* ... so that any number of lines can be.
LEMMA AllListed == \A n \in Nat : CanBeListed(n)
<1> DEFINE Missed == {n \in Nat : ~CanBeListed(n)}
<1> SUFFICES ASSUME Missed # {} PROVE FALSE
  OBVIOUS
<1>1. PICK n \in Missed : \A k \in Missed : <<k, n>> \notin OpToRel(<, Nat)
  <2>1. Missed \subseteq Nat
    OBVIOUS
  <2> HIDE DEF Missed
  <2> QED
    BY <2>1, NatLessThanWellFounded, WFMin
<1>2. n # 0
  BY ListingStarts
<1>3. n - 1 \in Nat /\ <<n - 1, n>> \in OpToRel(<, Nat)
  BY <1>2 DEF OpToRel
<1>4. CanBeListed(n - 1)
  BY <1>1, <1>3
<1>5. CanBeListed((n - 1) + 1)
  BY <1>3, <1>4, ListingGrows
<1> QED
  BY <1>5

\* So InOrder finds a listing of any set of the first n lines.
LEMMA InOrderLists ==
    ASSUME NEW n \in 0 .. MaxLines, NEW S \in SUBSET (1 .. n)
    PROVE  \E m \in 0 .. MaxLines : InOrder(S) \in [1 .. m -> S] /\ Lists(InOrder(S), S)
<1>1. n \in Nat /\ MaxLines \in Nat
  BY ForwarderAssumption
<1>2. PICK m \in 0 .. n : \E s \in [1 .. m -> S] : Lists(s, S)
  BY <1>1, AllListed DEF CanBeListed
<1>3. PICK s \in [1 .. m -> S] : Lists(s, S)
  BY <1>2
<1>4. m \in 0 .. MaxLines
  BY <1>1
<1>5. s \in UNION {[1 .. k -> S] : k \in 0 .. MaxLines}
  BY <1>4
<1>6. /\ InOrder(S) \in UNION {[1 .. k -> S] : k \in 0 .. MaxLines}
      /\ Lists(InOrder(S), S)
  BY <1>3, <1>5 DEF InOrder, Lists
<1>7. PICK k \in 0 .. MaxLines : InOrder(S) \in [1 .. k -> S]
  BY <1>6
<1> QED
  BY <1>6, <1>7

-------------------------------------------------------------------------------
(* The invariant.                                                            *)

\* A spool the run in progress has read.
Read(p) == \E k \in DOMAIN Paths : k < at /\ Paths[k] = p

\* Lines stay within their bound, and a record begun is the unfinished last line unless
\* its spool was rotated.
WriterInv ==
    \A p \in Spools :
        /\ Len(spool[p]) <= setting.lines[p] /\ rotation[p] <= setting.rotations
        /\ writing[p] # Nothing => setting.lines[p] > 0 /\ (spool[p] = <<>> \/ Unfinished(p))

\* What the control state says about the data of the run.
PhaseInv ==
    /\ pc = Idle => at = 1 /\ accepted = <<>>
    /\ pc = "reading" => at <= Len(Paths)
    /\ pc \notin {Idle, "reading"} => at = Len(Paths) + 1
    /\ pc \in {Idle, "reading", "quarantining"} => sent = 0
    /\ pc \in {"emitting", "dumping", "exiting"} => errors = {} /\ setting.missing = {}
    /\ errors = {} => \A p \in setting.missing : ~Read(p)
    /\ pc \in {"dumping", "exiting"} => sent = Len(accepted)
    /\ pc \in {"reading", "quarantining", "emitting"} => checkpoint.state # "unreadable"
    /\ pc = "dumping" => checkpoint.state = "unreadable"

\* The buffer of stdout holds what was printed.
BufferInv ==
    IF setting.unbuffered THEN buffered = <<>>
    ELSE Len(buffered) = sent /\ \A k \in 1 .. sent : buffered[k] = accepted[k]

\* A run that has not yet touched the checkpoint it started from.
BeforeCheckpoint == pc \in {"reading", "quarantining", "emitting"}

\* An accepted record is of a spool read in this run; unless that was rotated since, it
\* is an accepted line of it that was counted.
AcceptedInv ==
    \A k \in DOMAIN accepted : LET id == accepted[k] IN
        /\ Read(id.path) /\ id.rotation <= rotation[id.path]
        /\ id.rotation = rotation[id.path] =>
              /\ id.line \in DOMAIN spool[id.path] /\ id.line <= counted[id.path]
              /\ Accepted(spool[id.path][id.line])
        /\ BeforeCheckpoint => id.line > StartLine(id.path)

\* The records of a spool are in the order of its lines.
Ascending ==
    \A j, k \in DOMAIN accepted :
        j < k /\ accepted[j].path = accepted[k].path => accepted[j].line < accepted[k].line

\* A spool read in this run and known not to have been rotated since.
Fresh(p) ==
    /\ Read(p)
    /\ \/ setting.rotations = 0
       \/ \E k \in DOMAIN accepted : accepted[k].path = p /\ accepted[k].rotation = rotation[p]

\* Nothing was left out of such a spool, if no line was refused.
CompleteInv ==
    ((BeforeCheckpoint \/ ~Resume) /\ errors = {}) =>
        \A p \in Spools : Fresh(p) =>
            \A i \in DOMAIN spool[p] : StartLine(p) < i /\ i <= counted[p] =>
                /\ Accepted(spool[p][i]) => \E k \in DOMAIN accepted : accepted[k] = RecordId(p, i)
                /\ ~Refused(Strict, spool[p][i])

\* No count runs ahead of the spool it belongs to.
CountInv ==
    \A p \in Spools :
        /\ Fresh(p) => counted[p] <= Len(spool[p])
        /\ setting.rotations = 0 => /\ checkpoint.lines[p] <= Len(spool[p])
                                    /\ counted[p] <= Len(spool[p])

\* Records of a current file leave as accepted ones, and those printed without a buffer
\* have left.
LeftInv ==
    /\ \A p \in Spools : \A i \in DOMAIN spool[p] : Left(p, i) => Accepted(spool[p][i])
    /\ setting.unbuffered =>
          \A k \in 1 .. sent : LET id == accepted[k] IN
              id.rotation = rotation[id.path] => Left(id.path, id.line)

\* The first n lines of spool p need no submission any more.
Covered(p, n) ==
    \A i \in DOMAIN spool[p] : i <= n =>
        (Accepted(spool[p][i]) => Left(p, i)) /\ ~Refused(Strict, spool[p][i])

\* The checkpoint covers what it says, and so does the one about to be written.
CoverInv ==
    (setting.unbuffered /\ setting.rotations = 0) =>
        \A p \in Spools :
            /\ checkpoint.state = "written" => Covered(p, checkpoint.lines[p])
            /\ pc = "dumping" => Covered(p, counted[p])

\* The record of a line is accepted and has not left yet.
Outstanding(p, i) ==
    \E k \in DOMAIN accepted : (setting.unbuffered => sent < k) /\ accepted[k] = RecordId(p, i)

\* How often the record of a line has left, against the faults so far.  What a run that is
\* going to be refused has counted is of no account.
RetryInv ==
    Resume => \A p \in Spools : \A i \in DOMAIN spool[p] : LET n == emitted[p][i] IN
        /\ n <= 1 + faults
        /\ pc \in {Idle, "reading", "quarantining", "exiting"} /\ StartLine(p) < i => n <= faults
        /\ pc \in {"reading", "emitting", "dumping"} /\ errors = {} /\ Read(p) /\ counted[p] < i
              => n <= faults
        /\ pc \in {"emitting", "dumping", "exiting"} /\ Outstanding(p, i) => n <= faults
        /\ pc = "exiting" /\ Outstanding(p, i) /\ StartLine(p) < i => n < faults

IInv ==
    /\ TypeOK /\ WriterInv /\ PhaseInv /\ BufferInv /\ AcceptedInv /\ Ascending
    /\ CompleteInv /\ CountInv /\ LeftInv /\ CoverInv /\ LeavesInOrder /\ RetryInv

-------------------------------------------------------------------------------
(* What the helpers return.                                                  *)

\* The settings have their fields.
LEMMA SettingTypes ==
    ASSUME setting \in Settings
    PROVE  /\ Resume \in BOOLEAN /\ setting.unbuffered \in BOOLEAN /\ Batch \in Nat \ {0}
           /\ setting.written \subseteq LineTypes /\ setting.lines \in [Spools -> 0 .. MaxLines]
           /\ setting.missing \subseteq Spools /\ setting.runs \in Nat /\ setting.faults \in 0 .. MaxFaults /\ MaxFaults \in Nat
           /\ setting.rotations \in 0 .. MaxRotations /\ MaxRotations \in Nat /\ MaxLines \in Nat
           /\ \A p \in Spools : setting.lines[p] \in Nat
<1>1. /\ Resume \in BOOLEAN /\ setting.unbuffered \in BOOLEAN /\ Batch \in Nat \ {0}
      /\ setting.written \subseteq LineTypes /\ setting.lines \in [Spools -> 0 .. MaxLines]
      /\ setting.missing \subseteq Spools /\ setting.runs \in Nat /\ setting.faults \in 0 .. MaxFaults /\ MaxFaults \in Nat
      /\ setting.rotations \in 0 .. MaxRotations /\ MaxRotations \in Nat /\ MaxLines \in Nat
  BY ForwarderAssumption DEF Resume, Batch
<1>2. ASSUME NEW p \in Spools PROVE setting.lines[p] \in Nat
  <2>1. setting.lines[p] \in 0 .. MaxLines
    BY <1>1
  <2> QED
    BY <1>1, <2>1
<1> QED
  BY <1>1, <1>2

\* A spool of the model has at most MaxLines lines.
LEMMA SpoolTypes ==
    ASSUME TypeOK, WriterInv, NEW p \in Spools
    PROVE  /\ spool[p] \in Seq(LineTypes) /\ Len(spool[p]) \in 0 .. MaxLines
           /\ DOMAIN spool[p] = 1 .. Len(spool[p]) /\ emitted[p] \in Seq(Nat)
           /\ DOMAIN emitted[p] = 1 .. Len(spool[p])
           /\ Len(emitted[p]) = Len(spool[p]) /\ rotation[p] \in 0 .. MaxRotations
           /\ StartLine(p) \in Nat /\ \A i \in DOMAIN spool[p] : emitted[p][i] \in Nat
<1>1. spool[p] \in Seq(LineTypes) /\ emitted[p] \in Seq(Nat) /\ Len(emitted[p]) = Len(spool[p])
  BY DEF TypeOK
<1>2. Len(spool[p]) \in Nat /\ DOMAIN spool[p] = 1 .. Len(spool[p]) /\ DOMAIN emitted[p] = 1 .. Len(spool[p])
  BY <1>1, LenProperties
<1>3. setting.lines[p] \in 0 .. MaxLines /\ Len(spool[p]) <= setting.lines[p] /\ MaxLines \in Nat
  BY SettingTypes DEF TypeOK, WriterInv
<1>4. rotation[p] \in 0 .. MaxRotations /\ checkpoint.lines[p] \in 0 .. MaxLines
  BY DEF TypeOK
<1>5. StartLine(p) \in Nat
  BY <1>3, <1>4 DEF StartLine
<1>6. \A i \in DOMAIN spool[p] : emitted[p][i] \in Nat
  BY <1>1, <1>2
<1>7. Len(spool[p]) \in 0 .. MaxLines
  BY <1>2, <1>3
<1> QED
  BY <1>1, <1>2, <1>4, <1>5, <1>6, <1>7

\* The records of the accepted lines a run looks at, each once and in the order of the file.
LEMMA AcceptedInIs ==
    ASSUME TypeOK, WriterInv, NEW p \in Spools, NEW n \in 0 .. Len(spool[p])
    PROVE  LET s == AcceptedIn(p, n) IN
           /\ s \in Seq(RecordIds)
           /\ \A k \in DOMAIN s : \E i \in Unread(p, n) : s[k] = RecordId(p, i) /\ Accepted(spool[p][i])
           /\ \A i \in Unread(p, n) : Accepted(spool[p][i]) => \E k \in DOMAIN s : s[k] = RecordId(p, i)
           /\ \A j, k \in DOMAIN s : j < k => s[j].line < s[k].line
<1> DEFINE S == {i \in Unread(p, n) : Accepted(spool[p][i])}
           lines == InOrder(S)
           s == AcceptedIn(p, n)
<1>1. Len(spool[p]) \in 0 .. MaxLines /\ StartLine(p) \in Nat /\ MaxLines \in Nat
      /\ rotation[p] \in 0 .. MaxRotations
  BY SpoolTypes, ForwarderAssumption
<1>2. S \in SUBSET (1 .. Len(spool[p]))
  BY <1>1 DEF Unread
<1>3. PICK m \in 0 .. MaxLines : lines \in [1 .. m -> S] /\ Lists(lines, S)
  <2> HIDE DEF S
  <2> QED
    BY <1>1, <1>2, InOrderLists
<1>4. s = [k \in 1 .. m |-> RecordId(p, lines[k])]
  BY <1>3 DEF AcceptedIn
<1>5. ASSUME NEW k \in 1 .. m
      PROVE  /\ lines[k] \in S /\ s[k] = RecordId(p, lines[k]) /\ s[k].line = lines[k]
             /\ s[k] \in RecordIds
  <2>1. lines[k] \in S
    BY <1>3
  <2>2. lines[k] \in 1 .. MaxLines
    <3> HIDE DEF S, lines
    <3>1. lines[k] \in 1 .. Len(spool[p])
      BY <1>2, <2>1
    <3> QED
      BY <1>1, <3>1
  <2>3. s[k] = RecordId(p, lines[k])
    BY <1>4
  <2> HIDE DEF S, lines, s
  <2> QED
    BY <1>1, <2>1, <2>2, <2>3 DEF RecordId, RecordIds
<1>6. S = {lines[k] : k \in 1 .. m} /\ \A j, k \in 1 .. m : j < k => lines[j] < lines[k]
  BY <1>3 DEF Lists
<1>7. DOMAIN s = 1 .. m /\ m \in Nat
  BY <1>1, <1>4
<1> HIDE DEF lines, s
<1>8. s \in [1 .. m -> RecordIds]
  BY <1>4, <1>5, <1>7
<1>9. s \in Seq(RecordIds)
  BY <1>7, <1>8
<1>10. /\ \A k \in DOMAIN s : \E i \in Unread(p, n) : s[k] = RecordId(p, i) /\ Accepted(spool[p][i])
       /\ \A i \in Unread(p, n) : Accepted(spool[p][i]) => \E k \in DOMAIN s : s[k] = RecordId(p, i)
  BY <1>5, <1>6, <1>7
<1>11. \A j, k \in DOMAIN s : j < k => s[j].line < s[k].line
  BY <1>5, <1>6, <1>7
<1> QED
  BY <1>9, <1>10, <1>11 DEF s

\* Delivered counts a record of a current file once more, and no other.
LEMMA DeliveredIs ==
    ASSUME TypeOK, WriterInv, NEW ids
    PROVE  /\ Delivered(ids) \in [Spools -> Seq(Nat)]
           /\ \A p \in Spools :
                 /\ Len(Delivered(ids)[p]) = Len(spool[p])
                 /\ \A i \in DOMAIN spool[p] :
                       Delivered(ids)[p][i] = IF \E k \in DOMAIN ids : ids[k] = RecordId(p, i)
                                              THEN emitted[p][i] + 1 ELSE emitted[p][i]
<1> DEFINE new(p) == [i \in DOMAIN emitted[p] |->
                        IF \E k \in DOMAIN ids : ids[k] = RecordId(p, i)
                        THEN emitted[p][i] + 1 ELSE emitted[p][i]]
<1>1. Delivered(ids) = [p \in Spools |-> new(p)]
  BY DEF Delivered
<1>2. ASSUME NEW p \in Spools
      PROVE  new(p) \in Seq(Nat) /\ Len(new(p)) = Len(spool[p]) /\ DOMAIN new(p) = DOMAIN spool[p]
  <2>1. /\ DOMAIN spool[p] = 1 .. Len(spool[p]) /\ DOMAIN emitted[p] = 1 .. Len(spool[p])
        /\ Len(spool[p]) \in Nat /\ emitted[p] \in Seq(Nat) /\ Len(emitted[p]) = Len(spool[p])
    BY SpoolTypes, ForwarderAssumption
  <2>2. \A i \in 1 .. Len(spool[p]) : emitted[p][i] \in Nat
    BY <2>1
  <2>3. new(p) \in [1 .. Len(spool[p]) -> Nat]
    BY <2>1, <2>2
  <2> HIDE DEF new
  <2> QED
    BY <2>1, <2>3, SMTT(30)
<1>3. ASSUME NEW p \in Spools, NEW i \in DOMAIN spool[p]
      PROVE  new(p)[i] = IF \E k \in DOMAIN ids : ids[k] = RecordId(p, i)
                         THEN emitted[p][i] + 1 ELSE emitted[p][i]
  <2>1. DOMAIN emitted[p] = DOMAIN spool[p]
    BY SpoolTypes
  <2> QED
    BY <2>1
<1> HIDE DEF new
<1> QED
  BY <1>1, <1>2, <1>3

-------------------------------------------------------------------------------
(* The writer of a spool.                                                    *)

\* The lines of p that are finished stay as they are, and what is appended has not left.
LinesGrow(p) ==
    /\ spool' \in [Spools -> Seq(LineTypes)] /\ emitted' \in [Spools -> Seq(Nat)]
    /\ \A q \in Spools \ {p} : spool'[q] = spool[q] /\ emitted'[q] = emitted[q]
    /\ Len(emitted'[p]) = Len(spool'[p])
    /\ Len(spool[p]) <= Len(spool'[p]) /\ Len(spool'[p]) <= setting.lines[p]
    /\ \A i \in DOMAIN spool[p] : /\ emitted'[p][i] = emitted[p][i]
                                  /\ spool'[p][i] = spool[p][i] \/ spool[p][i].form = "torn"
    /\ \A i \in DOMAIN spool'[p] : Len(spool[p]) < i => emitted'[p][i] = 0

\* A line is appended ...
LEMMA Appended ==
    ASSUME TypeOK, WriterInv, NEW p \in Spools, NEW line \in LineTypes,
           Len(spool[p]) < setting.lines[p],
           spool' = [spool EXCEPT ![p] = Append(@, line)],
           emitted' = [emitted EXCEPT ![p] = Append(@, 0)]
    PROVE  /\ LinesGrow(p) /\ spool'[p][Len(spool'[p])] = line /\ spool'[p] # <<>>
<1>1. /\ spool[p] \in Seq(LineTypes) /\ emitted[p] \in Seq(Nat)
      /\ Len(emitted[p]) = Len(spool[p]) /\ Len(spool[p]) \in Nat
      /\ DOMAIN spool[p] = 1 .. Len(spool[p])
  BY SpoolTypes, LenProperties
<1>2. spool \in [Spools -> Seq(LineTypes)] /\ emitted \in [Spools -> Seq(Nat)]
  BY DEF TypeOK
<1>3. setting.lines[p] \in Nat
  BY SettingTypes DEF TypeOK
<1>4. spool'[p] = Append(spool[p], line) /\ emitted'[p] = Append(emitted[p], 0)
  BY <1>2
<1>5. /\ spool'[p] \in Seq(LineTypes) /\ Len(spool'[p]) = Len(spool[p]) + 1
      /\ \A i \in 1 .. Len(spool[p]) : spool'[p][i] = spool[p][i]
      /\ spool'[p][Len(spool[p]) + 1] = line
      /\ DOMAIN spool'[p] = 1 .. Len(spool[p]) + 1
  BY <1>1, <1>4
<1>6. /\ emitted'[p] \in Seq(Nat) /\ Len(emitted'[p]) = Len(spool[p]) + 1
      /\ \A i \in 1 .. Len(spool[p]) : emitted'[p][i] = emitted[p][i]
      /\ emitted'[p][Len(spool[p]) + 1] = 0
  BY <1>1, <1>4
<1>7. spool' \in [Spools -> Seq(LineTypes)] /\ emitted' \in [Spools -> Seq(Nat)]
  BY <1>2, <1>4, <1>5, <1>6
<1>8. \A q \in Spools \ {p} : spool'[q] = spool[q] /\ emitted'[q] = emitted[q]
  BY <1>2
<1>9. /\ Len(spool[p]) <= Len(spool'[p]) /\ Len(spool'[p]) <= setting.lines[p]
      /\ \A i \in DOMAIN spool'[p] : Len(spool[p]) < i => emitted'[p][i] = 0
      /\ spool'[p] # <<>>
  BY <1>1, <1>3, <1>5, <1>6
<1> QED
  BY <1>1, <1>5, <1>6, <1>7, <1>8, <1>9 DEF LinesGrow

\* ... or an unfinished last line is replaced.
LEMMA Replaced ==
    ASSUME TypeOK, WriterInv, NEW p \in Spools, NEW line \in LineTypes, Unfinished(p),
           spool' = LastLineIs(p, line), emitted' = emitted
    PROVE  LinesGrow(p) /\ Len(spool'[p]) = Len(spool[p])
<1>1. /\ spool[p] \in Seq(LineTypes) /\ emitted[p] \in Seq(Nat)
      /\ Len(emitted[p]) = Len(spool[p]) /\ Len(spool[p]) \in Nat
      /\ DOMAIN spool[p] = 1 .. Len(spool[p])
  BY SpoolTypes, LenProperties
<1>2. spool \in [Spools -> Seq(LineTypes)] /\ emitted \in [Spools -> Seq(Nat)]
  BY DEF TypeOK
<1>3. Len(spool[p]) \in 1 .. Len(spool[p]) /\ spool[p][Len(spool[p])].form = "torn"
  BY <1>1 DEF Unfinished
<1>4. spool' = [spool EXCEPT ![p] = [spool[p] EXCEPT ![Len(spool[p])] = line]]
  BY <1>2 DEF LastLineIs
<1>5. spool'[p] = [spool[p] EXCEPT ![Len(spool[p])] = line]
  BY <1>2, <1>4
<1>6. /\ spool'[p] \in Seq(LineTypes) /\ Len(spool'[p]) = Len(spool[p])
      /\ \A i \in 1 .. Len(spool[p]) : spool'[p][i] = IF i = Len(spool[p]) THEN line ELSE spool[p][i]
  BY <1>1, <1>3, <1>5, ExceptSeq
<1>7. spool' \in [Spools -> Seq(LineTypes)]
  BY <1>2, <1>4, <1>5, <1>6
<1>8. \A q \in Spools \ {p} : spool'[q] = spool[q]
  BY <1>2, <1>4
<1>9. Len(spool[p]) <= setting.lines[p]
  BY DEF WriterInv
<1>10. \A i \in DOMAIN spool[p] : spool'[p][i] = spool[p][i] \/ spool[p][i].form = "torn"
  BY <1>1, <1>3, <1>6
<1>11. \A i \in DOMAIN spool'[p] : ~(Len(spool[p]) < i)
  BY <1>1, <1>6, LenProperties
<1> QED
  BY <1>1, <1>2, <1>6, <1>7, <1>8, <1>9, <1>10, <1>11 DEF LinesGrow

\* The variables no writer touches.
ForwarderAlone ==
    UNCHANGED <<setting, rotation, checkpoint, pc, at, accepted, errors, counted, sent, buffered,
                report, runs>>

\* Every other step of a writer only lets its spool grow.
LEMMA WriteGrows ==
    ASSUME TypeOK, WriterInv, NEW p \in Spools, NEW line \in LineTypes,
           WriteRecord(p, line) \/ BeginRecord(p, line) \/ FinishRecord(p) \/ WriterKilled(p)
    PROVE  /\ LinesGrow(p) /\ ForwarderAlone /\ WriterInv' /\ TypeOK' /\ faults <= faults'
<1>1. /\ line \in LineTypes /\ Torn \in LineTypes /\ Garbled \in LineTypes
      /\ setting.lines[p] \in Nat /\ faults \in Nat /\ setting.faults \in Nat
  <2>1. line \in LineTypes /\ setting.lines[p] \in Nat
    BY SettingTypes DEF TypeOK
  <2>2. Torn \in LineTypes /\ Garbled \in LineTypes
    BY DEF LineTypes, Forms, Torn, Garbled
  <2>3. setting.faults \in 0 .. MaxFaults /\ MaxFaults \in Nat /\ faults \in 0 .. setting.faults
    BY SettingTypes DEF TypeOK
  <2> QED
    BY <2>1, <2>2, <2>3
<1>2. /\ spool[p] \in Seq(LineTypes) /\ Len(spool[p]) \in Nat /\ Len(emitted[p]) = Len(spool[p])
      /\ spool[p] = <<>> <=> Len(spool[p]) = 0
  BY SpoolTypes, LenProperties
<1>3. Nothing \notin LineTypes
  BY DEF Nothing, LineTypes, Forms
<1>4. ForwarderAlone
  BY DEF WriteRecord, BeginRecord, FinishRecord, WriterKilled, ForwarderAlone, runVars
<1>5. faults <= faults' /\ faults' \in 0 .. setting.faults
  <2>1. faults \in 0 .. setting.faults
    BY DEF TypeOK
  <2>2. faults' = faults \/ (faults < setting.faults /\ faults' = faults + 1)
    BY DEF WriteRecord, BeginRecord, FinishRecord, WriterKilled
  <2> QED
    BY <1>1, <2>1, <2>2
<1>6. LinesGrow(p)
  <2>1. CASE WriteRecord(p, line)
    BY <1>1, <2>1, Appended, Replaced DEF WriteRecord
  <2>2. CASE BeginRecord(p, line)
    BY <1>1, <2>2, Appended DEF BeginRecord
  <2>3. CASE FinishRecord(p)
    <3>1. writing[p] \in LineTypes /\ (spool[p] = <<>> \/ Unfinished(p)) /\ setting.lines[p] > 0
      BY <2>3 DEF FinishRecord, TypeOK, WriterInv
    <3>2. CASE Unfinished(p)
      BY <1>1, <2>3, <3>1, <3>2, Replaced DEF FinishRecord
    <3>3. CASE ~Unfinished(p)
      <4>1. Len(spool[p]) < setting.lines[p]
        BY <1>1, <1>2, <3>1, <3>3
      <4> QED
        BY <1>1, <2>3, <3>1, <3>3, <4>1, Appended DEF FinishRecord
    <3> QED
      BY <3>2, <3>3
  <2>4. CASE WriterKilled(p)
    <3>1. spool' = spool /\ emitted' = emitted
      BY <2>4 DEF WriterKilled
    <3>2. \A i \in DOMAIN spool[p] : ~(Len(spool[p]) < i)
      BY SpoolTypes
    <3> QED
      BY <1>1, <1>2, <3>1, <3>2 DEF LinesGrow, TypeOK, WriterInv
  <2> QED
    BY <2>1, <2>2, <2>3, <2>4
<1>7. writing' \in [Spools -> LineTypes \cup {Nothing}]
  BY <1>1 DEF WriteRecord, BeginRecord, FinishRecord, WriterKilled, TypeOK
<1>8. TypeOK'
  <2>1. \A q \in Spools : Len(emitted'[q]) = Len(spool'[q])
    BY <1>6 DEF LinesGrow, TypeOK
  <2> QED
    BY <1>4, <1>5, <1>6, <1>7, <2>1 DEF TypeOK, LinesGrow, ForwarderAlone, RecordIds
<1>9. WriterInv'
  <2>1. ASSUME NEW q \in Spools, q # p
        PROVE  /\ Len(spool'[q]) <= setting'.lines[q] /\ rotation'[q] <= setting'.rotations
               /\ writing'[q] # Nothing => setting'.lines[q] > 0 /\ (spool'[q] = <<>> \/ Unfinished(q)')
    <3>1. writing'[q] = writing[q]
      BY <2>1 DEF WriteRecord, BeginRecord, FinishRecord, WriterKilled, TypeOK
    <3> QED
      BY <1>4, <1>6, <2>1, <3>1 DEF LinesGrow, ForwarderAlone, WriterInv, Unfinished
  <2>2. Len(spool'[p]) <= setting'.lines[p] /\ rotation'[p] <= setting'.rotations
    BY <1>4, <1>6 DEF LinesGrow, ForwarderAlone, WriterInv
  <2>3. writing'[p] # Nothing => setting'.lines[p] > 0 /\ (spool'[p] = <<>> \/ Unfinished(p)')
    <3>1. CASE BeginRecord(p, line)
      <4>1. spool'[p][Len(spool'[p])] = Torn /\ spool'[p] # <<>>
        BY <1>1, <3>1, Appended DEF BeginRecord
      <4> QED
        BY <1>1, <1>2, <1>4, <3>1, <4>1 DEF BeginRecord, Unfinished, Torn, ForwarderAlone
    <3>2. CASE ~BeginRecord(p, line)
      BY <3>2 DEF WriteRecord, FinishRecord, WriterKilled, TypeOK
    <3> QED
      BY <3>1, <3>2
  <2> QED
    BY <2>1, <2>2, <2>3 DEF WriterInv
<1> QED
  BY <1>4, <1>5, <1>6, <1>8, <1>9

\* What the invariant needs of a step of a writer.
LEMMA GrowFacts ==
    ASSUME TypeOK, WriterInv, TypeOK', WriterInv', NEW p \in Spools, LinesGrow(p), NEW q \in Spools
    PROVE  /\ Len(spool[q]) <= Len(spool'[q])
           /\ \A i \in DOMAIN spool[q] :
                 /\ i \in DOMAIN spool'[q] /\ emitted'[q][i] = emitted[q][i]
                 /\ Accepted(spool[q][i]) => spool'[q][i] = spool[q][i]
                 /\ \A strict : ~Refused(strict, spool[q][i]) => spool'[q][i] = spool[q][i]
           /\ \A i \in DOMAIN spool'[q] :
                 i \in DOMAIN spool[q] \/ (Len(spool[q]) < i /\ emitted'[q][i] = 0)
<1>1. /\ DOMAIN spool[q] = 1 .. Len(spool[q]) /\ Len(spool[q]) \in Nat
      /\ DOMAIN spool'[q] = 1 .. Len(spool'[q]) /\ Len(spool'[q]) \in Nat
  <2>1. spool[q] \in Seq(LineTypes) /\ spool'[q] \in Seq(LineTypes)
    BY DEF TypeOK
  <2> QED
    BY <2>1, LenProperties
<1>2. Len(spool[q]) <= Len(spool'[q])
  BY <1>1 DEF LinesGrow
<1>3. ASSUME NEW i \in DOMAIN spool[q]
      PROVE  /\ i \in DOMAIN spool'[q] /\ emitted'[q][i] = emitted[q][i]
             /\ spool'[q][i] = spool[q][i] \/ spool[q][i].form = "torn"
  <2>1. i \in DOMAIN spool'[q]
    BY <1>1, <1>2
  <2>2. CASE q = p
    BY <2>1, <2>2 DEF LinesGrow
  <2>3. CASE q # p
    BY <2>1, <2>3 DEF LinesGrow
  <2> QED
    BY <2>2, <2>3
<1>4. ASSUME NEW i \in DOMAIN spool'[q]
      PROVE  i \in DOMAIN spool[q] \/ (Len(spool[q]) < i /\ emitted'[q][i] = 0)
  <2>1. i \in DOMAIN spool[q] \/ Len(spool[q]) < i
    BY <1>1
  <2>2. CASE q = p
    BY <2>1, <2>2 DEF LinesGrow
  <2>3. CASE q # p
    BY <1>1, <2>3 DEF LinesGrow
  <2> QED
    BY <2>2, <2>3
<1>5. ASSUME NEW line, line.form = "torn"
      PROVE  ~Accepted(line) /\ \A strict : Refused(strict, line)
  BY <1>5 DEF Accepted, Refused, RejectedWith
<1> QED
  BY <1>2, <1>3, <1>4, <1>5

\* The invariant without the types of the variables and the bounds of the lines.
RunInv ==
    /\ PhaseInv /\ BufferInv /\ AcceptedInv /\ Ascending /\ CompleteInv /\ CountInv
    /\ LeftInv /\ CoverInv /\ LeavesInOrder /\ RetryInv

\* A spool that grows while the forwarder stands still disturbs none of its facts.
LEMMA WriterKeeps ==
    ASSUME TypeOK, WriterInv, RunInv, NEW p \in Spools, LinesGrow(p), ForwarderAlone,
           faults <= faults', TypeOK', WriterInv'
    PROVE  RunInv'
<1>1. ASSUME NEW q \in Spools
      PROVE  /\ Len(spool[q]) <= Len(spool'[q])
             /\ \A i \in DOMAIN spool[q] :
                   /\ i \in DOMAIN spool'[q] /\ emitted'[q][i] = emitted[q][i]
                   /\ Accepted(spool[q][i]) => spool'[q][i] = spool[q][i]
                   /\ \A strict : ~Refused(strict, spool[q][i]) => spool'[q][i] = spool[q][i]
             /\ \A i \in DOMAIN spool'[q] :
                   i \in DOMAIN spool[q] \/ (Len(spool[q]) < i /\ emitted'[q][i] = 0)
  BY GrowFacts
<1>2. /\ setting' = setting /\ rotation' = rotation /\ checkpoint' = checkpoint /\ pc' = pc
      /\ at' = at /\ accepted' = accepted /\ errors' = errors /\ counted' = counted
      /\ sent' = sent /\ buffered' = buffered
  BY DEF ForwarderAlone
<1>3. /\ \A q : Read(q)' <=> Read(q)
      /\ \A q : StartLine(q)' = StartLine(q)
      /\ \A q, i : RecordId(q, i)' = RecordId(q, i)
      /\ \A q : Fresh(q)' <=> Fresh(q)
      /\ BeforeCheckpoint' <=> BeforeCheckpoint
      /\ \A q, i : Outstanding(q, i)' <=> Outstanding(q, i)
      /\ Strict' = Strict /\ (Resume' <=> Resume)
  BY <1>2 DEF Read, StartLine, RecordId, Fresh, BeforeCheckpoint, Outstanding, Strict, Resume
<1>4. /\ DOMAIN accepted = 1 .. Len(accepted) /\ Len(accepted) \in Nat /\ sent \in 0 .. Len(accepted)
      /\ \A k \in DOMAIN accepted : accepted[k] \in RecordIds
      /\ \A k \in DOMAIN accepted : accepted[k].path \in Spools
  <2>1. accepted \in Seq(RecordIds) /\ sent \in 0 .. Len(accepted)
    BY DEF TypeOK
  <2>2. /\ DOMAIN accepted = 1 .. Len(accepted) /\ Len(accepted) \in Nat
        /\ accepted \in [1 .. Len(accepted) -> RecordIds]
    BY <2>1, LenProperties
  <2>3. \A id \in RecordIds : id.path \in Spools
    BY DEF RecordIds
  <2> QED
    BY <2>1, <2>2, <2>3
<1>5. ASSUME NEW q \in Spools
      PROVE  /\ DOMAIN spool[q] = 1 .. Len(spool[q]) /\ Len(spool[q]) \in Nat
             /\ Len(spool'[q]) \in Nat /\ counted[q] \in Nat /\ checkpoint.lines[q] \in Nat
             /\ DOMAIN spool'[q] = 1 .. Len(spool'[q]) /\ rotation[q] \in Nat
             /\ \A i \in DOMAIN spool[q] : emitted[q][i] \in Nat
  <2>1. /\ spool[q] \in Seq(LineTypes) /\ spool'[q] \in Seq(LineTypes)
        /\ counted[q] \in 0 .. MaxLines /\ checkpoint.lines[q] \in 0 .. MaxLines
        /\ rotation[q] \in 0 .. MaxRotations
    BY DEF TypeOK
  <2>2. /\ DOMAIN spool[q] = 1 .. Len(spool[q]) /\ Len(spool[q]) \in Nat
        /\ Len(spool'[q]) \in Nat /\ DOMAIN spool'[q] = 1 .. Len(spool'[q])
    BY <2>1, LenProperties
  <2>3. MaxLines \in Nat /\ MaxRotations \in Nat
    BY ForwarderAssumption
  <2>4. \A i \in DOMAIN spool[q] : emitted[q][i] \in Nat
    BY SpoolTypes
  <2> QED
    BY <2>1, <2>2, <2>3, <2>4
<1>6. PhaseInv' /\ BufferInv' /\ Ascending'
  BY <1>2 DEF RunInv, PhaseInv, BufferInv, Ascending, Read
<1>7. AcceptedInv'
  BY <1>1, <1>2, <1>3, <1>4 DEF RunInv, AcceptedInv
<1>8. CompleteInv'
  <2> SUFFICES ASSUME BeforeCheckpoint \/ ~Resume, errors = {}, NEW q \in Spools, Fresh(q),
                      NEW i \in DOMAIN spool'[q], StartLine(q) < i, i <= counted[q]
               PROVE  /\ Accepted(spool'[q][i]) =>
                            \E k \in DOMAIN accepted : accepted[k] = RecordId(q, i)
                      /\ ~Refused(Strict, spool'[q][i])
    BY <1>2, <1>3 DEF CompleteInv
  <2>1. counted[q] <= Len(spool[q])
    BY DEF RunInv, CountInv
  <2>2. i \in DOMAIN spool[q]
    BY <1>5, <2>1
  <2>3. ~Refused(Strict, spool[q][i])
        /\ (Accepted(spool[q][i]) => \E k \in DOMAIN accepted : accepted[k] = RecordId(q, i))
    BY <2>2 DEF RunInv, CompleteInv
  <2> QED
    BY <1>1, <2>2, <2>3
<1>9. CountInv'
  BY <1>1, <1>2, <1>3, <1>5 DEF RunInv, CountInv
<1>10. LeftInv'
  <2>1. ASSUME NEW q \in Spools, NEW i \in DOMAIN spool'[q], Left(q, i)'
        PROVE  Accepted(spool'[q][i])
    <3>1. i \in DOMAIN spool[q] /\ Left(q, i)
      BY <1>1, <2>1 DEF Left
    <3>2. Accepted(spool[q][i])
      BY <3>1 DEF RunInv, LeftInv
    <3> QED
      BY <1>1, <3>1, <3>2
  <2>2. ASSUME setting.unbuffered, NEW k \in 1 .. sent,
               accepted[k].rotation = rotation[accepted[k].path]
        PROVE  Left(accepted[k].path, accepted[k].line)'
    <3>1. k \in DOMAIN accepted
      BY <1>4
    <3>2. accepted[k].line \in DOMAIN spool[accepted[k].path]
      BY <2>2, <3>1 DEF RunInv, AcceptedInv
    <3>3. Left(accepted[k].path, accepted[k].line)
      BY <2>2 DEF RunInv, LeftInv
    <3> QED
      BY <1>1, <1>2, <1>4, <3>1, <3>2, <3>3 DEF Left
  <2> QED
    BY <1>2, <2>1, <2>2 DEF LeftInv, Left
<1>11. ASSUME NEW q \in Spools, NEW n, n <= Len(spool[q]), n \in Nat, Covered(q, n)
       PROVE  Covered(q, n)'
  <2> SUFFICES ASSUME NEW i \in DOMAIN spool'[q], i <= n
               PROVE  /\ Accepted(spool'[q][i]) => Left(q, i)'
                      /\ ~Refused(Strict, spool'[q][i])
    BY <1>3 DEF Covered
  <2>1. i \in DOMAIN spool[q]
    BY <1>5, <1>11
  <2>2. (Accepted(spool[q][i]) => Left(q, i)) /\ ~Refused(Strict, spool[q][i])
    BY <1>11, <2>1 DEF Covered
  <2> QED
    BY <1>1, <2>1, <2>2 DEF Left
<1>12. CoverInv'
  <2> SUFFICES ASSUME setting.unbuffered, setting.rotations = 0, NEW q \in Spools
               PROVE  /\ checkpoint.state = "written" => Covered(q, checkpoint.lines[q])'
                      /\ pc = "dumping" => Covered(q, counted[q])'
    BY <1>2 DEF CoverInv, Covered
  <2>1. checkpoint.lines[q] <= Len(spool[q]) /\ counted[q] <= Len(spool[q])
    BY DEF RunInv, CountInv
  <2>2. checkpoint.state = "written" => Covered(q, checkpoint.lines[q])'
    <3> DEFINE n == checkpoint.lines[q]
    <3>1. n' = n /\ n \in Nat /\ n <= Len(spool[q])
      BY <1>2, <1>5, <2>1
    <3>2. checkpoint.state = "written" => Covered(q, n)
      BY DEF RunInv, CoverInv
    <3> QED
      BY <1>11, <3>1, <3>2 DEF Covered
  <2>3. pc = "dumping" => Covered(q, counted[q])'
    <3>1. pc = "dumping" => Covered(q, counted[q])
      BY DEF RunInv, CoverInv
    <3> QED
      BY <1>2, <1>5, <1>11, <2>1, <3>1 DEF Covered
  <2> QED
    BY <2>2, <2>3
<1>13. LeavesInOrder'
  <2>0. ASSUME Resume => setting.unbuffered /\ setting.rotations = 0,
               NEW q \in Spools, NEW j \in DOMAIN spool'[q], Left(q, j)'
        PROVE  j \in DOMAIN spool[q] /\ Left(q, j) /\ setting.missing = {}
    <3>1. j \in DOMAIN spool[q] /\ Left(q, j)
      BY <1>1, <2>0 DEF Left
    <3> QED
      BY <2>0, <3>1 DEF RunInv, LeavesInOrder
  <2> SUFFICES ASSUME Resume => setting.unbuffered /\ setting.rotations = 0,
                      NEW q \in Spools, NEW j \in DOMAIN spool'[q], Left(q, j)',
                      NEW i \in 1 .. j - 1
               PROVE  /\ Accepted(spool'[q][i]) => Left(q, i)'
                      /\ ~Refused(Strict, spool'[q][i])
    BY <1>2, <1>3, <2>0 DEF LeavesInOrder
  <2>1. j \in DOMAIN spool[q] /\ Left(q, j)
    BY <2>0
  <2>2. i \in DOMAIN spool[q]
    BY <1>5, <2>1
  <2>3. (Accepted(spool[q][i]) => Left(q, i)) /\ ~Refused(Strict, spool[q][i])
    BY <2>1 DEF RunInv, LeavesInOrder
  <2> QED
    BY <1>1, <2>2, <2>3 DEF Left
<1>14. RetryInv'
  <2> SUFFICES ASSUME Resume, NEW q \in Spools, NEW i \in DOMAIN spool'[q]
               PROVE  LET n == emitted'[q][i] IN
                      /\ n <= 1 + faults'
                      /\ pc \in {Idle, "reading", "quarantining", "exiting"} /\ StartLine(q) < i
                            => n <= faults'
                      /\ pc \in {"reading", "emitting", "dumping"} /\ errors = {} /\ Read(q)
                            /\ counted[q] < i => n <= faults'
                      /\ pc \in {"emitting", "dumping", "exiting"} /\ Outstanding(q, i)
                            => n <= faults'
                      /\ pc = "exiting" /\ Outstanding(q, i) /\ StartLine(q) < i => n < faults'
    BY <1>2, <1>3 DEF RetryInv
  <2>1. faults \in Nat /\ faults' \in Nat
    <3>1. faults \in 0 .. setting.faults /\ setting.faults \in 0 .. MaxFaults /\ MaxFaults \in Nat
      BY SettingTypes DEF TypeOK
    <3>2. faults' \in 0 .. setting.faults
      BY <1>2 DEF TypeOK
    <3> QED
      BY <3>1, <3>2
  <2>2. CASE i \in DOMAIN spool[q]
    <3>1. emitted'[q][i] = emitted[q][i] /\ emitted[q][i] \in Nat
      BY <1>1, <1>5, <2>2
    <3> QED
      BY <2>1, <2>2, <3>1 DEF RunInv, RetryInv
  <2>3. CASE i \notin DOMAIN spool[q]
    <3>1. emitted'[q][i] = 0
      BY <1>1, <2>3
    <3>2. ~Outstanding(q, i)
      <4> SUFFICES ASSUME NEW k \in DOMAIN accepted, accepted[k] = RecordId(q, i) PROVE FALSE
        BY DEF Outstanding
      <4>1. accepted[k].path = q /\ accepted[k].rotation = rotation[q] /\ accepted[k].line = i
        BY DEF RecordId
      <4> QED
        BY <2>3, <4>1 DEF RunInv, AcceptedInv
    <3>3. \A n \in Nat : 0 <= n /\ 0 <= 1 + n
      OBVIOUS
    <3> QED
      BY <2>1, <3>1, <3>2, <3>3
  <2> QED
    BY <2>2, <2>3
<1> QED
  BY <1>6, <1>7, <1>8, <1>9, <1>10, <1>12, <1>13, <1>14 DEF RunInv

\* A rotation empties the file and makes every record accepted so far one of an old file.
LEMMA RotateKeeps ==
    ASSUME TypeOK, WriterInv, RunInv, NEW p \in Spools, Rotate(p)
    PROVE  TypeOK' /\ WriterInv' /\ RunInv'
<1>1. /\ setting' = setting /\ writing' = writing /\ checkpoint' = checkpoint /\ pc' = pc
      /\ at' = at /\ accepted' = accepted /\ errors' = errors /\ counted' = counted
      /\ sent' = sent /\ buffered' = buffered /\ report' = report /\ runs' = runs
      /\ faults' = faults
  BY DEF Rotate, runVars
<1>2. /\ spool' = [spool EXCEPT ![p] = <<>>] /\ emitted' = [emitted EXCEPT ![p] = <<>>]
      /\ rotation' = [rotation EXCEPT ![p] = @ + 1] /\ rotation[p] < setting.rotations
  BY DEF Rotate
<1>3. /\ spool \in [Spools -> Seq(LineTypes)] /\ emitted \in [Spools -> Seq(Nat)]
      /\ rotation \in [Spools -> 0 .. MaxRotations]
  BY DEF TypeOK
<1>4. /\ spool'[p] = <<>> /\ emitted'[p] = <<>> /\ rotation'[p] = rotation[p] + 1
      /\ \A q \in Spools \ {p} :
            spool'[q] = spool[q] /\ emitted'[q] = emitted[q] /\ rotation'[q] = rotation[q]
  BY <1>2, <1>3
<1>5. /\ setting.rotations \in 0 .. MaxRotations /\ MaxRotations \in Nat
      /\ rotation[p] \in 0 .. MaxRotations
      /\ setting.lines[p] \in Nat
  BY <1>3, SettingTypes DEF TypeOK
<1>6. rotation[p] + 1 <= setting.rotations /\ rotation[p] + 1 \in 0 .. MaxRotations
      /\ setting.rotations # 0
  BY <1>2, <1>5
<1>7. TypeOK'
  <2>1. \A q \in Spools : Len(emitted'[q]) = Len(spool'[q])
    BY <1>4 DEF TypeOK
  <2>2. spool' \in [Spools -> Seq(LineTypes)] /\ emitted' \in [Spools -> Seq(Nat)]
    BY <1>2, <1>3
  <2>3. rotation' \in [Spools -> 0 .. MaxRotations]
    BY <1>2, <1>3, <1>6
  <2> QED
    BY <1>1, <2>1, <2>2, <2>3 DEF TypeOK, RecordIds, ErrorIds
<1>8. WriterInv'
  <2> SUFFICES ASSUME NEW q \in Spools
               PROVE  /\ Len(spool'[q]) <= setting.lines[q] /\ rotation'[q] <= setting.rotations
                      /\ writing[q] # Nothing =>
                            setting.lines[q] > 0 /\ (spool'[q] = <<>> \/ Unfinished(q)')
    BY <1>1 DEF WriterInv
  <2>1. CASE q = p
    BY <1>4, <1>5, <1>6, <2>1 DEF WriterInv
  <2>2. CASE q # p
    BY <1>4, <2>2 DEF WriterInv, Unfinished
  <2> QED
    BY <2>1, <2>2
<1>9. \A i : i \notin DOMAIN spool'[p]
  BY <1>4
<1>10. /\ \A q : Read(q)' <=> Read(q)
       /\ \A q : StartLine(q)' = StartLine(q)
       /\ BeforeCheckpoint' <=> BeforeCheckpoint
       /\ Strict' = Strict /\ (Resume' <=> Resume)
  BY <1>1 DEF Read, StartLine, BeforeCheckpoint, Strict, Resume
<1>11. \A k \in DOMAIN accepted : accepted[k].path \in Spools /\ accepted[k].rotation \in Nat
  <2>1. accepted \in Seq(RecordIds)
    BY DEF TypeOK
  <2>2. accepted \in [1 .. Len(accepted) -> RecordIds]
    BY <2>1, LenProperties
  <2>3. \A id \in RecordIds : id.path \in Spools /\ id.rotation \in Nat
    BY <1>5 DEF RecordIds
  <2> QED
    BY <2>2, <2>3
<1>12. \A k \in DOMAIN accepted : accepted[k].path = p => accepted[k].rotation < rotation'[p]
  <2> SUFFICES ASSUME NEW k \in DOMAIN accepted, accepted[k].path = p
               PROVE  accepted[k].rotation < rotation'[p]
    OBVIOUS
  <2>1. accepted[k].rotation <= rotation[p] /\ accepted[k].rotation \in Nat /\ rotation[p] \in Nat
    BY <1>5, <1>11 DEF RunInv, AcceptedInv
  <2> QED
    BY <1>4, <2>1
<1>13. ~Fresh(p)' /\ \A q \in Spools \ {p} : (Fresh(q)' <=> Fresh(q))
  <2>1. ~Fresh(p)'
    <3>1. \A k \in DOMAIN accepted : accepted[k].path = p => accepted[k].rotation # rotation'[p]
      BY <1>4, <1>5, <1>11, <1>12
    <3> QED
      BY <1>1, <1>6, <3>1 DEF Fresh
  <2> QED
    BY <1>1, <1>4, <1>10, <2>1 DEF Fresh
<1>14. \A q \in Spools \ {p} : \A i : RecordId(q, i)' = RecordId(q, i)
                                  /\ (Outstanding(q, i)' <=> Outstanding(q, i))
  BY <1>1, <1>4 DEF RecordId, Outstanding
<1>15. PhaseInv' /\ BufferInv' /\ Ascending' /\ CoverInv'
  BY <1>1, <1>6 DEF RunInv, PhaseInv, Read, BufferInv, Ascending, CoverInv
<1>16. AcceptedInv'
  <2> SUFFICES ASSUME NEW k \in DOMAIN accepted
               PROVE  LET id == accepted[k] IN
                      /\ Read(id.path) /\ id.rotation <= rotation'[id.path]
                      /\ id.rotation = rotation'[id.path] =>
                            /\ id.line \in DOMAIN spool'[id.path] /\ id.line <= counted[id.path]
                            /\ Accepted(spool'[id.path][id.line])
                      /\ BeforeCheckpoint => id.line > StartLine(id.path)
    BY <1>1, <1>10 DEF AcceptedInv
  <2>1. CASE accepted[k].path = p
    <3>1. accepted[k].rotation < rotation'[p] /\ accepted[k].rotation \in Nat /\ rotation'[p] \in Nat
      BY <1>4, <1>5, <1>11, <1>12, <2>1
    <3>2. accepted[k].rotation <= rotation'[p] /\ accepted[k].rotation # rotation'[p]
      BY <3>1
    <3> QED
      BY <2>1, <3>2 DEF RunInv, AcceptedInv
  <2>2. CASE accepted[k].path # p
    BY <1>4, <1>11, <2>2 DEF RunInv, AcceptedInv
  <2> QED
    BY <2>1, <2>2
<1>17. CompleteInv'
  BY <1>1, <1>4, <1>10, <1>13, <1>14 DEF RunInv, CompleteInv
<1>18. CountInv'
  BY <1>1, <1>4, <1>6, <1>13 DEF RunInv, CountInv
<1>19. LeftInv'
  <2>1. \A q \in Spools : \A i \in DOMAIN spool'[q] : Left(q, i)' => Accepted(spool'[q][i])
    BY <1>4, <1>9 DEF RunInv, LeftInv, Left
  <2>2. ASSUME setting.unbuffered, NEW k \in 1 .. sent,
               accepted[k].rotation = rotation'[accepted[k].path]
        PROVE  Left(accepted[k].path, accepted[k].line)'
    <3>1. k \in DOMAIN accepted
      BY LenProperties DEF TypeOK
    <3>2. accepted[k].path # p
      <4>1. accepted[k].path = p => accepted[k].rotation < rotation'[p]
        BY <1>12, <3>1
      <4> QED
        BY <1>4, <1>5, <1>11, <2>2, <3>1, <4>1
    <3>3. Left(accepted[k].path, accepted[k].line)
      BY <1>4, <1>11, <2>2, <3>1, <3>2 DEF RunInv, LeftInv
    <3> QED
      BY <1>1, <1>4, <1>11, <3>1, <3>2, <3>3 DEF Left
  <2> QED
    BY <1>1, <2>1, <2>2 DEF LeftInv, Left
<1>20. LeavesInOrder'
  BY <1>1, <1>4, <1>9, <1>10 DEF RunInv, LeavesInOrder, Left
<1>21. RetryInv'
  BY <1>1, <1>4, <1>9, <1>10, <1>14 DEF RunInv, RetryInv
<1> QED
  BY <1>7, <1>8, <1>15, <1>16, <1>17, <1>18, <1>19, <1>20, <1>21 DEF RunInv

-------------------------------------------------------------------------------
(* What leaves the process.                                                  *)

\* The spools on the command line.
LEMMA PathTypes ==
    /\ DOMAIN Paths = 1 .. Len(Paths) /\ Len(Paths) \in Nat \ {0}
    /\ \A k \in DOMAIN Paths : Paths[k] \in Spools
    /\ \A p \in Spools : \E k \in DOMAIN Paths : Paths[k] = p
<1>1. Paths \in Seq(STRING) /\ Paths # <<>>
  BY ForwarderAssumption
<1>2. DOMAIN Paths = 1 .. Len(Paths) /\ Len(Paths) \in Nat \ {0}
  BY <1>1, LenProperties, EmptySeq
<1> QED
  BY <1>2 DEF Spools

\* The accepted records and the counters of the run.
LEMMA AcceptedTypes ==
    ASSUME TypeOK
    PROVE  /\ accepted \in Seq(RecordIds) /\ Len(accepted) \in Nat
           /\ DOMAIN accepted = 1 .. Len(accepted) /\ sent \in 0 .. Len(accepted)
           /\ \A k \in DOMAIN accepted :
                 /\ accepted[k] \in RecordIds /\ accepted[k].path \in Spools
                 /\ accepted[k].line \in Nat /\ accepted[k].rotation \in Nat
           /\ faults \in Nat /\ faults \in 0 .. setting.faults /\ setting.faults \in Nat
<1>1. accepted \in Seq(RecordIds) /\ sent \in 0 .. Len(accepted) /\ faults \in 0 .. setting.faults
  BY DEF TypeOK
<1>2. /\ DOMAIN accepted = 1 .. Len(accepted) /\ Len(accepted) \in Nat
      /\ accepted \in [1 .. Len(accepted) -> RecordIds]
  BY <1>1, LenProperties
<1>3. setting.faults \in 0 .. MaxFaults /\ MaxFaults \in Nat /\ MaxRotations \in Nat /\ MaxLines \in Nat
  BY SettingTypes DEF TypeOK
<1>4. \A id \in RecordIds : id.path \in Spools /\ id.line \in Nat /\ id.rotation \in Nat
  BY <1>3 DEF RecordIds
<1>5. \A k \in DOMAIN accepted : accepted[k] \in RecordIds
  BY <1>2
<1>6. setting.faults \in Nat /\ faults \in Nat
  BY <1>1, <1>3
<1> QED
  BY <1>1, <1>2, <1>4, <1>5, <1>6

\* A batch is the next records after those already printed.
LEMMA BatchIs ==
    ASSUME TypeOK, sent < Len(accepted)
    PROVE  LET end == BatchEnd(sent)
               ids == SubSeq(accepted, sent + 1, end)
           IN  /\ end \in 0 .. Len(accepted) /\ sent < end
               /\ ids \in Seq(RecordIds) /\ Len(ids) = end - sent
               /\ \A k \in 1 .. end - sent : ids[k] = accepted[sent + k]
               /\ \A x : (\E k \in DOMAIN ids : ids[k] = x)
                            <=> \E k \in DOMAIN accepted : sent < k /\ k <= end /\ accepted[k] = x
<1> DEFINE end == BatchEnd(sent)
           ids == SubSeq(accepted, sent + 1, end)
<1>1. Batch \in Nat \ {0} /\ Len(accepted) \in Nat /\ sent \in 0 .. Len(accepted)
      /\ DOMAIN accepted = 1 .. Len(accepted) /\ \A k \in DOMAIN accepted : accepted[k] \in RecordIds
  BY SettingTypes, AcceptedTypes DEF TypeOK
<1>2. end \in 0 .. Len(accepted) /\ sent < end
  BY <1>1 DEF BatchEnd
<1> HIDE DEF end
<1>3. \A i \in sent + 1 .. end : accepted[i] \in RecordIds
  BY <1>1, <1>2
<1>4. sent + 1 \in Int /\ end \in Int
  BY <1>1, <1>2
<1>5. /\ ids \in Seq(RecordIds)
      /\ Len(ids) = IF sent + 1 <= end THEN end - (sent + 1) + 1 ELSE 0
      /\ \A i \in 1 .. end - (sent + 1) + 1 : ids[i] = accepted[sent + 1 + i - 1]
  BY <1>3, <1>4, SubSeqProperties
<1> HIDE DEF ids
<1>6. Len(ids) = end - sent /\ \A k \in 1 .. end - sent : ids[k] = accepted[sent + k]
  <2>1. end - (sent + 1) + 1 = end - sent /\ sent + 1 <= end
    BY <1>1, <1>2
  <2>2. \A k \in 1 .. end - sent : sent + 1 + k - 1 = sent + k
    BY <1>1, <1>2
  <2> QED
    BY <1>5, <2>1, <2>2
<1>7. DOMAIN ids = 1 .. end - sent
  BY <1>5, <1>6, LenProperties
<1>8. ASSUME NEW x, NEW k \in DOMAIN ids, ids[k] = x
      PROVE  \E m \in DOMAIN accepted : sent < m /\ m <= end /\ accepted[m] = x
  <2>1. sent + k \in DOMAIN accepted /\ sent < sent + k /\ sent + k <= end
    BY <1>1, <1>2, <1>7
  <2> QED
    BY <1>6, <1>7, <1>8, <2>1
<1>9. ASSUME NEW x, NEW m \in DOMAIN accepted, sent < m, m <= end, accepted[m] = x
      PROVE  \E k \in DOMAIN ids : ids[k] = x
  <2>1. m - sent \in 1 .. end - sent /\ sent + (m - sent) = m
    BY <1>1, <1>2, <1>9
  <2> QED
    BY <1>6, <1>7, <1>9, <2>1
<1> QED
  BY <1>2, <1>5, <1>6, <1>8, <1>9 DEF end, ids

\* The records up to `to` leave, those up to `from` having left before: no gap appears.
LEMMA DeliveryKeepsOrder ==
    ASSUME TypeOK, WriterInv, RunInv, errors = {},
           pc = "emitting" \/ (pc = "exiting" /\ ~Resume),
           NEW from \in Nat, NEW to \in Nat, to <= Len(accepted),
           \A k \in DOMAIN accepted :
              k <= from /\ accepted[k].rotation = rotation[accepted[k].path]
                  => Left(accepted[k].path, accepted[k].line),
           UNCHANGED <<setting, spool, rotation>>,
           \A p \in Spools : \A i \in DOMAIN spool[p] :
              emitted'[p][i] = IF \E k \in DOMAIN accepted :
                                     from < k /\ k <= to /\ accepted[k] = RecordId(p, i)
                               THEN emitted[p][i] + 1 ELSE emitted[p][i]
    PROVE  /\ LeavesInOrder'
           /\ \A p \in Spools : \A i \in DOMAIN spool[p] : Left(p, i)' => Accepted(spool[p][i])
           /\ \A p \in Spools : \A i \in DOMAIN spool[p] : Left(p, i) => Left(p, i)'
           /\ \A k \in DOMAIN accepted :
                 k <= to /\ accepted[k].rotation = rotation[accepted[k].path]
                     => emitted'[accepted[k].path][accepted[k].line] > 0
<1> DEFINE D(p, i) == \E k \in DOMAIN accepted : from < k /\ k <= to /\ accepted[k] = RecordId(p, i)
<1>1. ASSUME NEW p \in Spools, NEW i \in DOMAIN spool[p]
      PROVE  Left(p, i)' <=> (Left(p, i) \/ D(p, i))
  <2>1. emitted[p][i] \in Nat
    BY SpoolTypes
  <2>2. emitted'[p][i] = IF D(p, i) THEN emitted[p][i] + 1 ELSE emitted[p][i]
    OBVIOUS
  <2> HIDE DEF D
  <2> QED
    BY <2>1, <2>2 DEF Left
<1>2. ASSUME NEW k \in DOMAIN accepted, NEW p \in Spools, NEW i, accepted[k] = RecordId(p, i)
      PROVE  /\ accepted[k].path = p /\ accepted[k].rotation = rotation[p] /\ accepted[k].line = i
             /\ i \in DOMAIN spool[p] /\ i <= counted[p] /\ Accepted(spool[p][i]) /\ Fresh(p)
  <2>1. accepted[k].path = p /\ accepted[k].rotation = rotation[p] /\ accepted[k].line = i
    BY <1>2 DEF RecordId
  <2> QED
    BY <2>1 DEF RunInv, AcceptedInv, Fresh
<1>3. \A p \in Spools : \A i \in DOMAIN spool[p] : Left(p, i)' => Accepted(spool[p][i])
  BY <1>1, <1>2 DEF RunInv, LeftInv
<1>4. ASSUME NEW k \in DOMAIN accepted, k <= to, accepted[k].rotation = rotation[accepted[k].path]
      PROVE  emitted'[accepted[k].path][accepted[k].line] > 0
  <2> DEFINE p == accepted[k].path
             i == accepted[k].line
  <2>1. p \in Spools /\ k \in Nat /\ accepted[k] \in RecordIds
    BY AcceptedTypes
  <2>2. i \in DOMAIN spool[p]
    BY <1>4 DEF RunInv, AcceptedInv
  <2>3. accepted[k] = RecordId(p, i)
    BY <1>4, <2>1 DEF RecordId, RecordIds
  <2>4. Left(p, i) \/ D(p, i)
    BY <1>4, <2>1, <2>3
  <2>5. emitted'[p][i] > 0
    <3> HIDE DEF D, p, i
    <3> QED
      BY <1>1, <2>1, <2>2, <2>4 DEF Left
  <2> QED
    BY <2>5
<1>5. LeavesInOrder'
  <2>0. setting.missing = {}
    BY DEF RunInv, PhaseInv
  <2> SUFFICES ASSUME Resume => setting.unbuffered /\ setting.rotations = 0,
                      NEW q \in Spools, NEW j \in DOMAIN spool[q], Left(q, j)', NEW i \in 1 .. j - 1
               PROVE  /\ Accepted(spool[q][i]) => Left(q, i)'
                      /\ ~Refused(Strict, spool[q][i])
    BY <2>0 DEF LeavesInOrder, Resume, Strict, Left
  <2>1. /\ j \in 1 .. Len(spool[q]) /\ DOMAIN spool[q] = 1 .. Len(spool[q]) /\ Len(spool[q]) \in Nat
        /\ StartLine(q) \in Nat
    BY SpoolTypes, LenProperties
  <2>2. i \in DOMAIN spool[q] /\ i < j /\ i \in Nat
    BY <2>1
  <2>3. CASE Left(q, j)
    BY <1>1, <2>2, <2>3 DEF RunInv, LeavesInOrder
  <2>4. CASE ~Left(q, j)
    <3>1. PICK k \in DOMAIN accepted : from < k /\ k <= to /\ accepted[k] = RecordId(q, j)
      BY <1>1, <2>4
    <3>2. j <= counted[q] /\ Fresh(q) /\ accepted[k].line = j /\ accepted[k].path = q
      BY <1>2, <3>1
    <3>3. counted[q] \in Nat
      <4>1. counted[q] \in 0 .. MaxLines /\ MaxLines \in Nat
        BY ForwarderAssumption DEF TypeOK
      <4> QED
        BY <4>1
    <3>4. i <= counted[q]
      BY <2>1, <2>2, <3>2, <3>3
    <3>5. CASE i <= StartLine(q)
      <4>1. Resume /\ checkpoint.state = "written" /\ StartLine(q) = checkpoint.lines[q]
        BY <2>1, <2>2, <3>5 DEF StartLine
      <4>2. Covered(q, checkpoint.lines[q])
        BY <4>1 DEF RunInv, CoverInv
      <4> QED
        BY <1>1, <2>2, <3>5, <4>1, <4>2 DEF Covered
    <3>6. CASE StartLine(q) < i
      <4>1. BeforeCheckpoint \/ ~Resume
        BY DEF BeforeCheckpoint
      <4>2. /\ Accepted(spool[q][i]) => \E m \in DOMAIN accepted : accepted[m] = RecordId(q, i)
            /\ ~Refused(Strict, spool[q][i])
        BY <2>2, <3>2, <3>4, <3>6, <4>1 DEF RunInv, CompleteInv
      <4>3. ASSUME NEW m \in DOMAIN accepted, accepted[m] = RecordId(q, i) PROVE Left(q, i)'
        <5>1. accepted[m].line = i /\ accepted[m].path = q /\ accepted[m].rotation = rotation[q]
          BY <1>2, <4>3
        <5>2. ~(k < m) /\ k # m
          BY <2>1, <2>2, <3>2, <5>1 DEF RunInv, Ascending
        <5>3. m <= to
          BY <3>1, <5>2, AcceptedTypes
        <5> QED
          BY <1>4, <5>1, <5>3 DEF Left
      <4> QED
        BY <4>2, <4>3
    <3> QED
      BY <2>1, <2>2, <3>5, <3>6
  <2> QED
    BY <2>3, <2>4
<1>6. \A p \in Spools : \A i \in DOMAIN spool[p] : Left(p, i) => Left(p, i)'
  BY <1>1
<1> QED
  BY <1>3, <1>4, <1>5, <1>6

-------------------------------------------------------------------------------
(* The end of a run.                                                         *)

\* A run that ends leaves an invariant state behind, whatever has left with it, if that
\* kept the order of the spools and the bound on the retries.
LEMMA RunIsOver ==
    ASSUME TypeOK, WriterInv, RunInv, RunEnds, UNCHANGED <<daemonVars, checkpoint, runs>>,
           report' \subseteq ErrorIds, faults' \in 0 .. setting.faults,
           emitted' \in [Spools -> Seq(Nat)], \A p \in Spools : Len(emitted'[p]) = Len(spool[p]),
           \A p \in Spools : \A i \in DOMAIN spool[p] :
              /\ Left(p, i) => Left(p, i)'
              /\ Left(p, i)' => Accepted(spool[p][i])
              /\ Resume => emitted'[p][i] <= 1 + faults'
              /\ Resume /\ StartLine(p) < i => emitted'[p][i] <= faults',
           LeavesInOrder'
    PROVE  TypeOK' /\ WriterInv' /\ RunInv'
<1>1. /\ setting' = setting /\ spool' = spool /\ writing' = writing /\ rotation' = rotation
      /\ checkpoint' = checkpoint /\ runs' = runs
      /\ pc' = Idle /\ at' = 1 /\ accepted' = <<>> /\ errors' = {} /\ sent' = 0 /\ buffered' = <<>>
      /\ counted' = [p \in Spools |-> 0]
  BY DEF RunEnds, daemonVars
<1>2. Len(accepted') = 0 /\ DOMAIN accepted' = {} /\ accepted' \in Seq(RecordIds)
      /\ 1 .. sent' = {} /\ sent' \in 0 .. Len(accepted')
  BY <1>1
<1>3. /\ \A p : ~Read(p)'
      /\ \A p, i : ~Outstanding(p, i)'
      /\ \A p : StartLine(p)' = StartLine(p)
      /\ ~BeforeCheckpoint'
      /\ Strict' = Strict /\ (Resume' <=> Resume)
  <2>1. \A p : ~Read(p)'
    BY <1>1, PathTypes DEF Read
  <2> QED
    BY <1>1, <1>2, <2>1 DEF Outstanding, StartLine, BeforeCheckpoint, Strict, Resume, Idle
<1>4. TypeOK'
  <2>1. 1 \in 1 .. Len(Paths) + 1
    BY PathTypes
  <2>2. counted' \in [Spools -> 0 .. MaxLines]
    BY <1>1, ForwarderAssumption
  <2>3. buffered' \in Seq(RecordIds)
    BY <1>1
  <2> QED
    BY <1>1, <1>2, <2>1, <2>2, <2>3 DEF TypeOK, RecordIds, ErrorIds
<1>5. WriterInv'
  BY <1>1 DEF WriterInv, Unfinished
<1>6. PhaseInv' /\ BufferInv'
  BY <1>1, <1>2, <1>3 DEF PhaseInv, BufferInv, Idle
<1>7. AcceptedInv' /\ Ascending' /\ CompleteInv'
  BY <1>1, <1>2, <1>3 DEF AcceptedInv, Ascending, CompleteInv, Fresh
<1>8. CountInv'
  <2> SUFFICES ASSUME NEW p \in Spools, setting.rotations = 0
               PROVE  checkpoint.lines[p] <= Len(spool[p]) /\ 0 <= Len(spool[p])
    BY <1>1, <1>3 DEF CountInv, Fresh
  <2> QED
    BY SpoolTypes DEF RunInv, CountInv
<1>9. LeftInv'
  BY <1>1, <1>2 DEF LeftInv, Left
<1>10. CoverInv'
  BY <1>1, <1>3 DEF RunInv, CoverInv, Covered, Idle, Left
<1>11. RetryInv'
  BY <1>1, <1>3 DEF RetryInv, Idle
<1> QED
  BY <1>4, <1>5, <1>6, <1>7, <1>8, <1>9, <1>10, <1>11 DEF RunInv

\* A run whose records are refused ends, and so does one that raises or is killed: no
\* record leaves.
LEMMA NothingLeaves ==
    ASSUME TypeOK, WriterInv, RunInv,
           Quarantine \/ ForwarderKilled \/ \E p \in Spools : LineRaises(p)
    PROVE  TypeOK' /\ WriterInv' /\ RunInv'
<1>1. RunEnds /\ UNCHANGED <<daemonVars, checkpoint, emitted, runs>>
  BY DEF Quarantine, ForwarderKilled, LineRaises
<1>2. /\ faults \in Nat /\ setting.faults \in Nat /\ faults \in 0 .. setting.faults
      /\ \A p \in Spools : \A i \in DOMAIN spool[p] : emitted[p][i] \in Nat
  BY AcceptedTypes, SpoolTypes
<1>3. faults' \in 0 .. setting.faults /\ report' \subseteq ErrorIds
  <2>1. faults' = faults \/ (faults < setting.faults /\ faults' = faults + 1)
    BY DEF Quarantine, ForwarderKilled, LineRaises
  <2>2. report' = errors \/ report' = report
    BY DEF Quarantine, ForwarderKilled, LineRaises
  <2>3. errors \subseteq ErrorIds /\ report \subseteq ErrorIds
    BY DEF TypeOK
  <2> QED
    BY <1>2, <2>1, <2>2, <2>3
<1>4. ASSUME Resume, NEW p \in Spools, NEW i \in DOMAIN spool[p]
      PROVE  emitted[p][i] <= 1 + faults' /\ (StartLine(p) < i => emitted[p][i] <= faults')
  <2>1. emitted[p][i] <= 1 + faults /\ emitted[p][i] \in Nat
    BY <1>2, <1>4 DEF RunInv, RetryInv
  <2>2. CASE Quarantine
    <3>1. pc = "quarantining" /\ (faults' = faults \/ faults' = faults + 1)
      BY <2>2 DEF Quarantine
    <3>2. StartLine(p) < i => emitted[p][i] <= faults
      BY <1>4, <3>1 DEF RunInv, RetryInv
    <3> QED
      BY <1>2, <2>1, <3>1, <3>2
  <2>3. CASE ForwarderKilled
    <3>1. faults' = faults + 1
      BY <2>3 DEF ForwarderKilled
    <3> QED
      BY <1>2, <2>1, <3>1
  <2>4. CASE \E q \in Spools : LineRaises(q)
    <3>1. pc = "reading" /\ faults' = faults
      BY <2>4 DEF LineRaises
    <3>2. StartLine(p) < i => emitted[p][i] <= faults
      BY <1>4, <3>1 DEF RunInv, RetryInv
    <3> QED
      BY <1>2, <2>1, <3>1, <3>2
  <2> QED
    BY <2>2, <2>3, <2>4
<1>5. LeavesInOrder'
  BY <1>1 DEF RunInv, LeavesInOrder, daemonVars, Resume, Strict, Left
<1>6. emitted \in [Spools -> Seq(Nat)] /\ \A p \in Spools : Len(emitted[p]) = Len(spool[p])
  BY DEF TypeOK
<1>7. \A p \in Spools : \A i \in DOMAIN spool[p] : Left(p, i) => Accepted(spool[p][i])
  BY DEF RunInv, LeftInv
<1>8. \A p, i : Left(p, i)' <=> Left(p, i)
  BY <1>1 DEF Left
<1> QED
  BY <1>1, <1>3, <1>4, <1>5, <1>6, <1>7, <1>8, RunIsOver

\* What is in the buffer leaves with the process.
LEMMA ExitKeeps ==
    ASSUME TypeOK, WriterInv, RunInv, Exit
    PROVE  TypeOK' /\ WriterInv' /\ RunInv'
<1>1. /\ RunEnds /\ UNCHANGED <<daemonVars, checkpoint, report, runs, faults>>
      /\ pc = "exiting" /\ emitted' = Delivered(buffered)
  BY DEF Exit
<1>2. /\ errors = {} /\ sent = Len(accepted)
  BY <1>1 DEF RunInv, PhaseInv, Idle
<1>3. /\ faults \in Nat /\ faults \in 0 .. setting.faults /\ setting.unbuffered \in BOOLEAN
      /\ \A p \in Spools : \A i \in DOMAIN spool[p] : emitted[p][i] \in Nat
      /\ Len(accepted) \in Nat /\ DOMAIN accepted = 1 .. Len(accepted)
      /\ report \subseteq ErrorIds
  BY AcceptedTypes, SpoolTypes, SettingTypes DEF TypeOK
<1>4. /\ emitted' \in [Spools -> Seq(Nat)]
      /\ \A p \in Spools :
            /\ Len(emitted'[p]) = Len(spool[p])
            /\ \A i \in DOMAIN spool[p] :
                  emitted'[p][i] = IF \E k \in DOMAIN buffered : buffered[k] = RecordId(p, i)
                                   THEN emitted[p][i] + 1 ELSE emitted[p][i]
  BY <1>1, DeliveredIs
<1>5. report' \subseteq ErrorIds /\ faults' \in 0 .. setting.faults
  BY <1>1, <1>3
<1>6. CASE setting.unbuffered
  <2>1. DOMAIN buffered = {}
    BY <1>6 DEF RunInv, BufferInv
  <2>2. \A p \in Spools : \A i \in DOMAIN spool[p] : emitted'[p][i] = emitted[p][i]
    BY <1>4, <2>1
  <2>3. \A p \in Spools : \A i \in DOMAIN spool[p] : Left(p, i)' <=> Left(p, i)
    BY <2>2 DEF Left
  <2>4. ASSUME NEW p \in Spools, NEW i \in DOMAIN spool[p]
        PROVE  /\ Left(p, i) => Left(p, i)'
               /\ Left(p, i)' => Accepted(spool[p][i])
               /\ Resume => emitted'[p][i] <= 1 + faults'
               /\ Resume /\ StartLine(p) < i => emitted'[p][i] <= faults'
    <3>1. faults' = faults
      BY <1>1
    <3> QED
      BY <1>1, <2>2, <2>3, <3>1 DEF RunInv, LeftInv, RetryInv
  <2>5. LeavesInOrder'
    <3>1. setting' = setting /\ spool' = spool /\ Strict' = Strict /\ (Resume' <=> Resume)
      BY <1>1 DEF daemonVars, Strict, Resume
    <3>0. setting.missing = {}
      BY <1>1 DEF RunInv, PhaseInv
    <3> SUFFICES ASSUME Resume => setting.unbuffered /\ setting.rotations = 0,
                        NEW q \in Spools, NEW j \in DOMAIN spool[q], Left(q, j)', NEW i \in 1 .. j - 1
                 PROVE  /\ Accepted(spool[q][i]) => Left(q, i)'
                        /\ ~Refused(Strict, spool[q][i])
      BY <3>0, <3>1 DEF LeavesInOrder
    <3>2. i \in DOMAIN spool[q]
      <4>1. DOMAIN spool[q] = 1 .. Len(spool[q]) /\ Len(spool[q]) \in Nat
        BY SpoolTypes, LenProperties
      <4> QED
        BY <4>1
    <3> QED
      BY <2>3, <3>2 DEF RunInv, LeavesInOrder
  <2> QED
    BY <1>1, <1>4, <1>5, <2>4, <2>5, RunIsOver
<1>7. CASE ~setting.unbuffered
  <2>1. DOMAIN buffered = DOMAIN accepted /\ \A k \in DOMAIN accepted : buffered[k] = accepted[k]
    <3>1. Len(buffered) = Len(accepted) /\ \A k \in 1 .. Len(accepted) : buffered[k] = accepted[k]
      BY <1>2, <1>7 DEF RunInv, BufferInv
    <3>2. DOMAIN buffered = 1 .. Len(buffered)
      BY LenProperties DEF TypeOK
    <3> QED
      BY <1>3, <3>1, <3>2
  <2>2. ASSUME NEW p \in Spools, NEW i \in DOMAIN spool[p]
        PROVE  /\ emitted'[p][i] = IF \E k \in DOMAIN accepted :
                                         0 < k /\ k <= Len(accepted) /\ accepted[k] = RecordId(p, i)
                                   THEN emitted[p][i] + 1 ELSE emitted[p][i]
               /\ (\E k \in DOMAIN buffered : buffered[k] = RecordId(p, i)) <=> Outstanding(p, i)
    <3>1. (\E k \in DOMAIN buffered : buffered[k] = RecordId(p, i)) <=>
          (\E k \in DOMAIN accepted : 0 < k /\ k <= Len(accepted) /\ accepted[k] = RecordId(p, i))
      BY <1>3, <2>1
    <3>2. (\E k \in DOMAIN buffered : buffered[k] = RecordId(p, i)) <=> Outstanding(p, i)
      BY <1>7, <2>1 DEF Outstanding
    <3> QED
      BY <1>4, <3>1, <3>2
  <2>3. ASSUME NEW p \in Spools, NEW i \in DOMAIN spool[p]
        PROVE  /\ Left(p, i) => Left(p, i)'
               /\ Left(p, i)' => Accepted(spool[p][i])
               /\ Resume => emitted'[p][i] <= 1 + faults'
               /\ Resume /\ StartLine(p) < i => emitted'[p][i] <= faults'
    <3>1. emitted[p][i] \in Nat /\ faults' = faults
      BY <1>1, <1>3
    <3>2. Outstanding(p, i) => Accepted(spool[p][i])
      BY DEF Outstanding, RunInv, AcceptedInv, RecordId
    <3>3. CASE ~Outstanding(p, i)
      <4>1. emitted'[p][i] = emitted[p][i]
        BY <1>4, <2>2, <3>3
      <4>2. (Left(p, i) => Accepted(spool[p][i]))
            /\ (Resume => emitted[p][i] <= 1 + faults
                          /\ (StartLine(p) < i => emitted[p][i] <= faults))
        BY <1>1 DEF RunInv, LeftInv, RetryInv
      <4> QED
        BY <3>1, <4>1, <4>2 DEF Left
    <3>4. CASE Outstanding(p, i)
      <4>1. emitted'[p][i] = emitted[p][i] + 1
        BY <1>4, <2>2, <3>4
      <4>2. Resume => emitted[p][i] <= faults /\ (StartLine(p) < i => emitted[p][i] < faults)
        BY <1>1, <3>4 DEF RunInv, RetryInv
      <4>3. emitted'[p][i] > 0 /\ (Resume => emitted'[p][i] <= 1 + faults
                                             /\ (StartLine(p) < i => emitted'[p][i] <= faults))
        BY <1>3, <3>1, <4>1, <4>2
      <4> QED
        BY <3>1, <3>2, <3>4, <4>3 DEF Left
    <3> QED
      BY <3>3, <3>4
  <2>4. LeavesInOrder'
    <3>1. CASE Resume
      <4>1. Resume' /\ ~setting'.unbuffered
        BY <1>1, <1>7, <3>1 DEF daemonVars, Resume
      <4> QED
        BY <4>1 DEF LeavesInOrder
    <3>2. CASE ~Resume
      <4>1. 0 \in Nat /\ Len(accepted) <= Len(accepted) /\ \A k \in DOMAIN accepted : ~(k <= 0)
        BY <1>3
      <4>2. UNCHANGED <<setting, spool, rotation>>
        BY <1>1 DEF daemonVars
      <4>3. \A p \in Spools : \A i \in DOMAIN spool[p] :
               emitted'[p][i] = IF \E k \in DOMAIN accepted :
                                      0 < k /\ k <= Len(accepted) /\ accepted[k] = RecordId(p, i)
                                THEN emitted[p][i] + 1 ELSE emitted[p][i]
        BY <2>2
      <4> QED
        BY <1>1, <1>2, <1>3, <3>2, <4>1, <4>2, <4>3, DeliveryKeepsOrder
    <3> QED
      BY <3>1, <3>2
  <2> QED
    BY <1>1, <1>4, <1>5, <2>3, <2>4, RunIsOver
<1> QED
  BY <1>6, <1>7

-------------------------------------------------------------------------------
(* A run reads.                                                              *)

\* A run starts with nothing read.
LEMMA StartKeeps ==
    ASSUME TypeOK, WriterInv, RunInv, Start
    PROVE  TypeOK' /\ WriterInv' /\ RunInv'
<1>1. /\ setting' = setting /\ spool' = spool /\ writing' = writing /\ rotation' = rotation
      /\ checkpoint' = checkpoint /\ at' = at /\ accepted' = accepted /\ errors' = errors
      /\ sent' = sent /\ buffered' = buffered /\ emitted' = emitted /\ report' = report
      /\ faults' = faults
      /\ pc = Idle /\ pc' = "reading" /\ counted' = checkpoint.lines
      /\ checkpoint.state # "unreadable"
  BY DEF Start, daemonVars
<1>2. at = 1 /\ accepted = <<>> /\ sent = 0 /\ DOMAIN accepted = {} /\ Len(accepted) = 0
  BY <1>1 DEF RunInv, PhaseInv
<1>3. /\ \A p : ~Read(p)'
      /\ \A p, i : ~Outstanding(p, i)'
      /\ \A p : StartLine(p)' = StartLine(p)
      /\ Strict' = Strict /\ (Resume' <=> Resume)
  <2>1. \A p : ~Read(p)'
    BY <1>1, <1>2, PathTypes DEF Read
  <2> QED
    BY <1>1, <1>2, <2>1 DEF Outstanding, StartLine, Strict, Resume
<1>4. TypeOK'
  <2>1. runs' \in 0 .. setting.runs
    <3>1. runs \in 0 .. setting.runs /\ setting.runs \in Nat
      BY SettingTypes DEF TypeOK
    <3>2. runs' = runs \/ (runs < setting.runs /\ runs' = runs + 1)
      BY DEF Start
    <3> QED
      BY <3>1, <3>2
  <2>2. checkpoint.lines \in [Spools -> 0 .. MaxLines]
    BY DEF TypeOK
  <2> QED
    BY <1>1, <2>1, <2>2 DEF TypeOK, RecordIds, ErrorIds
<1>5. WriterInv'
  BY <1>1 DEF WriterInv, Unfinished
<1>6. PhaseInv'
  <2>1. 1 <= Len(Paths)
    BY PathTypes
  <2> QED
    BY <1>1, <1>2, <1>3, <2>1 DEF PhaseInv, Idle
<1>7. BufferInv' /\ AcceptedInv' /\ Ascending' /\ CompleteInv'
  BY <1>1, <1>2, <1>3 DEF RunInv, BufferInv, AcceptedInv, Ascending, CompleteInv, Fresh
<1>8. CountInv'
  BY <1>1, <1>3 DEF RunInv, CountInv, Fresh
<1>9. LeftInv' /\ LeavesInOrder'
  BY <1>1, <1>2, <1>3 DEF RunInv, LeftInv, LeavesInOrder, Left
<1>10. CoverInv'
  BY <1>1, <1>3 DEF RunInv, CoverInv, Covered, Left
<1>11. RetryInv'
  BY <1>1, <1>3 DEF RunInv, RetryInv, Idle
<1> QED
  BY <1>4, <1>5, <1>6, <1>7, <1>8, <1>9, <1>10, <1>11 DEF RunInv

\* A record in the list after a spool is read: an old one, or one of the lines just read.
LEMMA ListAfterReading ==
    ASSUME TypeOK, WriterInv, NEW p \in Spools, NEW m \in 0 .. Len(spool[p]),
           accepted' = accepted \o AcceptedIn(p, m)
    PROVE  LET n == Len(accepted)
               s == AcceptedIn(p, m)
           IN  /\ accepted' \in Seq(RecordIds) /\ DOMAIN accepted' = 1 .. Len(accepted')
               /\ Len(accepted') \in Nat /\ n <= Len(accepted')
               /\ \A k \in DOMAIN accepted : k \in DOMAIN accepted' /\ accepted'[k] = accepted[k]
               /\ \A k \in DOMAIN accepted' : k \in DOMAIN accepted \/
                     /\ k - n \in DOMAIN s /\ n < k /\ accepted'[k] = s[k - n]
                     /\ \E i \in Unread(p, m) : accepted'[k] = RecordId(p, i) /\ Accepted(spool[p][i])
               /\ \A i \in Unread(p, m) : Accepted(spool[p][i]) =>
                     \E k \in DOMAIN accepted' : accepted'[k] = RecordId(p, i)
<1> DEFINE n == Len(accepted)
           s == AcceptedIn(p, m)
<1>1. /\ accepted \in Seq(RecordIds) /\ n \in Nat /\ DOMAIN accepted = 1 .. n
  BY AcceptedTypes
<1>2. /\ s \in Seq(RecordIds)
      /\ \A k \in DOMAIN s : \E i \in Unread(p, m) : s[k] = RecordId(p, i) /\ Accepted(spool[p][i])
      /\ \A i \in Unread(p, m) : Accepted(spool[p][i]) => \E k \in DOMAIN s : s[k] = RecordId(p, i)
  BY AcceptedInIs
<1>3. accepted' = accepted \o s
  OBVIOUS
<1> HIDE DEF s
<1>4. /\ accepted' \in Seq(RecordIds) /\ Len(accepted') = n + Len(s)
      /\ \A k \in 1 .. n + Len(s) : accepted'[k] = IF k <= n THEN accepted[k] ELSE s[k - n]
      /\ Len(s) \in Nat /\ DOMAIN s = 1 .. Len(s) /\ DOMAIN accepted' = 1 .. n + Len(s)
  BY <1>1, <1>2, <1>3, ConcatProperties, LenProperties
<1> HIDE DEF n
<1>5. \A k \in DOMAIN accepted : k \in DOMAIN accepted' /\ accepted'[k] = accepted[k]
  BY <1>1, <1>4
<1>6. ASSUME NEW k \in DOMAIN accepted', k \notin DOMAIN accepted
      PROVE  k - n \in DOMAIN s /\ n < k /\ accepted'[k] = s[k - n]
  BY <1>1, <1>4, <1>6
<1>7. ASSUME NEW i \in Unread(p, m), Accepted(spool[p][i])
      PROVE  \E k \in DOMAIN accepted' : accepted'[k] = RecordId(p, i)
  <2>1. PICK h \in DOMAIN s : s[h] = RecordId(p, i)
    BY <1>2, <1>7
  <2>2. n + h \in 1 .. n + Len(s) /\ ~(n + h <= n) /\ (n + h) - n = h
    BY <1>1, <1>4
  <2> QED
    BY <1>4, <2>1, <2>2
<1>8. n <= Len(accepted') /\ Len(accepted') \in Nat /\ DOMAIN accepted' = 1 .. Len(accepted')
  BY <1>1, <1>4
<1>9. ASSUME NEW k \in DOMAIN accepted', k \notin DOMAIN accepted
      PROVE  /\ k - n \in DOMAIN s /\ n < k /\ accepted'[k] = s[k - n]
             /\ \E i \in Unread(p, m) : accepted'[k] = RecordId(p, i) /\ Accepted(spool[p][i])
  BY <1>2, <1>6, <1>9
<1> QED
  BY <1>4, <1>5, <1>7, <1>8, <1>9, Zenon DEF n, s

\* Reading a spool adds its accepted lines, or refuses the run; what was read before an
\* error of the file counts for nothing, as the run is refused.
LEMMA ReadLinesKeeps ==
    ASSUME TypeOK, WriterInv, RunInv, NEW p \in Spools, NEW last \in 0 .. Len(spool[p]),
           NEW fileErrors \in SUBSET {FileError(p)}, ReadLines(p, last, fileErrors),
           fileErrors = {} => p \notin setting.missing /\ last = Len(spool[p]),
           faults' \in 0 .. setting.faults, faults <= faults'
    PROVE  TypeOK' /\ WriterInv' /\ RunInv'
<1> DEFINE n == Len(accepted)
<1>1. /\ setting' = setting /\ spool' = spool /\ writing' = writing /\ rotation' = rotation
      /\ checkpoint' = checkpoint /\ sent' = sent /\ buffered' = buffered /\ emitted' = emitted
      /\ report' = report /\ runs' = runs /\ p = Paths[at] /\ ~RaisesIn(p, last)
      /\ pc = "reading" /\ at' = at + 1 /\ counted' = [counted EXCEPT ![p] = last]
      /\ accepted' = accepted \o AcceptedIn(p, last) /\ errors' = errors \cup ErrorsIn(p, last) \cup fileErrors
      /\ pc' = IF at < Len(Paths) THEN "reading" ELSE AfterReading(errors')
  BY DEF ReadLines, daemonVars, LinesCounted
<1>2. /\ at \in 1 .. Len(Paths) /\ at \in DOMAIN Paths /\ p \in Spools /\ Len(Paths) \in Nat
      /\ DOMAIN Paths = 1 .. Len(Paths)
  <2>1. at <= Len(Paths) /\ at \in 1 .. Len(Paths) + 1
    BY <1>1 DEF RunInv, PhaseInv, TypeOK
  <2> QED
    BY <2>1, PathTypes
<1>3. /\ \A q : Read(q)' <=> (Read(q) \/ q = p)
      /\ ~Read(p)
  <2>1. ASSUME NEW q PROVE Read(q)' <=> (Read(q) \/ q = p)
    <3>1. \A k \in DOMAIN Paths : k < at + 1 <=> (k < at \/ k = at)
      BY <1>2
    <3> QED
      BY <1>1, <1>2, <3>1 DEF Read
  <2>2. ~Read(p)
    BY <1>1, <1>2, ForwarderAssumption DEF Read
  <2> QED
    BY <2>1, <2>2
<1>4. /\ accepted' \in Seq(RecordIds) /\ DOMAIN accepted' = 1 .. Len(accepted')
      /\ Len(accepted') \in Nat /\ n <= Len(accepted')
      /\ \A k \in DOMAIN accepted : k \in DOMAIN accepted' /\ accepted'[k] = accepted[k]
      /\ \A k \in DOMAIN accepted' : k \in DOMAIN accepted \/
            /\ k - n \in DOMAIN AcceptedIn(p, last) /\ n < k /\ accepted'[k] = AcceptedIn(p, last)[k - n]
            /\ \E i \in Unread(p, last) : accepted'[k] = RecordId(p, i) /\ Accepted(spool[p][i])
      /\ \A i \in Unread(p, last) : Accepted(spool[p][i]) =>
            \E k \in DOMAIN accepted' : accepted'[k] = RecordId(p, i)
  BY <1>1, <1>2, ListAfterReading
<1>5. /\ n \in Nat /\ DOMAIN accepted = 1 .. n /\ sent = 0
      /\ \A k \in DOMAIN accepted : accepted[k].path \in Spools /\ accepted[k].path # p
                                    /\ accepted[k].line \in Nat
  <2>1. sent = 0
    BY <1>1 DEF RunInv, PhaseInv
  <2> QED
    BY <1>3, <2>1, AcceptedTypes DEF RunInv, AcceptedInv
<1>6. /\ spool[p] \in Seq(LineTypes) /\ Len(spool[p]) \in 0 .. MaxLines /\ Len(spool[p]) \in Nat
      /\ DOMAIN spool[p] = 1 .. Len(spool[p]) /\ StartLine(p) \in Nat
      /\ rotation[p] \in Nat /\ rotation[p] \in 0 .. MaxRotations /\ MaxLines \in Nat
      /\ last \in Nat /\ last <= Len(spool[p]) /\ last \in 0 .. MaxLines
  BY <1>2, SpoolTypes, ForwarderAssumption
<1>7. \A i \in Unread(p, last) : /\ i \in DOMAIN spool[p] /\ i <= last /\ StartLine(p) < i
                           /\ RecordId(p, i).path = p /\ RecordId(p, i).rotation = rotation[p]
                           /\ RecordId(p, i).line = i
  BY <1>6 DEF Unread, RecordId
<1>8. /\ counted' \in [Spools -> 0 .. MaxLines] /\ counted'[p] = last
      /\ \A q \in Spools \ {p} : counted'[q] = counted[q]
  <2>1. counted \in [Spools -> 0 .. MaxLines]
    BY DEF TypeOK
  <2> QED
    BY <1>1, <1>2, <1>6, <2>1
<1>9. /\ \A q : StartLine(q)' = StartLine(q)
      /\ \A q, i : RecordId(q, i)' = RecordId(q, i)
      /\ BeforeCheckpoint /\ BeforeCheckpoint'
      /\ Strict' = Strict /\ (Resume' <=> Resume)
      /\ pc' \in {"reading", "quarantining", "emitting"}
      /\ pc' = "emitting" => errors' = {} /\ at' = Len(Paths) + 1
      /\ pc' = "quarantining" => at' = Len(Paths) + 1
      /\ pc' = "reading" => at' <= Len(Paths)
  <2>1. /\ pc' \in {"reading", "quarantining", "emitting"}
        /\ pc' = "reading" <=> at < Len(Paths)
        /\ pc' = "emitting" => errors' = {}
    BY <1>1 DEF AfterReading
  <2>2. (pc' = "reading" => at' <= Len(Paths)) /\ (pc' # "reading" => at' = Len(Paths) + 1)
    BY <1>1, <1>2, <2>1
  <2> QED
    BY <1>1, <2>1, <2>2 DEF StartLine, RecordId, BeforeCheckpoint, Strict, Resume
<1>10. TypeOK'
  <2>1. ErrorsIn(p, last) \subseteq ErrorIds
    <3>1. \A i \in Unread(p, last) : i \in 1 .. MaxLines
      BY <1>6, <1>7
    <3> QED
      BY <1>2, <1>6, <3>1 DEF ErrorsIn, RecordId, ErrorIds
  <2>2. errors' \subseteq ErrorIds
    <3>1. FileError(p) \in ErrorIds
      BY <1>6 DEF FileError, RecordId, ErrorIds
    <3> QED
      BY <1>1, <2>1, <3>1 DEF TypeOK
  <2>3. at' \in 1 .. Len(Paths) + 1
    BY <1>1, <1>2
  <2>4. sent' \in 0 .. Len(accepted')
    BY <1>1, <1>4, <1>5
  <2> QED
    BY <1>1, <1>4, <1>8, <1>9, <2>2, <2>3, <2>4 DEF TypeOK, RecordIds, ErrorIds
<1>11. WriterInv'
  BY <1>1 DEF WriterInv, Unfinished
<1>12. PhaseInv'
  <2>1. errors' = {} => \A q \in setting.missing : ~Read(q)'
    BY <1>1, <1>3 DEF RunInv, PhaseInv
  <2>2. pc' = "emitting" => errors' = {} /\ setting.missing = {}
    <3> SUFFICES ASSUME pc' = "emitting" PROVE setting.missing = {}
      BY <1>9
    <3>1. \A q \in Spools : Read(q)'
      BY <1>1, <1>2, <1>9, PathTypes DEF Read
    <3>2. setting.missing \subseteq Spools
      BY SettingTypes DEF TypeOK
    <3> QED
      BY <1>9, <2>1, <3>1, <3>2
  <2> QED
    BY <1>1, <1>5, <1>9, <2>1, <2>2 DEF RunInv, PhaseInv, Idle
<1>13. BufferInv'
  BY <1>1, <1>5 DEF RunInv, BufferInv
<1>14. AcceptedInv'
  <2> SUFFICES ASSUME NEW k \in DOMAIN accepted'
               PROVE  LET id == accepted'[k] IN
                      /\ Read(id.path) \/ id.path = p
                      /\ id.rotation <= rotation[id.path]
                      /\ id.rotation = rotation[id.path] =>
                            /\ id.line \in DOMAIN spool[id.path] /\ id.line <= counted'[id.path]
                            /\ Accepted(spool[id.path][id.line])
                      /\ id.line > StartLine(id.path)
    BY <1>1, <1>3, <1>9 DEF AcceptedInv
  <2>1. CASE k \in DOMAIN accepted
    <3>1. accepted'[k] = accepted[k] /\ counted'[accepted[k].path] = counted[accepted[k].path]
      BY <1>4, <1>5, <1>8, <2>1
    <3> QED
      BY <1>9, <2>1, <3>1 DEF RunInv, AcceptedInv
  <2>2. CASE k \notin DOMAIN accepted
    <3>1. PICK i \in Unread(p, last) : accepted'[k] = RecordId(p, i) /\ Accepted(spool[p][i])
      BY <1>4, <2>2
    <3> QED
      BY <1>6, <1>7, <1>8, <3>1
  <2> QED
    BY <2>1, <2>2
<1>15. Ascending'
  <2> SUFFICES ASSUME NEW j \in DOMAIN accepted', NEW k \in DOMAIN accepted', j < k,
                      accepted'[j].path = accepted'[k].path
               PROVE  accepted'[j].line < accepted'[k].line
    BY DEF Ascending
  <2>1. CASE k \in DOMAIN accepted
    <3>1. j \in DOMAIN accepted
      BY <1>4, <1>5, <2>1
    <3> QED
      BY <1>4, <2>1, <3>1 DEF RunInv, Ascending
  <2>2. CASE k \notin DOMAIN accepted
    <3>1. accepted'[k].path = p
      BY <1>4, <1>7, <2>2
    <3>2. j \notin DOMAIN accepted
      BY <1>4, <1>5, <3>1
    <3>3. /\ j - n \in DOMAIN AcceptedIn(p, last) /\ accepted'[j] = AcceptedIn(p, last)[j - n]
          /\ k - n \in DOMAIN AcceptedIn(p, last) /\ accepted'[k] = AcceptedIn(p, last)[k - n]
      BY <1>4, <2>2, <3>2
    <3>4. j - n < k - n
      BY <1>4, <1>5
    <3>5. \A a, b \in DOMAIN AcceptedIn(p, last) : a < b => AcceptedIn(p, last)[a].line < AcceptedIn(p, last)[b].line
      BY <1>2, AcceptedInIs
    <3> QED
      BY <3>3, <3>4, <3>5
  <2> QED
    BY <2>1, <2>2
<1>16. ASSUME NEW q \in Spools, q # p PROVE Fresh(q)' => Fresh(q)
  <2> SUFFICES ASSUME NEW k \in DOMAIN accepted', accepted'[k].path = q,
                      accepted'[k].rotation = rotation[q]
               PROVE  \E m \in DOMAIN accepted : accepted[m].path = q
                                                 /\ accepted[m].rotation = rotation[q]
    BY <1>1, <1>3, <1>16 DEF Fresh
  <2>1. k \in DOMAIN accepted
    BY <1>4, <1>7, <1>16
  <2> QED
    BY <1>4, <2>1
<1>17. CompleteInv'
  <2> SUFFICES ASSUME errors' = {}, NEW q \in Spools, Fresh(q)', NEW i \in DOMAIN spool[q],
                      StartLine(q) < i, i <= counted'[q]
               PROVE  /\ Accepted(spool[q][i]) =>
                            \E k \in DOMAIN accepted' : accepted'[k] = RecordId(q, i)
                      /\ ~Refused(Strict, spool[q][i])
    BY <1>1, <1>9 DEF CompleteInv
  <2>1. errors = {} /\ ErrorsIn(p, last) = {} /\ last = Len(spool[p]) /\ ~RaisesIn(p, last)
    BY <1>1
  <2>2. CASE q = p
    <3>1. i \in Unread(p, last)
      BY <1>6, <1>8, <2>2 DEF Unread
    <3>2. ~RejectedWith(Strict, spool[p][i]) /\ spool[p][i].form # "raising"
      BY <2>1, <3>1 DEF ErrorsIn, RaisesIn
    <3> QED
      BY <1>4, <2>2, <3>1, <3>2 DEF Refused
  <2>3. CASE q # p
    <3>1. Fresh(q) /\ counted'[q] = counted[q]
      BY <1>8, <1>16, <2>3
    <3>2. /\ Accepted(spool[q][i]) => \E k \in DOMAIN accepted : accepted[k] = RecordId(q, i)
          /\ ~Refused(Strict, spool[q][i])
      BY <1>9, <2>1, <3>1 DEF RunInv, CompleteInv
    <3> QED
      BY <1>4, <3>2
  <2> QED
    BY <2>2, <2>3
<1>18. CountInv'
  <2> SUFFICES ASSUME NEW q \in Spools
               PROVE  /\ Fresh(q)' => counted'[q] <= Len(spool[q])
                      /\ setting.rotations = 0 => /\ checkpoint.lines[q] <= Len(spool[q])
                                                  /\ counted'[q] <= Len(spool[q])
    BY <1>1 DEF CountInv
  <2>1. CASE q = p
    BY <1>6, <1>8, <2>1 DEF RunInv, CountInv
  <2>2. CASE q # p
    BY <1>8, <1>16, <2>2 DEF RunInv, CountInv
  <2> QED
    BY <2>1, <2>2
<1>19. LeftInv' /\ LeavesInOrder'
  <2>1. 1 .. sent' = {}
    BY <1>1, <1>5
  <2> QED
    BY <1>1, <1>9, <2>1 DEF RunInv, LeftInv, LeavesInOrder, Left
<1>20. CoverInv'
  BY <1>1, <1>9 DEF RunInv, CoverInv, Covered, Left
<1>21. RetryInv'
  <2> SUFFICES ASSUME Resume, NEW q \in Spools, NEW i \in DOMAIN spool[q]
               PROVE  LET m == emitted[q][i] IN
                      /\ m <= 1 + faults'
                      /\ StartLine(q) < i => m <= faults'
                      /\ errors' = {} /\ Read(q)' /\ counted'[q] < i => m <= faults'
                      /\ Outstanding(q, i)' => m <= faults'
    BY <1>1, <1>9 DEF RetryInv
  <2>1. /\ emitted[q][i] <= 1 + faults
        /\ StartLine(q) < i => emitted[q][i] <= faults
        /\ errors = {} /\ Read(q) /\ counted[q] < i => emitted[q][i] <= faults
    BY <1>1 DEF RunInv, RetryInv
  <2>2. errors' = {} /\ Read(q)' /\ counted'[q] < i => emitted[q][i] <= faults
    <3>1. CASE q = p /\ errors' = {}
      <4>1. ~(counted'[q] < i)
        BY <1>1, <1>6, <1>8, <3>1
      <4> QED
        BY <4>1
    <3>2. CASE q # p
      BY <1>1, <1>3, <1>8, <2>1, <3>2
    <3> QED
      BY <3>1, <3>2
  <2>3. Outstanding(q, i)' => StartLine(q) < i
    <3> SUFFICES ASSUME NEW k \in DOMAIN accepted', accepted'[k] = RecordId(q, i)
                 PROVE  StartLine(q) < i
      BY <1>9 DEF Outstanding
    <3>1. accepted'[k].path = q /\ accepted'[k].line = i
      BY DEF RecordId
    <3>2. i > StartLine(q)
      BY <1>9, <1>14, <3>1 DEF AcceptedInv
    <3>3. i \in Nat /\ StartLine(q) \in Nat
      <4>1. DOMAIN spool[q] = 1 .. Len(spool[q]) /\ Len(spool[q]) \in Nat
        BY SpoolTypes, LenProperties
      <4> QED
        BY <4>1, SpoolTypes
    <3> QED
      BY <3>2, <3>3
  <2>4. emitted[q][i] \in Nat /\ faults \in Nat /\ faults' \in Nat
    BY AcceptedTypes, SpoolTypes
  <2> QED
    BY <2>1, <2>2, <2>3, <2>4
<1> QED
  BY <1>10, <1>11, <1>12, <1>13, <1>14, <1>15, <1>17, <1>18, <1>19, <1>20, <1>21 DEF RunInv

\* A spool is read to its end, or the operating system refuses to open it or to go on.
LEMMA ReadingKeeps ==
    ASSUME TypeOK, WriterInv, RunInv, NEW p \in Spools,
           ReadSpool(p) \/ SpoolMissing(p) \/ ReadFails(p)
    PROVE  TypeOK' /\ WriterInv' /\ RunInv'
<1>1. /\ faults \in 0 .. setting.faults /\ setting.faults \in Nat
      /\ Len(spool[p]) \in 0 .. Len(spool[p]) /\ 0 \in 0 .. Len(spool[p])
  BY AcceptedTypes, SpoolTypes
<1>2. CASE ReadSpool(p)
  <2>1. ReadLines(p, Len(spool[p]), {}) /\ faults' = faults /\ p \notin setting.missing
    BY <1>2 DEF ReadSpool
  <2> QED
    BY <1>1, <2>1, ReadLinesKeeps
<1>3. CASE SpoolMissing(p)
  <2>1. ReadLines(p, 0, {FileError(p)}) /\ faults' = faults
    BY <1>3 DEF SpoolMissing
  <2> QED
    BY <1>1, <2>1, ReadLinesKeeps
<1>4. CASE ReadFails(p)
  <2>1. PICK n \in 0 .. Len(spool[p]) : ReadLines(p, n, {FileError(p)})
    BY <1>4 DEF ReadFails
  <2>2. faults' \in 0 .. setting.faults /\ faults <= faults'
    BY <1>1, <1>4 DEF ReadFails
  <2> QED
    BY <2>1, <2>2, ReadLinesKeeps
<1> QED
  BY <1>2, <1>3, <1>4

-------------------------------------------------------------------------------
(* A run prints its records and rewrites the checkpoint.                     *)

\* A batch is printed: it leaves at once or stays in the buffer.
LEMMA EmitBatchKeeps ==
    ASSUME TypeOK, WriterInv, RunInv, EmitBatch
    PROVE  TypeOK' /\ WriterInv' /\ RunInv'
<1> DEFINE end == BatchEnd(sent)
           ids == SubSeq(accepted, sent + 1, end)
           D(p, i) == \E k \in DOMAIN accepted : sent < k /\ k <= end /\ accepted[k] = RecordId(p, i)
<1>1. /\ setting' = setting /\ spool' = spool /\ writing' = writing /\ rotation' = rotation
      /\ checkpoint' = checkpoint /\ at' = at /\ accepted' = accepted /\ errors' = errors
      /\ counted' = counted /\ report' = report /\ faults' = faults /\ runs' = runs
      /\ pc' = pc /\ pc = "emitting" /\ sent < Len(accepted) /\ sent' = end
      /\ setting.unbuffered => emitted' = Delivered(ids) /\ buffered' = buffered
      /\ ~setting.unbuffered => emitted' = emitted /\ buffered' = buffered \o ids
  BY SettingTypes DEF EmitBatch, daemonVars, TypeOK
<1>2. /\ end \in 0 .. Len(accepted) /\ sent < end
      /\ ids \in Seq(RecordIds) /\ Len(ids) = end - sent
      /\ \A k \in 1 .. end - sent : ids[k] = accepted[sent + k]
      /\ \A p, i : (\E k \in DOMAIN ids : ids[k] = RecordId(p, i)) <=> D(p, i)
  BY <1>1, BatchIs
<1>3. /\ \A q : Read(q)' <=> Read(q)
      /\ \A q : StartLine(q)' = StartLine(q)
      /\ \A q, i : RecordId(q, i)' = RecordId(q, i)
      /\ \A q : Fresh(q)' <=> Fresh(q)
      /\ BeforeCheckpoint' <=> BeforeCheckpoint
      /\ Strict' = Strict /\ (Resume' <=> Resume)
  BY <1>1 DEF Read, StartLine, RecordId, Fresh, BeforeCheckpoint, Strict, Resume
<1> HIDE DEF end, ids, D
<1>4. /\ Len(accepted) \in Nat /\ DOMAIN accepted = 1 .. Len(accepted) /\ sent \in Nat
      /\ sent \in 0 .. Len(accepted) /\ end \in Nat /\ end <= Len(accepted)
      /\ \A k \in DOMAIN accepted : accepted[k].path \in Spools
      /\ faults \in Nat /\ setting.unbuffered \in BOOLEAN
  <2>1. setting.unbuffered \in BOOLEAN
    BY SettingTypes DEF TypeOK
  <2>2. /\ Len(accepted) \in Nat /\ DOMAIN accepted = 1 .. Len(accepted) /\ sent \in 0 .. Len(accepted)
        /\ \A k \in DOMAIN accepted : accepted[k].path \in Spools
        /\ faults \in Nat
    BY AcceptedTypes
  <2> QED
    BY <1>2, <2>1, <2>2
<1>5. errors = {}
  BY <1>1 DEF RunInv, PhaseInv
<1>6. WriterInv'
  BY <1>1 DEF WriterInv, Unfinished
<1>7. PhaseInv' /\ AcceptedInv' /\ Ascending' /\ CompleteInv' /\ CountInv'
  <2>1. PhaseInv'
    BY <1>1 DEF RunInv, PhaseInv, Idle
  <2>2. AcceptedInv' /\ Ascending'
    BY <1>1, <1>3 DEF RunInv, AcceptedInv, Ascending
  <2>3. CompleteInv' /\ CountInv'
    BY <1>1, <1>3 DEF RunInv, CompleteInv, CountInv
  <2> QED
    BY <2>1, <2>2, <2>3
<1>8. sent' \in 0 .. Len(accepted')
  BY <1>1, <1>2
<1>9. CASE setting.unbuffered
  <2>1. /\ emitted' \in [Spools -> Seq(Nat)]
        /\ \A p \in Spools :
              /\ Len(emitted'[p]) = Len(spool[p])
              /\ \A i \in DOMAIN spool[p] :
                    emitted'[p][i] = IF D(p, i) THEN emitted[p][i] + 1 ELSE emitted[p][i]
    <3>1. emitted' = Delivered(ids)
      BY <1>1, <1>9
    <3>2. /\ Delivered(ids) \in [Spools -> Seq(Nat)]
          /\ \A p \in Spools :
                /\ Len(Delivered(ids)[p]) = Len(spool[p])
                /\ \A i \in DOMAIN spool[p] :
                      Delivered(ids)[p][i] = IF \E k \in DOMAIN ids : ids[k] = RecordId(p, i)
                                             THEN emitted[p][i] + 1 ELSE emitted[p][i]
      BY DeliveredIs
    <3> QED
      BY <1>2, <3>1, <3>2
  <2>2. TypeOK'
    BY <1>1, <1>8, <1>9, <2>1 DEF TypeOK, RecordIds, ErrorIds
  <2>3. /\ LeavesInOrder'
        /\ \A p \in Spools : \A i \in DOMAIN spool[p] : Left(p, i)' => Accepted(spool[p][i])
        /\ \A p \in Spools : \A i \in DOMAIN spool[p] : Left(p, i) => Left(p, i)'
        /\ \A k \in DOMAIN accepted :
              k <= end /\ accepted[k].rotation = rotation[accepted[k].path]
                  => emitted'[accepted[k].path][accepted[k].line] > 0
    <3>1. \A k \in DOMAIN accepted :
             k <= sent /\ accepted[k].rotation = rotation[accepted[k].path]
                 => Left(accepted[k].path, accepted[k].line)
      BY <1>4, <1>9 DEF RunInv, LeftInv
    <3>2. UNCHANGED <<setting, spool, rotation>>
      BY <1>1
    <3>3. \A p \in Spools : \A i \in DOMAIN spool[p] :
             emitted'[p][i] = IF \E k \in DOMAIN accepted :
                                    sent < k /\ k <= end /\ accepted[k] = RecordId(p, i)
                              THEN emitted[p][i] + 1 ELSE emitted[p][i]
      BY <2>1 DEF D
    <3> QED
      BY <1>1, <1>4, <1>5, <3>1, <3>2, <3>3, DeliveryKeepsOrder
  <2>4. BufferInv'
    BY <1>1, <1>9 DEF RunInv, BufferInv
  <2>5. LeftInv'
    <3>1. \A k \in 1 .. end : k \in DOMAIN accepted /\ k <= end
      BY <1>4
    <3> QED
      BY <1>1, <2>3, <3>1 DEF LeftInv, Left
  <2>6. CoverInv'
    BY <1>1, <1>3, <2>3 DEF RunInv, CoverInv, Covered
  <2>7. RetryInv'
    <3> SUFFICES ASSUME Resume, NEW q \in Spools, NEW i \in DOMAIN spool[q]
                 PROVE  LET m == emitted'[q][i] IN
                        /\ m <= 1 + faults
                        /\ errors = {} /\ Read(q) /\ counted[q] < i => m <= faults
                        /\ Outstanding(q, i)' => m <= faults
      BY <1>1, <1>3 DEF RetryInv, Idle
    <3>1. /\ emitted[q][i] <= 1 + faults
          /\ errors = {} /\ Read(q) /\ counted[q] < i => emitted[q][i] <= faults
          /\ Outstanding(q, i) => emitted[q][i] <= faults
      BY <1>1 DEF RunInv, RetryInv
    <3>2. emitted[q][i] \in Nat
      BY SpoolTypes
    <3>3. CASE ~D(q, i)
      <4>1. emitted'[q][i] = emitted[q][i]
        BY <2>1, <3>3
      <4>2. Outstanding(q, i)' => Outstanding(q, i)
        BY <1>1, <1>2, <1>3, <1>4 DEF Outstanding
      <4> QED
        BY <3>1, <4>1, <4>2
    <3>4. CASE D(q, i)
      <4>1. PICK k \in DOMAIN accepted : sent < k /\ k <= end /\ accepted[k] = RecordId(q, i)
        BY <3>4 DEF D
      <4>2. emitted'[q][i] = emitted[q][i] + 1
        BY <2>1, <3>4
      <4>3. emitted'[q][i] <= 1 + faults
        <5>1. Outstanding(q, i)
          BY <4>1 DEF Outstanding
        <5> QED
          BY <1>4, <3>1, <3>2, <4>2, <5>1
      <4>4. accepted[k].path = q /\ accepted[k].line = i /\ accepted[k].rotation = rotation[q]
        BY <4>1 DEF RecordId
      <4>5. ~(counted[q] < i)
        <5>1. i <= counted[q]
          BY <4>4 DEF RunInv, AcceptedInv
        <5>2. counted[q] \in 0 .. MaxLines /\ MaxLines \in Nat
          BY ForwarderAssumption DEF TypeOK
        <5>3. DOMAIN spool[q] = 1 .. Len(spool[q]) /\ Len(spool[q]) \in Nat
          BY SpoolTypes, LenProperties
        <5> QED
          BY <5>1, <5>2, <5>3
      <4>6. ~Outstanding(q, i)'
        <5> SUFFICES ASSUME NEW m \in DOMAIN accepted, end < m, accepted[m] = RecordId(q, i)
                     PROVE  FALSE
          BY <1>1, <1>3, <1>9 DEF Outstanding
        <5>1. k < m /\ accepted[k].path = accepted[m].path /\ accepted[k].line = accepted[m].line
          BY <1>4, <4>1
        <5>2. accepted[k].line < accepted[m].line
          BY <5>1 DEF RunInv, Ascending
        <5>3. accepted[k].line \in Nat
          BY AcceptedTypes
        <5> QED
          BY <5>1, <5>2, <5>3
      <4> QED
        BY <4>3, <4>5, <4>6
    <3> QED
      BY <3>3, <3>4
  <2> QED
    BY <1>6, <1>7, <2>2, <2>3, <2>4, <2>5, <2>6, <2>7 DEF RunInv
<1>10. CASE ~setting.unbuffered
  <2>1. buffered \in Seq(RecordIds) /\ Len(buffered) = sent
        /\ \A k \in 1 .. sent : buffered[k] = accepted[k]
    BY <1>10 DEF RunInv, BufferInv, TypeOK
  <2>2. buffered' = buffered \o ids /\ emitted' = emitted
    BY <1>1, <1>10
  <2>3. /\ buffered' \in Seq(RecordIds) /\ Len(buffered') = sent + (end - sent)
        /\ \A k \in 1 .. sent + (end - sent) :
              buffered'[k] = IF k <= sent THEN buffered[k] ELSE ids[k - sent]
    <3>1. ids \in Seq(RecordIds) /\ Len(ids) = end - sent
      BY <1>2
    <3> HIDE DEF ids
    <3>2. /\ buffered \o ids \in Seq(RecordIds)
          /\ Len(buffered \o ids) = Len(buffered) + Len(ids)
          /\ \A k \in 1 .. Len(buffered) + Len(ids) :
                (buffered \o ids)[k] = IF k <= Len(buffered) THEN buffered[k]
                                       ELSE ids[k - Len(buffered)]
      BY <2>1, <3>1, ConcatProperties, Zenon
    <3> QED
      BY <2>1, <2>2, <3>1, <3>2, Zenon
  <2>4. TypeOK'
    BY <1>1, <1>8, <2>2, <2>3 DEF TypeOK, RecordIds, ErrorIds
  <2>5. BufferInv'
    <3>1. sent + (end - sent) = end
      BY <1>4
    <3>2. ASSUME NEW k \in 1 .. end PROVE buffered'[k] = accepted[k]
      <4>1. CASE k <= sent
        BY <1>4, <2>1, <2>3, <3>1, <4>1
      <4>2. CASE ~(k <= sent)
        <5>1. k - sent \in 1 .. end - sent /\ sent + (k - sent) = k
          BY <1>4, <4>2
        <5> QED
          BY <1>2, <2>3, <3>1, <4>2, <5>1
      <4> QED
        BY <4>1, <4>2
    <3> QED
      BY <1>1, <1>10, <2>3, <3>1, <3>2 DEF BufferInv
  <2>6. LeftInv' /\ LeavesInOrder'
    BY <1>1, <1>3, <1>10, <2>2 DEF RunInv, LeftInv, LeavesInOrder, Left
  <2>7. CoverInv'
    BY <1>1, <1>10 DEF CoverInv
  <2>8. RetryInv'
    <3>1. \A q, i : Outstanding(q, i)' <=> Outstanding(q, i)
      BY <1>1, <1>3, <1>10 DEF Outstanding
    <3> QED
      BY <1>1, <1>3, <2>2, <3>1 DEF RunInv, RetryInv
  <2> QED
    BY <1>6, <1>7, <2>4, <2>5, <2>6, <2>7, <2>8 DEF RunInv
<1> QED
  BY <1>4, <1>9, <1>10

\* When every spool was read, none refused and everything printed has left, the counts of
\* the run cover what they say.
LEMMA CountsCover ==
    ASSUME TypeOK, WriterInv, RunInv, pc = "emitting", sent = Len(accepted),
           setting.unbuffered, setting.rotations = 0, NEW p \in Spools
    PROVE  Covered(p, counted[p])
<1> SUFFICES ASSUME NEW i \in DOMAIN spool[p], i <= counted[p]
             PROVE  (Accepted(spool[p][i]) => Left(p, i)) /\ ~Refused(Strict, spool[p][i])
  BY DEF Covered
<1>1. BeforeCheckpoint /\ errors = {} /\ at = Len(Paths) + 1
  BY DEF BeforeCheckpoint, RunInv, PhaseInv, Idle
<1>2. Fresh(p)
  <2>1. PICK k \in DOMAIN Paths : Paths[k] = p
    BY PathTypes
  <2>2. k < at
    BY <1>1, PathTypes
  <2> QED
    BY <2>1, <2>2 DEF Fresh, Read
<1>3. i \in Nat /\ StartLine(p) \in Nat
  <2>1. DOMAIN spool[p] = 1 .. Len(spool[p]) /\ Len(spool[p]) \in Nat
    BY SpoolTypes, LenProperties
  <2> QED
    BY <2>1, SpoolTypes
<1>4. CASE StartLine(p) < i
  <2>1. /\ Accepted(spool[p][i]) => \E k \in DOMAIN accepted : accepted[k] = RecordId(p, i)
        /\ ~Refused(Strict, spool[p][i])
    BY <1>1, <1>2, <1>4 DEF RunInv, CompleteInv
  <2>2. ASSUME NEW k \in DOMAIN accepted, accepted[k] = RecordId(p, i) PROVE Left(p, i)
    <3>1. accepted[k].path = p /\ accepted[k].line = i /\ accepted[k].rotation = rotation[p]
      BY <2>2 DEF RecordId
    <3>2. k \in 1 .. sent
      BY AcceptedTypes
    <3> QED
      BY <3>1, <3>2 DEF RunInv, LeftInv
  <2> QED
    BY <2>1, <2>2
<1>5. CASE ~(StartLine(p) < i)
  <2>1. i <= StartLine(p)
    BY <1>3, <1>5
  <2>2. checkpoint.state = "written" /\ StartLine(p) = checkpoint.lines[p]
    <3>1. ~(i <= 0)
      BY SpoolTypes
    <3> QED
      BY <2>1, <3>1 DEF StartLine
  <2> QED
    BY <2>1, <2>2 DEF RunInv, CoverInv, Covered
<1> QED
  BY <1>4, <1>5

\* The three ways a run leaves the checkpoint: emptied, rewritten, or given up on.
LEMMA CheckpointKeeps ==
    ASSUME TypeOK, WriterInv, RunInv, TruncateCheckpoint \/ DumpCheckpoint \/ CheckpointFails
    PROVE  TypeOK' /\ WriterInv' /\ RunInv'
<1>1. /\ setting' = setting /\ spool' = spool /\ writing' = writing /\ rotation' = rotation
      /\ at' = at /\ accepted' = accepted /\ errors' = errors /\ counted' = counted
      /\ sent' = sent /\ buffered' = buffered /\ emitted' = emitted /\ report' = report
      /\ runs' = runs
  BY DEF TruncateCheckpoint, DumpCheckpoint, CheckpointFails, daemonVars, runVars
<1>2. /\ faults \in Nat /\ setting.faults \in Nat /\ faults \in 0 .. setting.faults
      /\ \A p \in Spools : \A i \in DOMAIN spool[p] : emitted[p][i] \in Nat
  BY AcceptedTypes, SpoolTypes
<1>3. faults' \in 0 .. setting.faults /\ faults <= faults' /\ faults' \in Nat
  <2>1. faults' = faults \/ (faults < setting.faults /\ faults' = faults + 1)
    BY DEF TruncateCheckpoint, DumpCheckpoint, CheckpointFails
  <2> QED
    BY <1>2, <2>1
<1>4. /\ pc \in {"emitting", "dumping"} /\ pc' \in {"dumping", "exiting"}
      /\ errors = {} /\ at = Len(Paths) + 1 /\ sent = Len(accepted)
      /\ ~BeforeCheckpoint'
  BY DEF TruncateCheckpoint, DumpCheckpoint, CheckpointFails, RunInv, PhaseInv, BeforeCheckpoint, Idle
<1>5. \/ /\ TruncateCheckpoint /\ pc = "emitting" /\ pc' = "dumping"
         /\ checkpoint'.state = "unreadable" /\ checkpoint'.lines = checkpoint.lines
         /\ checkpoint' \in [state : {"absent", "unreadable", "written"}, lines : [Spools -> 0..MaxLines]]
         /\ faults' = faults
      \/ /\ DumpCheckpoint /\ pc = "dumping" /\ pc' = "exiting"
         /\ checkpoint'.state = "written" /\ checkpoint'.lines = counted
         /\ checkpoint' \in [state : {"absent", "unreadable", "written"}, lines : [Spools -> 0..MaxLines]]
         /\ faults' = faults
      \/ /\ CheckpointFails /\ pc' = "exiting" /\ checkpoint' = checkpoint /\ faults' = faults + 1
  BY SMTT(30) DEF TruncateCheckpoint, DumpCheckpoint, CheckpointFails, TypeOK
<1>6. /\ \A q : Read(q)' <=> Read(q)
      /\ \A q, i : RecordId(q, i)' = RecordId(q, i)
      /\ \A q : Fresh(q)' <=> Fresh(q)
      /\ \A q, i : Outstanding(q, i)' <=> Outstanding(q, i)
      /\ \A q, i : Left(q, i)' <=> Left(q, i)
      /\ Strict' = Strict /\ (Resume' <=> Resume)
  BY <1>1 DEF Read, RecordId, Fresh, Outstanding, Left, Strict, Resume
<1>7. TypeOK'
  <2>1. checkpoint' \in [state : {"absent", "unreadable", "written"}, lines : [Spools -> 0..MaxLines]]
    BY <1>5 DEF TypeOK
  <2> QED
    BY <1>1, <1>3, <1>4, <2>1 DEF TypeOK, RecordIds, ErrorIds
<1>8. WriterInv'
  BY <1>1 DEF WriterInv, Unfinished
<1>9. PhaseInv'
  BY <1>1, <1>4, <1>5 DEF RunInv, PhaseInv, Idle, Read
<1>10. BufferInv' /\ Ascending'
  BY <1>1 DEF RunInv, BufferInv, Ascending
<1>11. AcceptedInv'
  BY <1>1, <1>4, <1>6 DEF RunInv, AcceptedInv
<1>12. CompleteInv'
  <2>1. ~Resume => \A q : StartLine(q)' = StartLine(q)
    BY <1>6 DEF StartLine
  <2> QED
    BY <1>1, <1>4, <1>6, <2>1 DEF RunInv, CompleteInv
<1>13. CountInv'
  BY <1>1, <1>5, <1>6 DEF RunInv, CountInv
<1>14. LeftInv' /\ LeavesInOrder'
  BY <1>1, <1>6 DEF RunInv, LeftInv, LeavesInOrder
<1>15. CoverInv'
  <2> SUFFICES ASSUME setting.unbuffered, setting.rotations = 0, NEW q \in Spools
               PROVE  /\ checkpoint'.state = "written" => Covered(q, checkpoint'.lines[q])
                      /\ pc' = "dumping" => Covered(q, counted[q])
    BY <1>1, <1>6 DEF CoverInv, Covered
  <2>1. CASE TruncateCheckpoint
    <3>1. pc = "emitting" /\ sent = Len(accepted) /\ checkpoint'.state = "unreadable"
      BY <1>5, <2>1 DEF TruncateCheckpoint, TypeOK
    <3> QED
      BY <3>1, CountsCover
  <2>2. CASE DumpCheckpoint
    <3>1. pc = "dumping" /\ pc' = "exiting" /\ checkpoint'.lines = counted
      BY <2>2 DEF DumpCheckpoint
    <3> QED
      BY <3>1 DEF RunInv, CoverInv
  <2>3. CASE CheckpointFails
    <3>1. pc' = "exiting" /\ checkpoint' = checkpoint
      BY <2>3 DEF CheckpointFails
    <3> QED
      BY <3>1 DEF RunInv, CoverInv
  <2> QED
    BY <2>1, <2>2, <2>3
<1>16. RetryInv'
  <2> SUFFICES ASSUME Resume, NEW q \in Spools, NEW i \in DOMAIN spool[q]
               PROVE  LET n == emitted[q][i] IN
                      /\ n <= 1 + faults'
                      /\ pc' = "exiting" /\ StartLine(q)' < i => n <= faults'
                      /\ pc' = "dumping" /\ Read(q) /\ counted[q] < i => n <= faults'
                      /\ Outstanding(q, i) => n <= faults'
                      /\ pc' = "exiting" /\ Outstanding(q, i) /\ StartLine(q)' < i => n < faults'
    BY <1>1, <1>4, <1>6 DEF RetryInv, Idle
  <2>1. /\ emitted[q][i] <= 1 + faults /\ emitted[q][i] \in Nat
        /\ Read(q) /\ counted[q] < i => emitted[q][i] <= faults
        /\ Outstanding(q, i) => emitted[q][i] <= faults
    BY <1>2, <1>4 DEF RunInv, RetryInv
  <2>2. CASE TruncateCheckpoint
    <3>1. pc' = "dumping" /\ faults' = faults
      BY <2>2 DEF TruncateCheckpoint
    <3> QED
      BY <2>1, <3>1
  <2>3. CASE DumpCheckpoint
    <3>1. pc' = "exiting" /\ faults' = faults /\ StartLine(q)' = counted[q]
      <4>1. Resume' /\ checkpoint'.state = "written" /\ checkpoint'.lines = counted
        BY <1>6, <2>3 DEF DumpCheckpoint
      <4> QED
        BY <2>3, <4>1 DEF DumpCheckpoint, StartLine
    <3>2. Read(q)
      <4>1. PICK k \in DOMAIN Paths : Paths[k] = q
        BY PathTypes
      <4>2. k < at
        BY <1>4, PathTypes
      <4> QED
        BY <4>1, <4>2 DEF Read
    <3>3. Outstanding(q, i) => ~(counted[q] < i)
      <4> SUFFICES ASSUME NEW k \in DOMAIN accepted, accepted[k] = RecordId(q, i)
                   PROVE  ~(counted[q] < i)
        BY DEF Outstanding
      <4>1. accepted[k].path = q /\ accepted[k].line = i /\ accepted[k].rotation = rotation[q]
        BY DEF RecordId
      <4>2. i <= counted[q]
        BY <4>1 DEF RunInv, AcceptedInv
      <4>3. counted[q] \in 0 .. MaxLines /\ MaxLines \in Nat
        BY ForwarderAssumption DEF TypeOK
      <4>4. DOMAIN spool[q] = 1 .. Len(spool[q]) /\ Len(spool[q]) \in Nat
        BY SpoolTypes, LenProperties
      <4> QED
        BY <4>2, <4>3, <4>4
    <3> QED
      BY <2>1, <3>1, <3>2, <3>3
  <2>4. CASE CheckpointFails
    <3>1. faults' = faults + 1
      BY <2>4 DEF CheckpointFails
    <3>2. emitted[q][i] <= faults' /\ emitted[q][i] <= 1 + faults'
          /\ (Outstanding(q, i) => emitted[q][i] < faults')
      BY <1>2, <2>1, <3>1
    <3> QED
      BY <3>2
  <2> QED
    BY <2>2, <2>3, <2>4
<1> QED
  BY <1>7, <1>8, <1>9, <1>10, <1>11, <1>12, <1>13, <1>14, <1>15, <1>16 DEF RunInv

-------------------------------------------------------------------------------
(* The invariant is inductive.                                               *)

\* It holds before the first record is written.
LEMMA InitInv == Init => IInv
<1> SUFFICES ASSUME Init PROVE IInv
  OBVIOUS
<1>1. /\ setting \in Settings /\ spool = [p \in Spools |-> <<>>]
      /\ writing = [p \in Spools |-> Nothing] /\ rotation = [p \in Spools |-> 0]
      /\ checkpoint = [state |-> "absent", lines |-> [p \in Spools |-> 0]]
      /\ pc = Idle /\ at = 1 /\ accepted = <<>> /\ errors = {} /\ sent = 0 /\ buffered = <<>>
      /\ counted = [p \in Spools |-> 0] /\ emitted = [p \in Spools |-> <<>>]
      /\ report = {} /\ runs = 0 /\ faults = 0
  BY DEF Init
<1>2. /\ MaxRotations \in Nat /\ MaxLines \in Nat /\ setting.runs \in Nat
      /\ setting.faults \in Nat /\ setting.rotations \in Nat
      /\ \A p \in Spools : setting.lines[p] \in Nat
      /\ \A n \in Nat : 0 \in 0 .. n /\ 0 <= n
  <2>1. /\ setting.faults \in 0 .. MaxFaults /\ MaxFaults \in Nat
        /\ setting.rotations \in 0 .. MaxRotations /\ MaxRotations \in Nat /\ MaxLines \in Nat
        /\ setting.runs \in Nat /\ \A p \in Spools : setting.lines[p] \in Nat
    BY <1>1, SettingTypes
  <2> QED
    BY <2>1
<1>3. DOMAIN accepted = {} /\ Len(accepted) = 0 /\ 1 .. sent = {} /\ Len(buffered) = 0
  BY <1>1
<1>4. \A p \in Spools : spool[p] = <<>> /\ emitted[p] = <<>> /\ DOMAIN spool[p] = {} /\ Len(spool[p]) = 0
  BY <1>1
<1>5. /\ \A p : ~Read(p)
      /\ \A p, i : ~Outstanding(p, i)
  BY <1>1, <1>3, PathTypes DEF Read, Outstanding
<1>6. TypeOK
  <2>1. spool \in [Spools -> Seq(LineTypes)] /\ emitted \in [Spools -> Seq(Nat)]
        /\ writing \in [Spools -> LineTypes \cup {Nothing}]
    BY <1>1
  <2>2. /\ rotation \in [Spools -> 0 .. MaxRotations] /\ counted \in [Spools -> 0 .. MaxLines]
        /\ checkpoint \in [state : {"absent", "unreadable", "written"}, lines : [Spools -> 0..MaxLines]]
    BY <1>1, <1>2
  <2>3. /\ accepted \in Seq(RecordIds) /\ buffered \in Seq(RecordIds) /\ at \in 1 .. Len(Paths) + 1
        /\ sent \in 0 .. Len(accepted)
    BY <1>1, <1>3, PathTypes
  <2>4. runs \in 0 .. setting.runs /\ faults \in 0 .. setting.faults
    BY <1>1, <1>2
  <2>5. \A p \in Spools : Len(emitted[p]) = Len(spool[p])
    BY <1>1
  <2> QED
    BY <1>1, <2>1, <2>2, <2>3, <2>4, <2>5 DEF TypeOK
<1>7. WriterInv
  BY <1>1, <1>2, <1>4 DEF WriterInv
<1>8. PhaseInv /\ BufferInv
  BY <1>1, <1>3, <1>5 DEF PhaseInv, BufferInv, Idle
<1>9. AcceptedInv /\ Ascending /\ CompleteInv
  BY <1>3, <1>5 DEF AcceptedInv, Ascending, CompleteInv, Fresh
<1>10. CountInv
  <2>1. \A p \in Spools : checkpoint.lines[p] = 0 /\ counted[p] = 0 /\ 0 <= Len(spool[p])
    BY <1>1, <1>4
  <2> QED
    BY <2>1 DEF CountInv
<1>11. LeftInv /\ LeavesInOrder /\ RetryInv
  BY <1>3, <1>4 DEF LeftInv, LeavesInOrder, RetryInv
<1>12. CoverInv
  BY <1>1 DEF CoverInv, Idle
<1> QED
  BY <1>6, <1>7, <1>8, <1>9, <1>10, <1>11, <1>12 DEF IInv

\* Every step of a writer and of the forwarder keeps it.
LEMMA StepInv == IInv /\ [Next]_vars => IInv'
<1> SUFFICES ASSUME IInv, [Next]_vars PROVE IInv'
  OBVIOUS
<1>1. TypeOK /\ WriterInv /\ RunInv
  BY DEF IInv, RunInv
<1> SUFFICES TypeOK' /\ WriterInv' /\ RunInv'
  BY DEF IInv, RunInv
<1>2. CASE Start
  BY <1>1, <1>2, StartKeeps
<1>3. ASSUME NEW p \in Spools, ReadSpool(p) \/ SpoolMissing(p) \/ ReadFails(p)
      PROVE  TypeOK' /\ WriterInv' /\ RunInv'
  BY <1>1, <1>3, ReadingKeeps
<1>4. CASE Quarantine \/ ForwarderKilled \/ \E p \in Spools : LineRaises(p)
  BY <1>1, <1>4, NothingLeaves
<1>5. CASE EmitBatch
  BY <1>1, <1>5, EmitBatchKeeps
<1>6. CASE TruncateCheckpoint \/ DumpCheckpoint \/ CheckpointFails
  BY <1>1, <1>6, CheckpointKeeps
<1>7. CASE Exit
  BY <1>1, <1>7, ExitKeeps
<1>8. ASSUME NEW p \in Spools, Writer(p) PROVE TypeOK' /\ WriterInv' /\ RunInv'
  <2>1. CASE Rotate(p)
    BY <1>1, <2>1, RotateKeeps
  <2>2. CASE ~Rotate(p)
    <3>1. setting.written \subseteq LineTypes
      BY <1>1, SettingTypes DEF TypeOK
    <3>2. Torn \in LineTypes
      BY DEF Torn, LineTypes, Forms
    <3>3. PICK line \in LineTypes :
             WriteRecord(p, line) \/ BeginRecord(p, line) \/ FinishRecord(p) \/ WriterKilled(p)
      BY <1>8, <2>2, <3>1, <3>2 DEF Writer
    <3>4. LinesGrow(p) /\ ForwarderAlone /\ WriterInv' /\ TypeOK' /\ faults <= faults'
      BY <1>1, <3>3, WriteGrows
    <3> QED
      BY <1>1, <3>4, WriterKeeps
  <2> QED
    BY <2>1, <2>2
<1>9. CASE UNCHANGED vars
  <2>1. /\ setting' = setting /\ spool' = spool /\ writing' = writing /\ rotation' = rotation
        /\ checkpoint' = checkpoint /\ pc' = pc /\ at' = at /\ accepted' = accepted
        /\ errors' = errors /\ counted' = counted /\ sent' = sent /\ buffered' = buffered
        /\ emitted' = emitted /\ report' = report /\ runs' = runs /\ faults' = faults
    BY <1>9 DEF vars
  <2>2. TypeOK' /\ WriterInv'
    BY <1>1, <2>1 DEF TypeOK, WriterInv, Unfinished, RecordIds, ErrorIds
  <2>3. PhaseInv' /\ BufferInv' /\ Ascending'
    BY <1>1, <2>1 DEF RunInv, PhaseInv, Read, BufferInv, Ascending
  <2>4. /\ \A q : Read(q)' <=> Read(q)
        /\ \A q : StartLine(q)' = StartLine(q)
        /\ \A q, i : RecordId(q, i)' = RecordId(q, i)
        /\ \A q : Fresh(q)' <=> Fresh(q)
        /\ BeforeCheckpoint' <=> BeforeCheckpoint
        /\ \A q, i : Outstanding(q, i)' <=> Outstanding(q, i)
        /\ \A q, i : Left(q, i)' <=> Left(q, i)
        /\ Strict' = Strict /\ (Resume' <=> Resume)
    BY <2>1 DEF Read, StartLine, RecordId, Fresh, BeforeCheckpoint, Outstanding, Left, Strict, Resume
  <2>5. AcceptedInv' /\ CompleteInv' /\ CountInv'
    BY <1>1, <2>1, <2>4 DEF RunInv, AcceptedInv, CompleteInv, CountInv
  <2>6. LeftInv' /\ LeavesInOrder' /\ CoverInv'
    BY <1>1, <2>1, <2>4 DEF RunInv, LeftInv, LeavesInOrder, CoverInv, Covered
  <2>7. RetryInv'
    BY <1>1, <2>1, <2>4 DEF RunInv, RetryInv
  <2> QED
    BY <2>2, <2>3, <2>5, <2>6, <2>7 DEF RunInv
<1> QED
  BY <1>2, <1>3, <1>4, <1>5, <1>6, <1>7, <1>8, <1>9 DEF Next, Forwarder, Reading

-------------------------------------------------------------------------------
(* The theorems.                                                             *)

\* Every reachable state satisfies the inductive invariant, whatever is killed, fails, is
\* rotated or is read half written.
THEOREM Invariant == Spec => []IInv
<1> QED
  BY InitInv, StepInv, PTL DEF Spec

\* Every variable keeps its shape: no checkpoint counts more lines than a spool can have.
THEOREM TypeCorrect == Spec => []TypeOK
<1>1. IInv => TypeOK
  BY DEF IInv
<1> QED
  BY <1>1, Invariant, PTL

\* With an unbuffered output and no rotation, whatever lies below the lines a checkpoint
\* records needs no submission any more (write_checkpoint and --resume).
THEOREM CheckpointTrue == Spec => []CheckpointCovers
<1>1. IInv => CheckpointCovers
  BY DEF IInv, CoverInv, Covered, CheckpointCovers
<1> QED
  BY <1>1, Invariant, PTL

\* Records leave a spool in its order and without a gap, and none leaves past a refused line.
THEOREM OrderKept == Spec => []LeavesInOrder
<1>1. IInv => LeavesInOrder
  BY DEF IInv
<1> QED
  BY <1>1, Invariant, PTL

\* A record leaves at most once more than there were kills and failed writes.
THEOREM RetriesCounted == Spec => []RetriesBounded
<1>1. IInv => RetriesBounded
  BY DEF IInv, RetryInv, RetriesBounded
<1> QED
  BY <1>1, Invariant, PTL
===============================================================================
