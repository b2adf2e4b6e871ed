--------------------------- MODULE HostAgentProofs ----------------------------
(***************************************************************************)
(* From the system call to the output, for every set of processes, calls,  *)
(* policies and sizes, and every interleaving of calls, exits and polls.   *)
(***************************************************************************)
EXTENDS HostAgent, DetectionProofs, FlowTableProofs, FiniteSetTheorems, SequenceTheorems, TLAPS

-------------------------------------------------------------------------------
(* Sequences.                                                                *)

\* A sequence of anything.
IsSeq(s) == s \in Seq({s[i] : i \in DOMAIN s})

\* The ids of the records of a sequence.
IdsOf(s) == [i \in DOMAIN s |-> s[i].id]

\* A sequence is known by its length and its elements.
LEMMA SeqIs ==
    ASSUME NEW s, IsSeq(s)
    PROVE  Len(s) \in Nat /\ DOMAIN s = 1 .. Len(s)
BY LenProperties DEF IsSeq

\* A sequence of a set is a sequence.
LEMMA TypedIsSeq ==
    ASSUME NEW S, NEW s \in Seq(S)
    PROVE  IsSeq(s)
<1>1. Len(s) \in Nat /\ DOMAIN s = 1 .. Len(s) /\ s = [i \in 1 .. Len(s) |-> s[i]]
  BY LenProperties
<1>2. \A i \in 1 .. Len(s) : s[i] \in {s[k] : k \in DOMAIN s}
  BY <1>1
<1> QED
  BY <1>1, <1>2 DEF IsSeq

\* Appending to a sequence.
LEMMA AppendIs ==
    ASSUME NEW s, NEW x, IsSeq(s)
    PROVE  /\ IsSeq(Append(s, x))
           /\ Len(Append(s, x)) = Len(s) + 1
           /\ Append(s, x)[Len(s) + 1] = x
           /\ \A i \in 1 .. Len(s) : Append(s, x)[i] = s[i]
<1> DEFINE S == {s[i] : i \in DOMAIN s} \cup {x}
<1>1. s \in Seq(S)
  <2>1. Len(s) \in Nat /\ DOMAIN s = 1 .. Len(s)
    BY SeqIs
  <2>2. s = [i \in 1 .. Len(s) |-> s[i]]
    BY <2>1, LenProperties DEF IsSeq
  <2>3. \A i \in 1 .. Len(s) : s[i] \in S
    BY <2>1
  <2> QED
    BY <2>1, <2>2, <2>3
<1>2. x \in S
  OBVIOUS
<1> HIDE DEF S
<1>3. /\ Append(s, x) \in Seq(S)
      /\ Len(Append(s, x)) = Len(s) + 1
      /\ Append(s, x)[Len(s) + 1] = x
      /\ \A i \in 1 .. Len(s) : Append(s, x)[i] = s[i]
  BY <1>1, <1>2, AppendProperties
<1> QED
  BY <1>3, TypedIsSeq

\* ring_buffer__poll takes the first record of the ring.
LEMMA TakenFirst ==
    ASSUME NEW S, NEW s \in Seq(S), s # <<>>
    PROVE  /\ RemoveAt(s, 1) \in Seq(S)
           /\ Len(s) \in Nat \ {0}
           /\ Len(RemoveAt(s, 1)) = Len(s) - 1
           /\ \A i \in 1 .. Len(s) - 1 : RemoveAt(s, 1)[i] = s[i + 1]
<1>1. Len(s) \in Nat \ {0} /\ DOMAIN s = 1 .. Len(s)
  BY LenProperties, EmptySeq
<1> DEFINE a == SubSeq(s, 1, 1 - 1)
           b == SubSeq(s, 1 + 1, Len(s))
<1>2. a = <<>>
  BY <1>1, SubSeqEmpty
<1>3. /\ b \in Seq(S) /\ Len(b) = Len(s) - 1
      /\ \A i \in 1 .. Len(s) - 1 : b[i] = s[i + 1]
  <2>1. \A i \in 2 .. Len(s) : s[i] \in S
    BY <1>1
  <2>2. /\ b \in Seq(S)
        /\ Len(b) = IF 2 <= Len(s) THEN Len(s) - 2 + 1 ELSE 0
        /\ \A i \in 1 .. Len(s) - 2 + 1 : b[i] = s[2 + i - 1]
    BY <1>1, SubSeqProperties
  <2> QED
    BY <1>1, <2>2
<1>4. RemoveAt(s, 1) = a \o b
  BY DEF RemoveAt
<1>5. RemoveAt(s, 1) = b
  BY <1>2, <1>3, <1>4, ConcatEmptySeq
<1> QED
  BY <1>1, <1>3, <1>5

-------------------------------------------------------------------------------
(* The records of the ring and of the history.                               *)

Identities == Pids \X Nat
Records == [id : Identities, e : AllCalls, ready : BOOLEAN, ts : Ts]

\* What the ring holds, and when it was stamped.
RingInv ==
    /\ ring \in Seq(Records)
    /\ \A i \in DOMAIN ring : ring[i].id[1] = ring[i].e.pid /\ ring[i].ts <= now

\* A finding by a rule for events of its kind.
Raised(h) == h.finding.rule \in RulesOf(Policy, h.e) /\ h.finding.severity \in Severities

\* The records handled, and the table they went through.
HistoryInv ==
    /\ IsSeq(handled)
    /\ \A i \in DOMAIN handled :
          /\ handled[i].id \in Identities
          /\ handled[i].e \in AllCalls
          /\ handled[i].ts \in Ts
          /\ handled[i].root \in Pids
          /\ handled[i].root \in {1} \cup Up(handled[i].e.pid)
          /\ Raised(handled[i])

\* The identities of what was handled, and after it of what waits.
Kept(done, waiting) == IdsOf(done) \o IdsOf(waiting)

\* EveryCallAccounted of a sequence of identities, the dropped ones and the counts.
Accounted(kept, gone, count) ==
    /\ \A i, j \in DOMAIN kept : (i < j /\ kept[i][1] = kept[j][1]) => kept[i][2] < kept[j][2]
    /\ ToSet(kept) \cap gone = {}
    /\ ToSet(kept) \cup gone = UNION {{q} \X (1 .. count[q]) : q \in Pids}

\* A process's new call has a number none of its earlier calls has: whether its record
\* finds room or not, the calls stay accounted for.
LEMMA OneMoreCall ==
    ASSUME NEW kept \in Seq(Identities), NEW gone, NEW count \in [Pids -> Nat],
           Accounted(kept, gone, count), NEW q \in Pids
    PROVE  LET id == <<q, count[q] + 1>>
               more == [count EXCEPT ![q] = @ + 1]
           IN Accounted(Append(kept, id), gone, more) /\ Accounted(kept, gone \cup {id}, more)
<1> DEFINE id == <<q, count[q] + 1>>
           more == [count EXCEPT ![q] = @ + 1]
           Calling(m) == UNION {{p} \X (1 .. m[p]) : p \in Pids}
<1>1. /\ Len(kept) \in Nat /\ DOMAIN kept = 1 .. Len(kept)
      /\ \A i \in 1 .. Len(kept) : kept[i] \in Identities
  BY LenProperties
<1>2. /\ id \in Identities /\ id[1] = q /\ id[2] = count[q] + 1 /\ count[q] \in Nat
      /\ more \in [Pids -> Nat] /\ more[q] = count[q] + 1
      /\ \A p \in Pids : p # q => more[p] = count[p]
  BY DEF Identities
<1>3. Calling(more) = Calling(count) \cup {id}
  <2>1. ASSUME NEW x \in Calling(more) PROVE x \in Calling(count) \cup {id}
    <3>a. PICK p \in Pids : x \in {p} \X (1 .. more[p])
      BY <2>1
    <3>1. PICK n \in 1 .. more[p] : x = <<p, n>>
      BY <3>a
    <3>2. CASE p = q
      <4>1. n \in 1 .. count[q] \/ n = count[q] + 1
        BY <1>2, <3>2
      <4> QED
        BY <3>1, <3>2, <4>1
    <3>3. CASE p # q
      BY <1>2, <3>1, <3>3
    <3> QED
      BY <3>2, <3>3
  <2>2. ASSUME NEW x \in Calling(count) PROVE x \in Calling(more)
    <3>a. PICK p \in Pids : x \in {p} \X (1 .. count[p])
      BY <2>2
    <3>1. PICK n \in 1 .. count[p] : x = <<p, n>>
      BY <3>a
    <3>2. n \in 1 .. more[p]
      BY <1>2, <3>1
    <3> QED
      BY <3>1, <3>2
  <2>3. id \in Calling(more)
    <3>1. count[q] + 1 \in 1 .. more[q]
      BY <1>2
    <3> QED
      BY <3>1
  <2> QED
    BY <2>1, <2>2, <2>3
<1>4. id \notin Calling(count)
  <2> SUFFICES ASSUME NEW p \in Pids, id \in {p} \X (1 .. count[p]) PROVE FALSE
    OBVIOUS
  <2>1. p = q /\ count[q] + 1 \in 1 .. count[p]
    OBVIOUS
  <2> QED
    BY <1>2, <2>1
<1>5. /\ ToSet(kept) \cap gone = {} /\ ToSet(kept) \cup gone = Calling(count)
      /\ \A i, j \in DOMAIN kept : (i < j /\ kept[i][1] = kept[j][1]) => kept[i][2] < kept[j][2]
  BY DEF Accounted
<1>6. \A i \in 1 .. Len(kept) : kept[i][1] = q => kept[i][2] < id[2]
  <2> SUFFICES ASSUME NEW i \in 1 .. Len(kept), kept[i][1] = q PROVE kept[i][2] < id[2]
    OBVIOUS
  <2>1. kept[i] \in Calling(count)
    BY <1>1, <1>5 DEF ToSet
  <2>2. PICK p \in Pids : kept[i] \in {p} \X (1 .. count[p])
    BY <2>1
  <2>3. p = q /\ kept[i][2] \in 1 .. count[p]
    BY <2>2
  <2> QED
    BY <1>2, <2>3
<1> HIDE DEF id, more
<1>7. /\ Len(Append(kept, id)) = Len(kept) + 1
      /\ DOMAIN Append(kept, id) = 1 .. Len(kept) + 1
      /\ Append(kept, id)[Len(kept) + 1] = id
      /\ \A i \in 1 .. Len(kept) : Append(kept, id)[i] = kept[i]
  BY <1>1, <1>2, AppendProperties, LenProperties
<1>8. ToSet(Append(kept, id)) = ToSet(kept) \cup {id}
  BY <1>1, <1>7 DEF ToSet
<1>9. ASSUME NEW i \in 1 .. Len(kept) + 1, NEW j \in 1 .. Len(kept) + 1, i < j,
             Append(kept, id)[i][1] = Append(kept, id)[j][1]
      PROVE  Append(kept, id)[i][2] < Append(kept, id)[j][2]
  <2>1. i \in 1 .. Len(kept) /\ Append(kept, id)[i] = kept[i]
    BY <1>1, <1>7, <1>9
  <2>2. CASE j \in 1 .. Len(kept)
    BY <1>1, <1>5, <1>7, <1>9, <2>1, <2>2
  <2>3. CASE j = Len(kept) + 1
    BY <1>2, <1>6, <1>7, <1>9, <2>1, <2>3
  <2> QED
    BY <1>1, <2>2, <2>3
<1> HIDE DEF Calling
<1>10. Accounted(Append(kept, id), gone, more)
  <2>1. ToSet(Append(kept, id)) \cap gone = {}
    BY <1>4, <1>5, <1>8
  <2>2. ToSet(Append(kept, id)) \cup gone = Calling(more)
    BY <1>3, <1>5, <1>8
  <2> QED
    BY <1>7, <1>9, <2>1, <2>2 DEF Accounted, Calling
<1>11. Accounted(kept, gone \cup {id}, more)
  <2>1. ToSet(kept) \cap (gone \cup {id}) = {}
    BY <1>4, <1>5
  <2>2. ToSet(kept) \cup (gone \cup {id}) = Calling(more)
    BY <1>3, <1>5
  <2> QED
    BY <1>5, <2>1, <2>2 DEF Accounted, Calling
<1> QED
  BY <1>10, <1>11 DEF id, more

\* A history of records with identities of calls.
IsHistory(done) == IsSeq(done) /\ \A i \in DOMAIN done : done[i].id \in Identities

\* The identities kept, one by one.
LEMMA KeptIs ==
    ASSUME NEW done, IsHistory(done), NEW waiting \in Seq(Records)
    PROVE  /\ Len(done) \in Nat /\ Len(waiting) \in Nat
           /\ Kept(done, waiting) \in Seq(Identities)
           /\ Len(Kept(done, waiting)) = Len(done) + Len(waiting)
           /\ \A i \in 1 .. Len(done) : Kept(done, waiting)[i] = done[i].id
           /\ \A i \in 1 .. Len(waiting) : Kept(done, waiting)[Len(done) + i] = waiting[i].id
<1>1. Len(done) \in Nat /\ DOMAIN done = 1 .. Len(done)
  BY SeqIs DEF IsHistory
<1>2. Len(waiting) \in Nat /\ DOMAIN waiting = 1 .. Len(waiting)
  BY LenProperties
<1>3. \A i \in 1 .. Len(waiting) : waiting[i].id \in Identities
  <2>1. \A i \in 1 .. Len(waiting) : waiting[i] \in Records
    BY <1>2
  <2> QED
    BY <2>1 DEF Records
<1>4. /\ IdsOf(done) \in Seq(Identities) /\ Len(IdsOf(done)) = Len(done)
      /\ \A i \in 1 .. Len(done) : IdsOf(done)[i] = done[i].id
  BY <1>1 DEF IdsOf, IsHistory
<1>5. /\ IdsOf(waiting) \in Seq(Identities) /\ Len(IdsOf(waiting)) = Len(waiting)
      /\ \A i \in 1 .. Len(waiting) : IdsOf(waiting)[i] = waiting[i].id
  BY <1>2, <1>3 DEF IdsOf
<1> DEFINE a == IdsOf(done)
           b == IdsOf(waiting)
<1>7. Kept(done, waiting) = a \o b
  BY DEF Kept
<1>8. /\ a \in Seq(Identities) /\ Len(a) = Len(done)
      /\ b \in Seq(Identities) /\ Len(b) = Len(waiting)
  BY <1>4, <1>5
<1> HIDE DEF a, b
<1>6. /\ a \o b \in Seq(Identities) /\ Len(a \o b) = Len(a) + Len(b)
      /\ \A i \in 1 .. Len(a) + Len(b) : (a \o b)[i] = IF i <= Len(a) THEN a[i] ELSE b[i - Len(a)]
  BY <1>8, ConcatProperties
<1>9. \A i \in 1 .. Len(done) : Kept(done, waiting)[i] = a[i]
  BY <1>1, <1>2, <1>6, <1>7, <1>8
<1>10. \A i \in 1 .. Len(waiting) : Kept(done, waiting)[Len(done) + i] = b[i]
  <2> SUFFICES ASSUME NEW i \in 1 .. Len(waiting) PROVE (a \o b)[Len(done) + i] = b[i]
    BY <1>7
  <2>1. Len(done) + i \in 1 .. Len(a) + Len(b) /\ ~(Len(done) + i <= Len(a))
        /\ (Len(done) + i) - Len(a) = i
    BY <1>1, <1>2, <1>8
  <2> QED
    BY <1>6, <2>1
<1> QED
  BY <1>1, <1>2, <1>4, <1>5, <1>6, <1>7, <1>8, <1>9, <1>10 DEF a, b

\* A reserved record is kept after all others.
LEMMA EnterKeeps ==
    ASSUME NEW done, IsHistory(done), NEW waiting \in Seq(Records), NEW rec \in Records
    PROVE  Kept(done, Append(waiting, rec)) = Append(Kept(done, waiting), rec.id)
<1> DEFINE more == Append(waiting, rec)
<1>1. /\ more \in Seq(Records) /\ Len(more) = Len(waiting) + 1 /\ more[Len(waiting) + 1] = rec
      /\ \A i \in 1 .. Len(waiting) : more[i] = waiting[i]
  BY AppendProperties
<1> HIDE DEF more
<1> DEFINE k == Kept(done, waiting)
           m == Kept(done, more)
<1>2. /\ Len(done) \in Nat /\ Len(waiting) \in Nat
      /\ k \in Seq(Identities) /\ Len(k) = Len(done) + Len(waiting)
      /\ \A i \in 1 .. Len(done) : k[i] = done[i].id
      /\ \A i \in 1 .. Len(waiting) : k[Len(done) + i] = waiting[i].id
  BY KeptIs
<1>3. /\ m \in Seq(Identities) /\ Len(m) = Len(done) + Len(more)
      /\ \A i \in 1 .. Len(done) : m[i] = done[i].id
      /\ \A i \in 1 .. Len(more) : m[Len(done) + i] = more[i].id
  BY <1>1, KeptIs
<1>4. rec.id \in Identities
  BY DEF Records
<1> HIDE DEF k, m
<1>5. /\ Append(k, rec.id) \in Seq(Identities) /\ Len(Append(k, rec.id)) = Len(k) + 1
      /\ Append(k, rec.id)[Len(k) + 1] = rec.id
      /\ \A i \in 1 .. Len(k) : Append(k, rec.id)[i] = k[i]
  BY <1>2, <1>4, AppendProperties
<1>6. ASSUME NEW i \in 1 .. Len(m) PROVE m[i] = Append(k, rec.id)[i]
  <2>1. CASE i \in 1 .. Len(done)
    <3>1. i \in 1 .. Len(k)
      BY <1>2, <2>1
    <3> QED
      BY <1>2, <1>3, <1>5, <2>1, <3>1
  <2>2. CASE i \notin 1 .. Len(done)
    <3> DEFINE n == i - Len(done)
    <3>1. n \in 1 .. Len(waiting) + 1 /\ i = Len(done) + n
      BY <1>1, <1>2, <1>3, <2>2
    <3> HIDE DEF n
    <3>2. m[i] = more[n].id
      BY <1>1, <1>3, <3>1
    <3>3. CASE n = Len(waiting) + 1
      <4>1. i = Len(k) + 1
        BY <1>2, <3>1, <3>3
      <4> QED
        BY <1>1, <1>5, <3>2, <3>3, <4>1
    <3>4. CASE n # Len(waiting) + 1
      <4>1. n \in 1 .. Len(waiting) /\ i \in 1 .. Len(k)
        BY <1>2, <3>1, <3>4
      <4>2. k[i] = waiting[n].id
        BY <1>2, <3>1, <4>1
      <4> QED
        BY <1>1, <1>5, <3>2, <4>1, <4>2
    <3> QED
      BY <3>3, <3>4
  <2> QED
    BY <2>1, <2>2
<1>7. Len(m) = Len(Append(k, rec.id))
  BY <1>1, <1>2, <1>3, <1>5
<1>8. m = Append(k, rec.id)
  BY <1>3, <1>5, <1>6, <1>7, SeqEqual
<1> QED
  BY <1>8 DEF k, m, more

\* A ring whose records carry the same identities keeps the same calls.
LEMMA SubmitKeeps ==
    ASSUME NEW done, IsHistory(done), NEW waiting \in Seq(Records), NEW stamped \in Seq(Records),
           Len(stamped) = Len(waiting), \A i \in 1 .. Len(waiting) : stamped[i].id = waiting[i].id
    PROVE  Kept(done, stamped) = Kept(done, waiting)
<1>1. IdsOf(stamped) = IdsOf(waiting)
  <2>1. DOMAIN stamped = 1 .. Len(waiting) /\ DOMAIN waiting = 1 .. Len(waiting)
    BY LenProperties
  <2> QED
    BY <2>1 DEF IdsOf
<1> QED
  BY <1>1 DEF Kept

\* A record that is handled takes the last place of the history and leaves the first of
\* the ring: what is kept stays as it is.
LEMMA PollKeeps ==
    ASSUME NEW done, IsHistory(done), NEW waiting \in Seq(Records), waiting # <<>>,
           NEW h, h.id = waiting[1].id
    PROVE  /\ IsHistory(Append(done, h))
           /\ RemoveAt(waiting, 1) \in Seq(Records)
           /\ Kept(Append(done, h), RemoveAt(waiting, 1)) = Kept(done, waiting)
<1> DEFINE more == Append(done, h)
           rest == RemoveAt(waiting, 1)
           k == Kept(done, waiting)
           m == Kept(more, rest)
<1>1. /\ rest \in Seq(Records) /\ Len(waiting) \in Nat \ {0} /\ Len(rest) = Len(waiting) - 1
      /\ \A i \in 1 .. Len(waiting) - 1 : rest[i] = waiting[i + 1]
  BY TakenFirst
<1>2. /\ IsSeq(more) /\ Len(more) = Len(done) + 1 /\ more[Len(done) + 1] = h
      /\ \A i \in 1 .. Len(done) : more[i] = done[i]
      /\ Len(done) \in Nat /\ DOMAIN done = 1 .. Len(done)
  BY AppendIs, SeqIs DEF IsHistory
<1> HIDE DEF more, rest
<1>3. DOMAIN more = 1 .. Len(done) + 1
  BY <1>2, SeqIs
<1>4. waiting[1].id \in Identities
  <2>1. 1 \in DOMAIN waiting
    BY <1>1, LenProperties
  <2>2. waiting[1] \in Records
    BY <2>1
  <2> QED
    BY <2>2 DEF Records
<1>5. IsHistory(more)
  BY <1>2, <1>3, <1>4 DEF IsHistory
<1>6. /\ k \in Seq(Identities) /\ Len(k) = Len(done) + Len(waiting)
      /\ \A i \in 1 .. Len(done) : k[i] = done[i].id
      /\ \A i \in 1 .. Len(waiting) : k[Len(done) + i] = waiting[i].id
  BY KeptIs
<1>7. /\ m \in Seq(Identities) /\ Len(m) = Len(more) + Len(rest)
      /\ \A i \in 1 .. Len(more) : m[i] = more[i].id
      /\ \A i \in 1 .. Len(rest) : m[Len(more) + i] = rest[i].id
  BY <1>1, <1>5, KeptIs
<1> HIDE DEF k, m
<1>8. Len(m) = Len(k)
  <2>1. Len(more) = Len(done) + 1 /\ Len(rest) = Len(waiting) - 1
    BY <1>1, <1>2
  <2>2. Len(done) \in Nat /\ Len(waiting) \in Nat
    BY <1>1, <1>2
  <2>3. Len(k) = Len(done) + Len(waiting) /\ Len(m) = Len(more) + Len(rest)
    BY <1>6, <1>7
  <2> QED
    BY <2>1, <2>2, <2>3
<1>9. ASSUME NEW i \in 1 .. Len(m) PROVE m[i] = k[i]
  <2>1. CASE i \in 1 .. Len(done)
    <3>1. i \in 1 .. Len(more)
      BY <1>2, <2>1
    <3> QED
      BY <1>2, <1>6, <1>7, <2>1, <3>1, SMTT(30)
  <2>2. CASE i = Len(done) + 1
    <3>1. 1 \in 1 .. Len(waiting) /\ i \in 1 .. Len(more)
      BY <1>1, <1>2, <2>2
    <3> QED
      BY <1>2, <1>6, <1>7, <2>2, <3>1
  <2>3. CASE i \notin 1 .. Len(done) + 1
    <3> DEFINE n == i - (Len(done) + 1)
    <3>1. /\ n \in 1 .. Len(rest) /\ i = Len(more) + n
          /\ n + 1 \in 1 .. Len(waiting) /\ i = Len(done) + (n + 1)
          /\ n \in 1 .. Len(waiting) - 1
      BY <1>1, <1>2, <1>7, <2>3
    <3> HIDE DEF n
    <3>2. m[i] = rest[n].id
      BY <1>7, <3>1
    <3>3. k[i] = waiting[n + 1].id
      BY <1>6, <3>1
    <3> QED
      BY <1>1, <3>1, <3>2, <3>3
  <2> QED
    BY <1>2, <2>1, <2>2, <2>3
<1>10. m = k
  BY <1>6, <1>7, <1>8, <1>9, SeqEqual
<1> QED
  BY <1>1, <1>5, <1>10 DEF k, m, more, rest

-------------------------------------------------------------------------------
(* One record.                                                               *)

\* Whatever has exited meanwhile, the flow root of a process is init, or the process
\* itself, its parent or its grandparent.
LEMMA RootIs ==
    ASSUME alive \subseteq Pids, 1 \in alive, NEW e, e.pid \in Pids
    PROVE  flow_root_pid(e, enrich_process(e.pid)) \in Pids \cap ({1} \cup Up(e.pid))
<1> DEFINE q == e.pid
           up == Ppid(q)
           top == Ppid(up)
           root == IF top # 0 THEN top ELSE IF up # 0 THEN up ELSE q
<1>1. flow_root_pid(e, enrich_process(e.pid)) = root
  BY DEF flow_root_pid, enrich_process
<1>2. 1 \in Pids /\ parent[1] = 0 /\ 0 \notin Pids /\ \A p \in Pids : parent[p] \in Pids \cup {0}
  BY PipelineAssumption
<1>3. up = IF q \notin alive THEN 0
           ELSE IF parent[q] = 0 \/ parent[q] \in alive THEN parent[q] ELSE 1
  BY DEF Ppid
<1>4. top = IF up \notin alive THEN 0
            ELSE IF parent[up] = 0 \/ parent[up] \in alive THEN parent[up] ELSE 1
  BY DEF Ppid
<1> HIDE DEF top, up
<1>5. up \in Pids \cup {0} /\ top \in Pids \cup {0} /\ q \in Pids
  BY <1>2, <1>3, <1>4
<1>6. up # 0 => up = 1 \/ up = parent[q]
  BY <1>3
<1>7. top # 0 => top = 1 \/ (top = parent[up] /\ up \in alive)
  BY <1>4
<1>8. CASE top # 0
  <2>1. top # 1 => up # 1
    BY <1>2, <1>7, <1>8
  <2>2. top # 1 => up = parent[q] /\ up # 0
    BY <1>2, <1>6, <1>7, <1>8, <2>1
  <2>3. top # 1 => top \in Up(q)
    BY <1>7, <1>8, <2>2 DEF Up
  <2> QED
    BY <1>1, <1>5, <1>8, <2>3
<1>9. CASE top = 0 /\ up # 0
  BY <1>1, <1>5, <1>6, <1>9 DEF Up
<1>10. CASE top = 0 /\ up = 0
  BY <1>1, <1>2, <1>5, <1>10 DEF Up
<1> QED
  BY <1>8, <1>9, <1>10

\* A rule of a list gives no score.
LEMMA ListsHaveNoScore ==
    ASSUME NEW list, NEW x
    PROVE  LastAllowed(Policy, list, x).score = 0
BY DEF LastAllowed, Controlled, NothingMatches

\* Only a public transfer is blamed for a read, and only if the flow entry of its tree
\* has seen one; and if the rule is not disabled it is.
LEMMA BlamedIff ==
    ASSUME NEW e, NEW c, NEW f, c.has_tty \in BOOLEAN,
           e.type \in {"EXEC", "MPROTECT", "MMAP", "OPENAT", "CONNECT"}
    PROVE  LET finding == evaluate_event(Policy, e, c, f)
               blamed == finding.rule = FLOW_SENSITIVE_READ /\ finding.score > 0
           IN /\ blamed => IsPublicTransfer(e) /\ f.sensitive
              /\ (IsPublicTransfer(e) /\ f.sensitive /\ FLOW_SENSITIVE_READ \notin Policy.disabled) => blamed
<1> DEFINE finding == evaluate_event(Policy, e, c, f)
           blamed(x) == x.rule = FLOW_SENSITIVE_READ /\ x.score > 0
<1>1. ~blamed(NothingMatches) /\ ~blamed(Observed)
  BY DEF NothingMatches, Observed
<1>2. \A a, b : ~blamed(a) /\ ~blamed(b) => ~blamed(FirstOf(a, b))
  BY DEF FirstOf
<1>3. \A list, x : ~blamed(LastAllowed(Policy, list, x))
  BY ListsHaveNoScore
<1>4. \A id, severity, score : id # FLOW_SENSITIVE_READ => ~blamed(Controlled(Policy, severity, id, score))
  BY <1>1 DEF Controlled
<1>5. CASE e.type = "EXEC"
  <2>1. finding = FirstOf(is_suspicious_exec(Policy, e), Observed)
    BY <1>5 DEF evaluate_event
  <2>2. ~blamed(is_suspicious_exec(Policy, e))
    BY <1>2, <1>3 DEF is_suspicious_exec
  <2> QED
    BY <1>1, <1>2, <1>5, <2>1, <2>2 DEF IsPublicTransfer
<1>6. CASE e.type \in {"MPROTECT", "MMAP"}
  <2>1. finding = FirstOf(MemFinding(Policy, e), Observed)
    BY <1>6 DEF evaluate_event
  <2>2. ~blamed(MemFinding(Policy, e))
    <3>1. \A id \in {"mem.rwx_mprotect", "mem.exec_mprotect", "mem.rwx_mmap", "mem.anon_exec_mmap"} :
             id # FLOW_SENSITIVE_READ
      BY DEF FLOW_SENSITIVE_READ
    <3> HIDE DEF blamed
    <3>2. CASE "EXEC" \notin e.prot \/ comm_allowed_for_jit(Policy, e.comm)
      BY <1>1, <3>2 DEF MemFinding
    <3>3. CASE ~("EXEC" \notin e.prot \/ comm_allowed_for_jit(Policy, e.comm))
      BY <1>1, <1>4, <1>6, <3>1, <3>3 DEF MemFinding
    <3> QED
      BY <3>2, <3>3
  <2> QED
    BY <1>1, <1>2, <1>6, <2>1, <2>2 DEF IsPublicTransfer
<1>7. CASE e.type = "OPENAT"
  <2>1. finding = FirstOf(OpenFinding(Policy, e), Observed)
    BY <1>7 DEF evaluate_event
  <2>2. ~blamed(OpenFinding(Policy, e))
    <3> HIDE DEF blamed
    <3> QED
      BY <1>1, <1>2, <1>3 DEF OpenFinding
  <2> QED
    BY <1>1, <1>2, <1>7, <2>1, <2>2 DEF IsPublicTransfer
<1>8. CASE e.type = "CONNECT"
  <2> DEFINE other == IF IdleFlowApplies(Policy, c) THEN IdleFlow(Policy, e, c)
                      ELSE FirstOf(ShellDownloaderFlow(Policy, e, c, f), NoTtyFlow(Policy, e, c))
             port == is_suspicious_port(Policy, e)
  <2>1. finding = FirstOf(FirstOf(evaluate_connect_flow(Policy, e, c, f), port), Observed)
    BY <1>8 DEF evaluate_event
  <2>2. ~blamed(port)
    BY <1>3 DEF is_suspicious_port
  <2>3. FLOW_IDLE # FLOW_SENSITIVE_READ /\ FLOW_SHELL_DOWNLOADER # FLOW_SENSITIVE_READ
        /\ FLOW_NO_TTY # FLOW_SENSITIVE_READ
    BY DEF FLOW_IDLE, FLOW_SENSITIVE_READ, FLOW_SHELL_DOWNLOADER, FLOW_NO_TTY
  <2>4. ~blamed(IdleFlow(Policy, e, c))
    <3> HIDE DEF blamed
    <3> QED
      BY <1>4, <2>3 DEF IdleFlow
  <2>5. ~blamed(ShellDownloaderFlow(Policy, e, c, f))
    <3> HIDE DEF blamed
    <3> QED
      BY <1>1, <1>4, <2>3 DEF ShellDownloaderFlow
  <2>6. ~blamed(NoTtyFlow(Policy, e, c))
    <3> HIDE DEF blamed
    <3>1. CASE c.has_tty
      BY <1>1, <3>1 DEF NoTtyFlow
    <3>2. CASE ~c.has_tty
      BY <1>4, <2>3, <3>2 DEF NoTtyFlow
    <3> QED
      BY <3>1, <3>2
  <2>7. ~blamed(other)
    <3> HIDE DEF blamed
    <3> QED
      BY <1>2, <2>4, <2>5, <2>6
  <2>8. CASE ~IsPublicTransfer(e)
    <3>1. evaluate_connect_flow(Policy, e, c, f) = NothingMatches
      BY <2>8 DEF evaluate_connect_flow
    <3> QED
      BY <1>1, <1>2, <2>1, <2>2, <2>8, <3>1
  <2>9. CASE IsPublicTransfer(e)
    <3>1. evaluate_connect_flow(Policy, e, c, f) = FirstOf(SensitiveReadFlow(Policy, e, c, f), other)
      BY <2>9 DEF evaluate_connect_flow
    <3>2. CASE f.sensitive /\ FLOW_SENSITIVE_READ \notin Policy.disabled
      <4> DEFINE score == default_flow_rule_score(Policy, FLOW_SENSITIVE_READ, HasShellContext(e, c, f) \/ ~c.has_tty)
                 severity == default_flow_rule_severity(Policy, FLOW_SENSITIVE_READ)
                 fd == SensitiveReadFlow(Policy, e, c, f)
      <4>1. fd = Controlled(Policy, severity, FLOW_SENSITIVE_READ, score)
        BY <3>2 DEF SensitiveReadFlow
      <4>2. score > 0
        BY <2>3 DEF default_flow_rule_score
      <4>3. fd.rule = FLOW_SENSITIVE_READ /\ fd.score = score
        BY <3>2, <4>1 DEF Controlled, rule_id_disabled
      <4> HIDE DEF fd, score, severity, other, port, finding
      <4>4. fd # NothingMatches
        BY <4>3 DEF NothingMatches, FLOW_SENSITIVE_READ
      <4>5. finding = fd
        BY <2>1, <3>1, <4>4 DEF FirstOf, fd, other
      <4> QED
        BY <2>9, <3>2, <4>2, <4>3, <4>5 DEF finding
    <3>3. CASE ~(f.sensitive /\ FLOW_SENSITIVE_READ \notin Policy.disabled)
      <4>1. ~blamed(SensitiveReadFlow(Policy, e, c, f))
        <5>1. SensitiveReadFlow(Policy, e, c, f) = NothingMatches
          BY <3>3 DEF SensitiveReadFlow, Controlled, rule_id_disabled
        <5> QED
          BY <1>1, <5>1
      <4>2. ~blamed(finding)
        <5> HIDE DEF blamed, other, port, finding
        <5>1. ~blamed(FirstOf(SensitiveReadFlow(Policy, e, c, f), other))
          BY <1>2, <2>7, <4>1
        <5> QED
          BY <1>1, <1>2, <2>1, <2>2, <3>1, <5>1
      <4> QED
        BY <3>3, <4>2
    <3> QED
      BY <3>2, <3>3
  <2> QED
    BY <2>8, <2>9
<1> QED
  BY <1>5, <1>6, <1>7, <1>8

\* A record handled that leaves the table alone is neither a read that counts nor a
\* public transfer; any other is filed in a slot of the table under its root.
Filed(h) ==
    \/ UNCHANGED <<flow, cursor>> /\ ~IsRead(h) /\ ~IsPublicTransfer(h.e) /\ ~Blamed(h)
    \/ \E s \in Slots, isRead \in BOOLEAN, isShell \in BOOLEAN :
        /\ HandedOut(flow, cursor, flow', s, h.root, h.ts, isRead, isShell)
        /\ cursor' \in Slots
        /\ IsRead(h) <=> isRead
        /\ Blamed(h) => IsPublicTransfer(h.e) /\ Hit(flow, s, h.root, h.ts) /\ flow[s].sensitive
        /\ (/\ IsPublicTransfer(h.e) /\ FLOW_SENSITIVE_READ \notin Policy.disabled
            /\ Hit(flow, s, h.root, h.ts) /\ flow[s].sensitive) => Blamed(h)

\* What handle_event makes of a record: its root, its finding, and where it is filed.
LEMMA PollIs ==
    ASSUME TypeOK, RingInv, UniqueRoots(flow), Poll
    PROVE  LET rec == ring[1]
               r == flow_root_pid(rec.e, enrich_process(rec.e.pid))
           IN /\ ring # <<>> /\ rec \in Records /\ ring' = RemoveAt(ring, 1)
              /\ alive' = alive /\ made' = made /\ dropped' = dropped /\ now' = now
              /\ rec.e.pid \in Pids /\ r \in Pids \cap ({1} \cup Up(rec.e.pid))
              /\ \E finding : LET h == [id |-> rec.id, e |-> rec.e, ts |-> rec.ts, root |-> r,
                                        finding |-> finding]
                              IN handled' = Append(handled, h) /\ Filed(h) /\ Raised(h)
<1> DEFINE rec == ring[1]
           c == enrich_process(rec.e.pid)
           r == flow_root_pid(rec.e, c)
           H(finding) == [id |-> rec.id, e |-> rec.e, ts |-> rec.ts, root |-> r, finding |-> finding]
<1>1. /\ ring # <<>> /\ ring' = RemoveAt(ring, 1)
      /\ alive' = alive /\ made' = made /\ dropped' = dropped /\ now' = now
      /\ \/ rec.e.type \in {"EXEC", "CONNECT"} /\ HandleTreeEvent(rec)
         \/ rec.e.type = "OPENAT" /\ HandleOpen(rec)
         \/ rec.e.type \in {"MPROTECT", "MMAP"} /\ HandleMemory(rec)
  BY DEF Poll, Takes, Ready
<1>2. rec \in Records
  <2>1. 1 \in DOMAIN ring
    BY <1>1, LenProperties, EmptySeq DEF RingInv
  <2> QED
    BY <2>1 DEF RingInv
<1>3. rec.e \in AllCalls /\ rec.ts \in Ts
  BY <1>2 DEF Records
<1>4. rec.e.pid \in Pids
  BY <1>3, PipelineAssumption DEF AllCalls
<1>5. r \in Pids \cap ({1} \cup Up(rec.e.pid)) /\ r \in Roots
  BY <1>4, RootIs, PipelineAssumption DEF TypeOK
<1>6. flow \in [Slots -> Entry] /\ cursor \in Slots
  BY DEF TypeOK
<1>7. c.has_tty \in BOOLEAN
  BY DEF enrich_process
<1>8. \A s \in Slots : Picks(flow, cursor, s, r, rec.ts) =>
          CursorAfter(flow, cursor, r, rec.ts) \in Slots
  BY <1>6, FlowAssumption DEF CursorAfter, NextCursor, Slots
<1> HIDE DEF rec, c, r
<1>9. \A finding : /\ H(finding).e = rec.e /\ H(finding).ts = rec.ts /\ H(finding).root = r
                   /\ H(finding).finding = finding
  OBVIOUS
<1> HIDE DEF H
<1>13. \A f : Raised(H(evaluate_event(Policy, rec.e, c, f)))
  <2>1. IsPolicy(Policy) /\ IsEvent(rec.e)
    BY <1>3, AgentAssumption
  <2> QED
    BY <1>9, <2>1, EvaluationRaises DEF Raised
<1> SUFFICES \E finding : /\ handled' = Append(handled, H(finding))
                           /\ Filed(H(finding)) /\ Raised(H(finding))
  BY <1>1, <1>2, <1>4, <1>5 DEF H, rec, r, c
<1>10. CASE rec.e.type \in {"EXEC", "CONNECT"} /\ HandleTreeEvent(rec)
  <2> DEFINE isShell == rec.e.type = "EXEC" /\ is_shell_command(rec.e.comm, rec.e.target)
             t(s) == AfterObserve(flow, s, r, rec.ts, FALSE, isShell)
             f(s) == IF IsPublicTransfer(rec.e) THEN LookupAnswer(t(s), r, rec.ts) ELSE NothingFound
             fd(s) == evaluate_event(Policy, rec.e, c, f(s))
  <2>1. PICK s \in Slots :
          /\ Picks(flow, cursor, s, r, rec.ts)
          /\ flow' = IF IsPublicTransfer(rec.e) THEN AfterLookup(t(s), r, rec.ts) ELSE t(s)
          /\ handled' = Append(handled, H(fd(s)))
          /\ cursor' = CursorAfter(flow, cursor, r, rec.ts)
    BY <1>10 DEF HandleTreeEvent, H, r, c
  <2>2. isShell \in BOOLEAN
    OBVIOUS
  <2> HIDE DEF isShell
  <2>3. HandedOut(flow, cursor, t(s), s, r, rec.ts, FALSE, isShell)
    BY <1>3, <1>5, <1>6, <2>1, <2>2, ObserveLeaves
  <2>4. t(s) \in [Slots -> Entry] /\ (t(s)[s].sensitive <=> Hit(flow, s, r, rec.ts) /\ flow[s].sensitive)
    BY <2>3 DEF HandedOut
  <2> HIDE DEF t
  <2>5. IsPublicTransfer(rec.e) =>
           /\ HandedOut(flow, cursor, AfterLookup(t(s), r, rec.ts), s, r, rec.ts, FALSE, isShell)
           /\ f(s).sensitive <=> Hit(flow, s, r, rec.ts) /\ flow[s].sensitive
    <3>1. /\ HandedOut(flow, cursor, AfterLookup(t(s), r, rec.ts), s, r, rec.ts, FALSE, isShell)
          /\ LookupAnswer(t(s), r, rec.ts).sensitive <=> t(s)[s].sensitive
      BY <1>3, <1>5, <1>6, <2>3, <2>4, LookupFinds
    <3>2. IsPublicTransfer(rec.e) => f(s) = LookupAnswer(t(s), r, rec.ts)
      OBVIOUS
    <3> HIDE DEF f
    <3> QED
      BY <2>4, <3>1, <3>2
  <2>6. HandedOut(flow, cursor, flow', s, r, rec.ts, FALSE, isShell)
    BY <2>1, <2>3, <2>5
  <2>7. rec.e.type \in {"EXEC", "MPROTECT", "MMAP", "OPENAT", "CONNECT"}
    BY <1>10
  <2> HIDE DEF f
  <2>8. /\ Blamed(H(fd(s))) => IsPublicTransfer(rec.e) /\ f(s).sensitive
        /\ (IsPublicTransfer(rec.e) /\ f(s).sensitive /\ FLOW_SENSITIVE_READ \notin Policy.disabled)
              => Blamed(H(fd(s)))
    BY <1>7, <1>9, <2>7, BlamedIff DEF Blamed
  <2> HIDE DEF fd
  <2>9. ~IsRead(H(fd(s)))
    BY <1>9, <1>10 DEF IsRead
  <2>10. Filed(H(fd(s)))
    BY <1>8, <1>9, <2>1, <2>2, <2>5, <2>6, <2>8, <2>9 DEF Filed
  <2>11. Raised(H(fd(s)))
    BY <1>13 DEF fd
  <2> QED
    BY <2>1, <2>10, <2>11
<1>11. CASE rec.e.type = "OPENAT" /\ HandleOpen(rec)
  <2> DEFINE fd == evaluate_event(Policy, rec.e, c, NothingFound)
  <2>1. /\ handled' = Append(handled, H(fd))
        /\ IF ObservesRead(rec.e, fd)
           THEN /\ \E s \in Slots :
                      /\ Picks(flow, cursor, s, r, rec.ts)
                      /\ flow' = AfterObserve(flow, s, r, rec.ts, TRUE, FALSE)
                /\ cursor' = CursorAfter(flow, cursor, r, rec.ts)
           ELSE UNCHANGED <<flow, cursor>>
    BY <1>11 DEF HandleOpen, H, r, c
  <2>2. ~IsPublicTransfer(rec.e)
    BY <1>11 DEF IsPublicTransfer
  <2>3. ~Blamed(H(fd))
    <3>1. rec.e.type \in {"EXEC", "MPROTECT", "MMAP", "OPENAT", "CONNECT"}
      BY <1>11
    <3> QED
      BY <1>7, <1>9, <2>2, <3>1, BlamedIff DEF Blamed
  <2>7. Raised(H(fd))
    BY <1>13
  <2> HIDE DEF fd
  <2>4. IsRead(H(fd)) <=> ObservesRead(rec.e, fd)
    BY <1>9, <1>11 DEF IsRead, ObservesRead, FeedsFlow
  <2>5. CASE ObservesRead(rec.e, fd)
    <3>1. PICK s \in Slots : /\ Picks(flow, cursor, s, r, rec.ts)
                             /\ flow' = AfterObserve(flow, s, r, rec.ts, TRUE, FALSE)
      BY <2>1, <2>5
    <3>2. HandedOut(flow, cursor, flow', s, r, rec.ts, TRUE, FALSE)
      BY <1>3, <1>5, <1>6, <3>1, ObserveLeaves
    <3>3. cursor' \in Slots
      BY <1>8, <2>1, <2>5, <3>1
    <3>4. Filed(H(fd))
      BY <1>9, <2>2, <2>3, <2>4, <2>5, <3>2, <3>3 DEF Filed
    <3> QED
      BY <2>1, <2>7, <3>4
  <2>6. CASE ~ObservesRead(rec.e, fd)
    <3>1. Filed(H(fd))
      BY <1>9, <2>1, <2>2, <2>3, <2>4, <2>6 DEF Filed
    <3> QED
      BY <2>1, <2>7, <3>1
  <2> QED
    BY <2>5, <2>6
<1>12. CASE rec.e.type \in {"MPROTECT", "MMAP"} /\ HandleMemory(rec)
  <2> DEFINE fd == evaluate_event(Policy, rec.e, c, NothingFound)
  <2>1. handled' = Append(handled, H(fd)) /\ UNCHANGED <<flow, cursor>>
    BY <1>12 DEF HandleMemory, H, r, c
  <2>2. ~IsPublicTransfer(rec.e) /\ rec.e.type # "OPENAT"
    BY <1>12 DEF IsPublicTransfer
  <2>3. ~Blamed(H(fd))
    <3>1. rec.e.type \in {"EXEC", "MPROTECT", "MMAP", "OPENAT", "CONNECT"}
      BY <1>12
    <3> QED
      BY <1>7, <1>9, <2>2, <3>1, BlamedIff DEF Blamed
  <2>7. Raised(H(fd))
    BY <1>13
  <2> HIDE DEF fd
  <2>4. Filed(H(fd))
    BY <1>9, <2>1, <2>2, <2>3 DEF Filed, IsRead
  <2> QED
    BY <2>1, <2>4, <2>7
<1> QED
  BY <1>1, <1>10, <1>11, <1>12

-------------------------------------------------------------------------------
(* The history and the flow table.                                           *)

\* A flag in the table stands for a read in the history, of the same root.
FlagsAreTrue(done, table) ==
    \A s \in Slots : (table[s].active /\ table[s].sensitive) =>
        \E i \in DOMAIN done : IsRead(done[i]) /\ done[i].root = table[s].root

\* A transfer is blamed only after a read with its root.
BlameIsTrue(done) ==
    \A j \in DOMAIN done : Blamed(done[j]) =>
        \E i \in 1 .. j - 1 : IsRead(done[i]) /\ done[i].root = done[j].root

\* The first n records came in timestamp order, and the table has room for their roots.
RootsTo(done, n) == {done[m].root : m \in 1 .. n}
Orderly(done, n) ==
    /\ \A m \in 2 .. n : done[m - 1].ts <= done[m].ts
    /\ Cardinality(RootsTo(done, n)) <= FLOW_STATE_ENTRIES

\* In an orderly history each read that is not too old is still flagged, in an entry no
\* older than the read; and the table holds no root and no time of elsewhere.
Remembered(done, table) ==
    LET n == Len(done) IN
    Orderly(done, n) =>
        /\ \A s \in Slots : table[s].active =>
              /\ table[s].root \in RootsTo(done, n)
              /\ n > 0 /\ table[s].last <= done[n].ts
        /\ \A i \in 1 .. n : (IsRead(done[i]) /\ done[n].ts - done[i].ts <= FlowWindow) =>
              \E s \in Slots : /\ table[s].active /\ table[s].root = done[i].root
                               /\ table[s].sensitive /\ table[s].last >= done[i].ts

\* ReadThenConnectCaught of one history.
Caught(done) ==
    \A i, j \in DOMAIN done :
        (/\ i < j /\ IsRead(done[i]) /\ IsPublicTransfer(done[j].e)
         /\ done[i].root = done[j].root /\ FLOW_SENSITIVE_READ \notin Policy.disabled
         /\ done[j].ts - done[i].ts <= FlowWindow
         /\ Orderly(done, j)) => Blamed(done[j])

\* The types of a history's times and roots.
Timed(done) ==
    IsSeq(done) /\ \A i \in DOMAIN done : done[i].ts \in Ts /\ done[i].root \in Pids

\* The roots of a history are finite in number.
LEMMA RootsFinite ==
    ASSUME NEW done, NEW n \in Nat
    PROVE  IsFiniteSet(RootsTo(done, n))
<1> DEFINE f == [m \in 1 .. n |-> done[m].root]
<1>1. IsFiniteSet(1 .. n)
  BY FS_Interval
<1>2. f \in Surjection(1 .. n, RootsTo(done, n))
  BY DEF Surjection, RootsTo
<1> QED
  BY <1>1, <1>2, FS_Surjection

\* A history that grows has the roots it had and the new one.
LEMMA RootsGrow ==
    ASSUME NEW done, NEW h, IsSeq(done)
    PROVE  /\ RootsTo(Append(done, h), Len(done) + 1) = RootsTo(done, Len(done)) \cup {h.root}
           /\ \A n \in 1 .. Len(done) : RootsTo(Append(done, h), n) = RootsTo(done, n)
<1> DEFINE more == Append(done, h)
<1>1. /\ Len(done) \in Nat /\ more[Len(done) + 1] = h
      /\ \A i \in 1 .. Len(done) : more[i] = done[i]
  BY SeqIs, AppendIs
<1> HIDE DEF more
<1>2. RootsTo(more, Len(done) + 1) = RootsTo(done, Len(done)) \cup {h.root}
  BY <1>1 DEF RootsTo
<1>3. ASSUME NEW n \in 1 .. Len(done) PROVE RootsTo(more, n) = RootsTo(done, n)
  <2>1. \A m \in 1 .. n : more[m] = done[m]
    BY <1>1
  <2> QED
    BY <2>1 DEF RootsTo
<1> QED
  BY <1>2, <1>3 DEF more

\* What is orderly up to some record was orderly before it.
LEMMA OrderlyBefore ==
    ASSUME NEW done, NEW h, IsSeq(done)
    PROVE  /\ Orderly(Append(done, h), Len(done) + 1) =>
                /\ Orderly(done, Len(done))
                /\ Len(done) > 0 => done[Len(done)].ts <= h.ts
           /\ \A n \in 1 .. Len(done) : Orderly(Append(done, h), n) => Orderly(done, n)
<1> DEFINE more == Append(done, h)
<1>1. /\ Len(done) \in Nat /\ more[Len(done) + 1] = h
      /\ \A i \in 1 .. Len(done) : more[i] = done[i]
  BY SeqIs, AppendIs
<1>2. /\ RootsTo(more, Len(done) + 1) = RootsTo(done, Len(done)) \cup {h.root}
      /\ \A n \in 1 .. Len(done) : RootsTo(more, n) = RootsTo(done, n)
  BY RootsGrow
<1> HIDE DEF more
<1>3. ASSUME Orderly(more, Len(done) + 1)
      PROVE  /\ Orderly(done, Len(done))
             /\ Len(done) > 0 => done[Len(done)].ts <= h.ts
  <2>1. \A m \in 2 .. Len(done) + 1 : more[m - 1].ts <= more[m].ts
    BY <1>3 DEF Orderly
  <2>2. \A m \in 2 .. Len(done) : done[m - 1].ts <= done[m].ts
    <3> SUFFICES ASSUME NEW m \in 2 .. Len(done) PROVE done[m - 1].ts <= done[m].ts
      OBVIOUS
    <3>1. m \in 2 .. Len(done) + 1 /\ m \in 1 .. Len(done) /\ m - 1 \in 1 .. Len(done)
      BY <1>1
    <3> QED
      BY <1>1, <2>1, <3>1
  <2>3. Len(done) > 0 => done[Len(done)].ts <= h.ts
    <3> SUFFICES ASSUME Len(done) > 0 PROVE done[Len(done)].ts <= h.ts
      OBVIOUS
    <3>1. /\ Len(done) + 1 \in 2 .. Len(done) + 1 /\ (Len(done) + 1) - 1 = Len(done)
          /\ Len(done) \in 1 .. Len(done)
      BY <1>1
    <3> QED
      BY <1>1, <2>1, <3>1
  <2>4. Cardinality(RootsTo(done, Len(done))) <= FLOW_STATE_ENTRIES
    <3> DEFINE S == RootsTo(more, Len(done) + 1)
               T == RootsTo(done, Len(done))
    <3>1. IsFiniteSet(S) /\ IsFiniteSet(T)
      BY <1>1, RootsFinite
    <3>2. T \in SUBSET S
      BY <1>2
    <3>3. Cardinality(S) <= FLOW_STATE_ENTRIES
      BY <1>3 DEF Orderly
    <3> HIDE DEF S, T
    <3>4. Cardinality(T) <= Cardinality(S) /\ Cardinality(T) \in Nat /\ Cardinality(S) \in Nat
      BY <3>1, <3>2, FS_Subset, FS_CardinalityType
    <3>5. Cardinality(T) <= FLOW_STATE_ENTRIES
      BY <3>3, <3>4, FlowAssumption
    <3> QED
      BY <3>5 DEF T
  <2> QED
    BY <2>2, <2>3, <2>4 DEF Orderly
<1>4. ASSUME NEW n \in 1 .. Len(done), Orderly(more, n) PROVE Orderly(done, n)
  <2>1. \A m \in 2 .. n : m \in 1 .. Len(done) /\ m - 1 \in 1 .. Len(done)
    BY <1>1
  <2>2. \A m \in 2 .. n : done[m - 1].ts <= done[m].ts
    BY <1>1, <1>4, <2>1 DEF Orderly
  <2> QED
    BY <1>2, <1>4, <2>2 DEF Orderly
<1> QED
  BY <1>3, <1>4 DEF more

\* A full table of roots all from a set that fits it knows each root of the set.
LEMMA TableHasRoom ==
    ASSUME NEW t \in [Slots -> Entry], UniqueRoots(t), NEW R, IsFiniteSet(R),
           Cardinality(R) <= FLOW_STATE_ENTRIES, NEW r \in R, NEW ts,
           \A s \in Slots : t[s].active => t[s].root \in R, Full(t, ts)
    PROVE  Known(t, r, ts)
<1> SUFFICES ASSUME ~Known(t, r, ts) PROVE FALSE
  OBVIOUS
<1> DEFINE f == [s \in Slots |-> t[s].root]
           Q == R \ {r}
<1>1. \A s \in Slots : t[s].active /\ t[s].root \in Q
  BY DEF Full, Live, Known, Hit
<1>2. f \in [Slots -> Q] /\ \A p, q \in Slots : p # q => f[p] # f[q]
  BY <1>1 DEF UniqueRoots
<1>3. IsFiniteSet(Slots) /\ Cardinality(Slots) = FLOW_STATE_ENTRIES
  BY FS_Interval, FlowAssumption DEF Slots
<1>4. IsFiniteSet(Q) /\ Cardinality(Q) = Cardinality(R) - 1 /\ Cardinality(R) \in Nat
  BY FS_RemoveElement, FS_CardinalityType
<1>5. Cardinality(Q) < Cardinality(Slots)
  BY <1>3, <1>4, FlowAssumption
<1> HIDE DEF f, Q
<1> QED
  BY <1>2, <1>3, <1>4, <1>5, FS_PigeonHole

\* A record that is filed keeps the table a table, its flags true and the blame just.
LEMMA FiledKeepsTruth ==
    ASSUME flow \in [Slots -> Entry], cursor \in Slots, UniqueRoots(flow), Timed(handled),
           FlagsAreTrue(handled, flow), BlameIsTrue(handled),
           NEW h, Filed(h), handled' = Append(handled, h)
    PROVE  /\ flow' \in [Slots -> Entry] /\ cursor' \in Slots /\ UniqueRoots(flow')
           /\ FlagsAreTrue(handled', flow') /\ BlameIsTrue(handled')
<1> DEFINE n == Len(handled)
           more == Append(handled, h)
<1>1. /\ n \in Nat /\ DOMAIN handled = 1 .. n /\ DOMAIN more = 1 .. n + 1
      /\ more[n + 1] = h /\ \A i \in 1 .. n : more[i] = handled[i]
  BY SeqIs, AppendIs DEF Timed
<1> HIDE DEF n, more
<1>2. (\E i \in DOMAIN handled : IsRead(handled[i]) /\ handled[i].root = h.root) \/ ~Blamed(h)
      => BlameIsTrue(more)
  <2> SUFFICES ASSUME (\E i \in 1 .. n : IsRead(handled[i]) /\ handled[i].root = h.root) \/ ~Blamed(h),
                      NEW j \in 1 .. n + 1, Blamed(more[j])
               PROVE  \E i \in 1 .. j - 1 : IsRead(more[i]) /\ more[i].root = more[j].root
    BY <1>1 DEF BlameIsTrue
  <2>1. CASE j = n + 1
    <3>1. j - 1 = n /\ more[j] = h
      BY <1>1, <2>1
    <3> QED
      BY <1>1, <2>1, <3>1
  <2>2. CASE j \in 1 .. n
    <3>1. PICK i \in 1 .. j - 1 : IsRead(handled[i]) /\ handled[i].root = handled[j].root
      BY <1>1, <2>2 DEF BlameIsTrue
    <3>2. i \in 1 .. n
      BY <1>1, <2>2
    <3> QED
      BY <1>1, <2>2, <3>1, <3>2
  <2> QED
    BY <1>1, <2>1, <2>2
<1>3. CASE UNCHANGED <<flow, cursor>> /\ ~IsRead(h) /\ ~IsPublicTransfer(h.e) /\ ~Blamed(h)
  <2>1. FlagsAreTrue(more, flow)
    BY <1>1 DEF FlagsAreTrue
  <2> QED
    BY <1>2, <1>3, <2>1 DEF more
<1>4. ASSUME NEW s \in Slots, NEW isRead \in BOOLEAN, NEW isShell \in BOOLEAN,
             HandedOut(flow, cursor, flow', s, h.root, h.ts, isRead, isShell),
             cursor' \in Slots, IsRead(h) <=> isRead,
             Blamed(h) => Hit(flow, s, h.root, h.ts) /\ flow[s].sensitive
      PROVE  /\ flow' \in [Slots -> Entry] /\ cursor' \in Slots /\ UniqueRoots(flow')
             /\ FlagsAreTrue(handled', flow') /\ BlameIsTrue(handled')
  <2>1. /\ flow' \in [Slots -> Entry]
        /\ flow'[s].active /\ flow'[s].root = h.root
        /\ flow'[s].sensitive <=> isRead \/ (Hit(flow, s, h.root, h.ts) /\ flow[s].sensitive)
        /\ \A q \in Slots \ {s} : flow'[q].active => flow'[q] = flow[q] /\ flow'[q].root # h.root
    BY <1>4, ClearedIsEntry DEF HandedOut
  <2>2. UniqueRoots(flow')
    BY <2>1 DEF UniqueRoots
  <2>3. Hit(flow, s, h.root, h.ts) /\ flow[s].sensitive =>
           \E i \in 1 .. n : IsRead(handled[i]) /\ handled[i].root = h.root
    BY <1>1 DEF FlagsAreTrue, Hit, Live
  <2>4. ASSUME NEW q \in Slots, flow'[q].active, flow'[q].sensitive
        PROVE  \E i \in 1 .. n + 1 : IsRead(more[i]) /\ more[i].root = flow'[q].root
    <3>1. CASE q # s
      <4>1. PICK i \in 1 .. n : IsRead(handled[i]) /\ handled[i].root = flow[q].root
        BY <1>1, <2>1, <2>4, <3>1 DEF FlagsAreTrue
      <4>2. i \in 1 .. n + 1
        BY <1>1
      <4> QED
        BY <1>1, <2>1, <2>4, <3>1, <4>1, <4>2
    <3>2. CASE q = s /\ isRead
      <4>1. n + 1 \in 1 .. n + 1
        BY <1>1
      <4> QED
        BY <1>1, <1>4, <2>1, <3>2, <4>1
    <3>3. CASE q = s /\ ~isRead
      <4>1. PICK i \in 1 .. n : IsRead(handled[i]) /\ handled[i].root = h.root
        BY <2>1, <2>3, <2>4, <3>3
      <4>2. i \in 1 .. n + 1
        BY <1>1
      <4> QED
        BY <1>1, <2>1, <3>3, <4>1, <4>2
    <3> QED
      BY <3>1, <3>2, <3>3
  <2>5. FlagsAreTrue(more, flow')
    BY <1>1, <2>4 DEF FlagsAreTrue
  <2>6. BlameIsTrue(more)
    BY <1>1, <1>2, <1>4, <2>3
  <2> QED
    BY <1>4, <2>1, <2>2, <2>5, <2>6 DEF more
<1> QED
  BY <1>3, <1>4 DEF Filed

\* In an orderly history a record that is filed leaves every read remembered, and a
\* public transfer finds the read of its root.
LEMMA FiledRemembers ==
    ASSUME flow \in [Slots -> Entry], UniqueRoots(flow), Timed(handled),
           Remembered(handled, flow), Caught(handled),
           NEW h, Filed(h), h.ts \in Ts, h.root \in Pids, handled' = Append(handled, h)
    PROVE  Remembered(handled', flow') /\ Caught(handled')
<1> DEFINE n == Len(handled)
           more == Append(handled, h)
           Roots_ == RootsTo(more, n + 1)
<1>1. /\ n \in Nat /\ DOMAIN handled = 1 .. n /\ DOMAIN more = 1 .. n + 1 /\ Len(more) = n + 1
      /\ more[n + 1] = h /\ \A i \in 1 .. n : more[i] = handled[i]
  BY SeqIs, AppendIs DEF Timed
<1>2. /\ \A i \in 1 .. n : handled[i].ts \in Nat
      /\ h.ts \in Nat
  BY <1>1, FlowAssumption DEF Timed, Ts
<1>3. Orderly(more, n + 1) => /\ Orderly(handled, n)
                              /\ n > 0 => handled[n].ts <= h.ts
  BY OrderlyBefore DEF Timed
<1>4. Roots_ = RootsTo(handled, n) \cup {h.root} /\ IsFiniteSet(Roots_)
  <2>1. n + 1 \in Nat
    BY <1>1
  <2> QED
    BY <2>1, RootsGrow, RootsFinite DEF Timed
<1>5. \A j \in 1 .. n : Orderly(more, j) => Orderly(handled, j)
  BY OrderlyBefore DEF Timed
<1>6. Orderly(more, n + 1) => Cardinality(Roots_) <= FLOW_STATE_ENTRIES
  BY DEF Orderly
<1> HIDE DEF n, more, Roots_
\* What is remembered of a read before h is live when h comes.
<1>7. ASSUME Orderly(more, n + 1), NEW i \in 1 .. n, IsRead(handled[i]),
             h.ts - handled[i].ts <= FlowWindow
      PROVE  \E s \in Slots : /\ Live(flow, s, h.ts) /\ flow[s].root = handled[i].root
                              /\ flow[s].sensitive /\ flow[s].last >= handled[i].ts
                              /\ flow[s].last <= h.ts
  <2>1. n > 0 /\ handled[n].ts <= h.ts /\ handled[n].ts \in Nat
    BY <1>1, <1>2, <1>3, <1>7
  <2>2. handled[n].ts - handled[i].ts <= FlowWindow
    BY <1>2, <1>7, <2>1, FlowAssumption
  <2>3. /\ \A s \in Slots : flow[s].active => flow[s].last <= handled[n].ts
        /\ \A k \in 1 .. n : (IsRead(handled[k]) /\ handled[n].ts - handled[k].ts <= FlowWindow) =>
              \E s \in Slots : /\ flow[s].active /\ flow[s].root = handled[k].root
                               /\ flow[s].sensitive /\ flow[s].last >= handled[k].ts
    BY <1>3, <1>7 DEF Remembered, n
  <2>4. PICK s \in Slots : /\ flow[s].active /\ flow[s].root = handled[i].root
                           /\ flow[s].sensitive /\ flow[s].last >= handled[i].ts
    BY <1>7, <2>2, <2>3
  <2>5. flow[s].last \in Nat /\ flow[s].last <= handled[n].ts
    BY <2>3, <2>4, FlowAssumption DEF Entry, Ts
  <2>6. flow[s].last <= h.ts /\ h.ts - flow[s].last <= FlowWindow
    BY <1>2, <1>7, <2>1, <2>4, <2>5, FlowAssumption, SMTT(30)
  <2>7. Live(flow, s, h.ts)
    BY <1>2, <2>4, <2>5, <2>6, FlowAssumption DEF Live, flow_entry_expired
  <2> QED
    BY <2>4, <2>6, <2>7
<1>8. ASSUME Orderly(more, n + 1), NEW s \in Slots, flow[s].active
      PROVE  flow[s].root \in Roots_ /\ flow[s].last <= h.ts
  <2>1. flow[s].root \in RootsTo(handled, n) /\ n > 0 /\ flow[s].last <= handled[n].ts
    BY <1>3, <1>8 DEF Remembered, n
  <2>2. flow[s].last \in Nat /\ handled[n].ts \in Nat /\ handled[n].ts <= h.ts
    BY <1>1, <1>2, <1>3, <1>8, <2>1, FlowAssumption DEF Entry, Ts
  <2> QED
    BY <1>2, <1>4, <2>1, <2>2
<1>9. Caught(more)
  <2> SUFFICES ASSUME NEW i \in 1 .. n + 1, NEW j \in 1 .. n + 1, i < j, IsRead(more[i]),
                      IsPublicTransfer(more[j].e), more[i].root = more[j].root,
                      FLOW_SENSITIVE_READ \notin Policy.disabled,
                      more[j].ts - more[i].ts <= FlowWindow, Orderly(more, j)
               PROVE  Blamed(more[j])
    BY <1>1 DEF Caught
  <2>1. i \in 1 .. n /\ more[i] = handled[i]
    BY <1>1
  <2>2. CASE j \in 1 .. n
    BY <1>1, <1>5, <2>1, <2>2 DEF Caught
  <2>3. CASE j = n + 1
    <3>1. /\ more[j] = h /\ IsPublicTransfer(h.e) /\ Orderly(more, n + 1)
          /\ h.ts - handled[i].ts <= FlowWindow /\ handled[i].root = h.root
      BY <1>1, <2>1, <2>3
    <3>2. PICK e \in Slots : Live(flow, e, h.ts) /\ flow[e].root = h.root /\ flow[e].sensitive
      BY <1>7, <2>1, <3>1
    <3>3. PICK s \in Slots, isRead \in BOOLEAN, isShell \in BOOLEAN :
              /\ HandedOut(flow, cursor, flow', s, h.root, h.ts, isRead, isShell)
              /\ Hit(flow, s, h.root, h.ts) /\ flow[s].sensitive => Blamed(h)
      BY <3>1 DEF Filed
    <3>4. e = s
      <4> SUFFICES ASSUME e # s PROVE FALSE
        OBVIOUS
      <4>1. flow'[e] = flow[e]
        BY <3>2, <3>3 DEF HandedOut, Live
      <4> QED
        BY <3>2, <3>3, <4>1 DEF HandedOut, Live
    <3> QED
      BY <3>1, <3>2, <3>3, <3>4 DEF Hit
  <2> QED
    BY <1>1, <2>2, <2>3
<1>10. ASSUME Orderly(more, n + 1)
       PROVE  /\ \A s \in Slots : flow'[s].active =>
                    flow'[s].root \in Roots_ /\ flow'[s].last <= h.ts
              /\ \A i \in 1 .. n + 1 : (IsRead(more[i]) /\ h.ts - more[i].ts <= FlowWindow) =>
                    \E s \in Slots : /\ flow'[s].active /\ flow'[s].root = more[i].root
                                     /\ flow'[s].sensitive /\ flow'[s].last >= more[i].ts
  <2>1. CASE UNCHANGED flow /\ ~IsRead(h)
    <3>1. ASSUME NEW i \in 1 .. n + 1, IsRead(more[i]), h.ts - more[i].ts <= FlowWindow
          PROVE  \E s \in Slots : /\ flow[s].active /\ flow[s].root = more[i].root
                                  /\ flow[s].sensitive /\ flow[s].last >= more[i].ts
      <4>1. i \in 1 .. n /\ more[i] = handled[i]
        BY <1>1, <2>1, <3>1
      <4> QED
        BY <1>7, <1>10, <3>1, <4>1 DEF Live
    <3> QED
      BY <1>8, <1>10, <2>1, <3>1
  <2>2. ASSUME NEW s \in Slots, NEW isRead \in BOOLEAN, NEW isShell \in BOOLEAN,
               HandedOut(flow, cursor, flow', s, h.root, h.ts, isRead, isShell),
               IsRead(h) <=> isRead
        PROVE  /\ \A q \in Slots : flow'[q].active =>
                    flow'[q].root \in Roots_ /\ flow'[q].last <= h.ts
               /\ \A i \in 1 .. n + 1 : (IsRead(more[i]) /\ h.ts - more[i].ts <= FlowWindow) =>
                    \E q \in Slots : /\ flow'[q].active /\ flow'[q].root = more[i].root
                                     /\ flow'[q].sensitive /\ flow'[q].last >= more[i].ts
    <3>1. /\ flow'[s].active /\ flow'[s].root = h.root /\ flow'[s].last = h.ts
          /\ flow'[s].sensitive <=> isRead \/ (Hit(flow, s, h.root, h.ts) /\ flow[s].sensitive)
          /\ \A q \in Slots \ {s} :
                flow'[q] = flow[q] \/ (flow'[q] = Cleared /\ flow_entry_expired(flow[q], h.ts))
          /\ \/ Hit(flow, s, h.root, h.ts)
             \/ ~Live(flow, s, h.ts)
             \/ ~Known(flow, h.root, h.ts) /\ Full(flow, h.ts)
      BY <2>2 DEF HandedOut
    <3>2. ASSUME NEW q \in Slots, flow'[q].active
          PROVE  flow'[q].root \in Roots_ /\ flow'[q].last <= h.ts
      <4>1. CASE q = s
        BY <1>2, <1>4, <3>1, <4>1
      <4>2. CASE q # s
        BY <1>8, <1>10, <3>1, <3>2, <4>2, ClearedIsEntry
      <4> QED
        BY <4>1, <4>2
    <3>3. ASSUME NEW i \in 1 .. n + 1, IsRead(more[i]), h.ts - more[i].ts <= FlowWindow
          PROVE  \E q \in Slots : /\ flow'[q].active /\ flow'[q].root = more[i].root
                                  /\ flow'[q].sensitive /\ flow'[q].last >= more[i].ts
      <4>1. CASE i = n + 1
        BY <1>1, <1>2, <2>2, <3>1, <3>3, <4>1
      <4>2. CASE i # n + 1
        <5>1. i \in 1 .. n /\ more[i] = handled[i] /\ handled[i].ts \in Nat
          BY <1>1, <1>2, <4>2
        <5>2. PICK e \in Slots : /\ Live(flow, e, h.ts) /\ flow[e].root = handled[i].root
                                 /\ flow[e].sensitive /\ flow[e].last >= handled[i].ts
                                 /\ flow[e].last <= h.ts
          BY <1>7, <1>10, <3>3, <5>1
        <5>3. flow[e].last \in Nat
          BY <5>2, FlowAssumption DEF Entry, Ts
        <5>4. CASE e # s
          <6>1. flow'[e] = flow[e]
            BY <3>1, <5>2, <5>4 DEF Live
          <6> QED
            BY <5>1, <5>2, <6>1 DEF Live
        <5>5. CASE e = s
          <6>1. ~(~Known(flow, h.root, h.ts) /\ Full(flow, h.ts))
            BY <1>4, <1>6, <1>8, <1>10, TableHasRoom
          <6>2. Hit(flow, s, h.root, h.ts)
            BY <3>1, <5>2, <5>5, <6>1
          <6>3. h.root = handled[i].root /\ flow'[s].sensitive
            BY <3>1, <5>2, <5>5, <6>2 DEF Hit
          <6>4. h.ts >= handled[i].ts
            BY <1>2, <5>1, <5>2, <5>3
          <6> QED
            BY <3>1, <5>1, <6>3, <6>4
        <5> QED
          BY <5>4, <5>5
      <4> QED
        BY <4>1, <4>2
    <3> QED
      BY <3>2, <3>3
  <2> QED
    BY <2>1, <2>2 DEF Filed
<1>11. Remembered(more, flow')
  <2>1. n + 1 > 0
    BY <1>1
  <2> QED
    BY <1>1, <1>10, <2>1 DEF Remembered, Roots_
<1> QED
  BY <1>9, <1>11 DEF more

-------------------------------------------------------------------------------
(* The invariant.                                                            *)

\* What is inductive: besides what the runs check, each flag of the table stands for a
\* read of the history, and in an orderly history each read that counts for a flag.
IInv ==
    /\ TypeOK /\ made \in [Pids -> Nat]
    /\ RingInv /\ HistoryInv
    /\ Accounted(Kept(handled, ring), dropped, made)
    /\ UniqueRoots(flow)
    /\ FlagsAreTrue(handled, flow) /\ BlameIsTrue(handled)
    /\ Remembered(handled, flow) /\ Caught(handled)

\* The conjuncts that speak of the history and the table only.
LEMMA HistoryStays ==
    ASSUME IInv, UNCHANGED <<flow, cursor, handled>>
    PROVE  /\ HistoryInv' /\ UniqueRoots(flow)'
           /\ FlagsAreTrue(handled, flow)' /\ BlameIsTrue(handled)'
           /\ Remembered(handled, flow)' /\ Caught(handled)'
BY DEF IInv, HistoryInv, UniqueRoots, FlagsAreTrue, BlameIsTrue, Remembered, Caught

\* An agent that starts.
LEMMA InitInv ==
    ASSUME Init
    PROVE  IInv
<1>1. /\ alive = Pids /\ made = [q \in Pids |-> 0] /\ ring = <<>> /\ dropped = {} /\ now = 0
      /\ flow = EmptyTable /\ cursor = 0 /\ handled = <<>>
  BY DEF Init
<1>2. flow \in [Slots -> Entry] /\ \A s \in Slots : ~flow[s].active
  BY <1>1, ClearedIsEntry DEF EmptyTable
<1>3. cursor \in Slots /\ now \in Ts
  BY <1>1, FlowAssumption DEF Slots, Ts
<1>4. Len(ring) = 0 /\ DOMAIN ring = {} /\ ring \in Seq(Records) /\ Len(handled) = 0
      /\ DOMAIN handled = {} /\ handled \in Seq(Records)
  BY <1>1
<1>5. TypeOK
  BY <1>1, <1>2, <1>3, <1>4, PipelineAssumption DEF TypeOK
<1>6. made \in [Pids -> Nat] /\ RingInv
  BY <1>1, <1>4 DEF RingInv
<1>7. HistoryInv
  BY <1>4, TypedIsSeq DEF HistoryInv
<1>8. Accounted(Kept(handled, ring), dropped, made)
  <2>1. IsHistory(handled)
    BY <1>4, TypedIsSeq DEF IsHistory
  <2> DEFINE k == Kept(handled, ring)
  <2>2. k \in Seq(Identities) /\ Len(k) = Len(handled) + Len(ring)
    <3>1. ring \in Seq(Records)
      BY <1>4
    <3> QED
      BY <2>1, <3>1, KeptIs
  <2> HIDE DEF k
  <2>3. DOMAIN k = {}
    <3>1. Len(k) = 0
      BY <1>4, <2>2
    <3> QED
      BY <2>2, <3>1, LenProperties
  <2>4. ToSet(k) = {}
    BY <2>3 DEF ToSet
  <2>5. \A q \in Pids : {q} \X (1 .. made[q]) = {}
    BY <1>1
  <2>6. UNION {{q} \X (1 .. made[q]) : q \in Pids} = {}
    BY <2>5
  <2>7. dropped = {}
    BY <1>1
  <2>8. Accounted(k, dropped, made)
    BY <2>3, <2>4, <2>6, <2>7 DEF Accounted
  <2> QED
    BY <2>8 DEF k
<1>9. UniqueRoots(flow) /\ FlagsAreTrue(handled, flow)
  BY <1>2 DEF UniqueRoots, FlagsAreTrue
<1>10. BlameIsTrue(handled) /\ Caught(handled)
  BY <1>4 DEF BlameIsTrue, Caught
<1>11. Remembered(handled, flow)
  BY <1>2, <1>4 DEF Remembered
<1> QED
  BY <1>5, <1>6, <1>7, <1>8, <1>9, <1>10, <1>11 DEF IInv

\* A traced call finds room in the ring or is counted as dropped.
LEMMA EnterInv ==
    ASSUME IInv, NEW q \in Pids, NEW call \in Calls[q], Enter(q, call)
    PROVE  IInv'
<1> DEFINE id == <<q, made[q] + 1>>
           rec == [id |-> id, e |-> call, ready |-> FALSE, ts |-> 0]
           more == [made EXCEPT ![q] = @ + 1]
           k == Kept(handled, ring)
<1>1. /\ made[q] < MaxCalls[q] /\ made' = more
      /\ IF Fits THEN ring' = Append(ring, rec) /\ dropped' = dropped
                 ELSE dropped' = dropped \cup {id} /\ ring' = ring
      /\ UNCHANGED <<alive, now, flow, cursor, handled>>
  BY DEF Enter
<1>2. made \in [Pids -> Nat] /\ ring \in Seq(Records) /\ now \in Ts /\ IsHistory(handled)
      /\ Accounted(k, dropped, made) /\ MaxCalls \in [Pids -> Nat] /\ RingSlots \in Nat
  BY PipelineAssumption DEF IInv, RingInv, TypeOK, HistoryInv, IsHistory
<1>3. /\ more \in [Pids -> Nat] /\ more[q] \in 0 .. MaxCalls[q]
      /\ \A p \in Pids : p # q => more[p] = made[p]
  BY <1>1, <1>2
<1>4. \A p \in Pids : more[p] \in 0 .. MaxCalls[p]
  BY <1>3 DEF IInv, TypeOK
<1>5. rec \in Records /\ rec.id = id /\ rec.e.pid = q /\ rec.id[1] = q /\ rec.ts = 0
  <2>1. id \in Identities /\ id[1] = q
    BY <1>2 DEF Identities
  <2>2. call \in AllCalls /\ call.pid = q
    BY PipelineAssumption DEF AllCalls
  <2>3. 0 \in Ts
    BY FlowAssumption DEF Ts
  <2> HIDE DEF id
  <2> QED
    BY <2>1, <2>2, <2>3 DEF Records
<1>6. k \in Seq(Identities)
  BY <1>2, KeptIs
<1>7. Accounted(Append(k, id), dropped, more) /\ Accounted(k, dropped \cup {id}, more)
  <2> HIDE DEF k
  <2> QED
    BY <1>2, <1>6, OneMoreCall
<1> HIDE DEF rec, more, id
<1>8. CASE Fits
  <2>1. ring' = Append(ring, rec) /\ dropped' = dropped
    BY <1>1, <1>8
  <2>2. /\ ring' \in Seq(Records) /\ Len(ring') = Len(ring) + 1 /\ ring'[Len(ring) + 1] = rec
        /\ \A i \in 1 .. Len(ring) : ring'[i] = ring[i]
        /\ Len(ring) \in Nat /\ DOMAIN ring = 1 .. Len(ring) /\ DOMAIN ring' = 1 .. Len(ring) + 1
    BY <1>2, <1>5, <2>1, AppendProperties, LenProperties
  <2>3. Len(ring') <= RingSlots
    BY <1>2, <1>8, <2>2 DEF Fits
  <2>4. \A i \in DOMAIN ring' : ring'[i].id[1] = ring'[i].e.pid /\ ring'[i].ts <= now
    <3> SUFFICES ASSUME NEW i \in 1 .. Len(ring) + 1
                 PROVE  ring'[i].id[1] = ring'[i].e.pid /\ ring'[i].ts <= now
      BY <2>2
    <3>1. CASE i = Len(ring) + 1
      BY <1>2, <1>5, <2>2, <3>1, FlowAssumption DEF Ts
    <3>2. CASE i \in 1 .. Len(ring)
      BY <2>2, <3>2 DEF IInv, RingInv
    <3> QED
      BY <2>2, <3>1, <3>2
  <2>5. Kept(handled, ring)' = Append(k, id)
    <3>1. Kept(handled, Append(ring, rec)) = Append(Kept(handled, ring), rec.id)
      BY <1>2, <1>5, EnterKeeps
    <3> QED
      BY <1>1, <1>5, <2>1, <3>1
  <2>6. Accounted(Kept(handled, ring), dropped, made)'
    <3> HIDE DEF k
    <3> QED
      BY <1>1, <1>7, <2>1, <2>5 DEF Accounted
  <2>7. TypeOK' /\ RingInv'
    BY <1>1, <1>4, <2>2, <2>3, <2>4 DEF IInv, TypeOK, RingInv
  <2> QED
    BY <1>1, <1>3, <2>6, <2>7, HistoryStays DEF IInv
<1>9. CASE ~Fits
  <2>1. dropped' = dropped \cup {id} /\ ring' = ring
    BY <1>1, <1>9
  <2>2. Accounted(Kept(handled, ring), dropped, made)'
    <3>1. Kept(handled, ring)' = k
      BY <1>1, <2>1
    <3> HIDE DEF k
    <3> QED
      BY <1>1, <1>7, <2>1, <3>1 DEF Accounted
  <2>3. TypeOK' /\ RingInv'
    BY <1>1, <1>4, <2>1 DEF IInv, TypeOK, RingInv
  <2> QED
    BY <1>1, <1>3, <2>2, <2>3, HistoryStays DEF IInv
<1> QED
  BY <1>8, <1>9

\* The program of a traced call stamps its record and submits it.
LEMMA SubmitInv ==
    ASSUME IInv, NEW q \in Pids, Submit(q)
    PROVE  IInv'
<1>1. PICK i \in DOMAIN ring : ring' = [ring EXCEPT ![i] = Submitted(@, now)]
  BY DEF Submit
<1>2. UNCHANGED <<alive, made, dropped, now, flow, cursor, handled>>
  BY DEF Submit
<1>3. /\ ring \in Seq(Records) /\ now \in Ts /\ IsHistory(handled)
      /\ DOMAIN ring = 1 .. Len(ring) /\ Len(ring) \in Nat
      /\ \A j \in 1 .. Len(ring) : ring[j] \in Records
  <2>1. ring \in Seq(Records) /\ now \in Ts /\ IsHistory(handled)
    BY DEF IInv, RingInv, TypeOK, HistoryInv, IsHistory
  <2> QED
    BY <2>1, LenProperties
<1> DEFINE rec == Submitted(ring[i], now)
<1>4. rec \in Records /\ rec.id = ring[i].id /\ rec.e = ring[i].e /\ rec.ts = now
  <2>1. ring[i] \in Records
    BY <1>3
  <2> QED
    BY <1>3, <2>1 DEF Records, Submitted
<1> HIDE DEF rec
<1>5. ring' = [ring EXCEPT ![i] = rec]
  BY <1>1 DEF rec
<1>6. /\ ring' \in Seq(Records) /\ DOMAIN ring' = 1 .. Len(ring) /\ Len(ring') = Len(ring)
      /\ ring'[i] = rec /\ \A j \in 1 .. Len(ring) : j # i => ring'[j] = ring[j]
  <2>1. ring' = [j \in 1 .. Len(ring) |-> IF j = i THEN rec ELSE ring[j]]
    BY <1>3, <1>5
  <2>2. \A j \in 1 .. Len(ring) : (IF j = i THEN rec ELSE ring[j]) \in Records
    BY <1>3, <1>4
  <2>3. ring' \in Seq(Records) /\ Len(ring') = Len(ring)
    BY <1>3, <2>1, <2>2
  <2> QED
    BY <1>1, <1>3, <2>1, <2>3
<1>7. now <= now
  BY <1>3, FlowAssumption DEF Ts
<1>8. \A j \in DOMAIN ring' : ring'[j].id[1] = ring'[j].e.pid /\ ring'[j].ts <= now
  BY <1>1, <1>3, <1>4, <1>6, <1>7 DEF IInv, RingInv
<1>9. Kept(handled, ring') = Kept(handled, ring)
  <2>1. \A j \in 1 .. Len(ring) : ring'[j].id = ring[j].id
    BY <1>4, <1>6
  <2> QED
    BY <1>3, <1>6, <2>1, SubmitKeeps
<1>10. Accounted(Kept(handled, ring), dropped, made)'
  BY <1>2, <1>9 DEF IInv, Accounted
<1>11. TypeOK' /\ RingInv'
  BY <1>2, <1>6, <1>8 DEF IInv, TypeOK, RingInv
<1> QED
  BY <1>2, <1>10, <1>11, HistoryStays DEF IInv

\* A process exits, or time passes: the records keep their stamps.
LEMMA ElsewhereInv ==
    ASSUME IInv, (\E q \in Pids : Exit(q)) \/ Tick
    PROVE  IInv'
<1>1. UNCHANGED <<made, ring, dropped, flow, cursor, handled>>
  BY DEF Exit, Tick
<1>2. alive' \subseteq Pids /\ 1 \in alive'
  BY PipelineAssumption DEF IInv, TypeOK, Exit, Tick
<1>3. now' \in Ts /\ now' >= now /\ now \in Nat
  BY FlowAssumption DEF IInv, TypeOK, Exit, Tick, Ts
<1>4. ring \in Seq(Records) /\ \A i \in DOMAIN ring : ring[i].ts \in Nat /\ ring[i].ts <= now
  <2>1. ring \in Seq(Records) /\ \A i \in DOMAIN ring : ring[i].ts <= now
    BY DEF IInv, RingInv
  <2>2. \A i \in DOMAIN ring : ring[i] \in Records
    BY <2>1, LenProperties
  <2> QED
    BY <2>1, <2>2, FlowAssumption DEF Records, Ts
<1>5. \A i \in DOMAIN ring : ring[i].ts <= now'
  BY <1>3, <1>4, FlowAssumption DEF Ts
<1>6. TypeOK' /\ RingInv'
  BY <1>1, <1>2, <1>3, <1>5 DEF IInv, TypeOK, RingInv
<1>7. Accounted(Kept(handled, ring), dropped, made)'
  <2>1. Kept(handled', ring') = Kept(handled, ring)
    BY <1>1
  <2> QED
    BY <1>1, <2>1 DEF IInv, Accounted
<1> QED
  BY <1>1, <1>6, <1>7, HistoryStays DEF IInv

\* A record is handled.
LEMMA PollInv ==
    ASSUME IInv, Poll
    PROVE  IInv'
<1> DEFINE rec == ring[1]
           r == flow_root_pid(rec.e, enrich_process(rec.e.pid))
           H(finding) == [id |-> rec.id, e |-> rec.e, ts |-> rec.ts, root |-> r, finding |-> finding]
<1>1. /\ ring # <<>> /\ rec \in Records /\ ring' = RemoveAt(ring, 1)
      /\ alive' = alive /\ made' = made /\ dropped' = dropped /\ now' = now
      /\ rec.e.pid \in Pids /\ r \in Pids \cap ({1} \cup Up(rec.e.pid))
  BY PollIs DEF IInv
<1>2. PICK finding : handled' = Append(handled, H(finding)) /\ Filed(H(finding)) /\ Raised(H(finding))
  BY PollIs DEF IInv
<1> DEFINE h == H(finding)
<1>3. /\ h.id = rec.id /\ h.e = rec.e /\ h.ts = rec.ts /\ h.root = r
      /\ rec.id \in Identities /\ rec.e \in AllCalls /\ rec.ts \in Ts
  BY <1>1 DEF Records
<1>4. handled' = Append(handled, h) /\ Filed(h) /\ Raised(h)
  BY <1>2
<1> HIDE DEF rec, r, H, h
<1>5. /\ ring \in Seq(Records) /\ Len(ring) <= RingSlots /\ RingSlots \in Nat
      /\ \A i \in DOMAIN ring : ring[i].id[1] = ring[i].e.pid /\ ring[i].ts <= now
  BY PipelineAssumption DEF IInv, TypeOK, RingInv
<1>6. /\ ring' \in Seq(Records) /\ Len(ring) \in Nat \ {0} /\ Len(ring') = Len(ring) - 1
      /\ \A i \in 1 .. Len(ring) - 1 : ring'[i] = ring[i + 1]
      /\ DOMAIN ring = 1 .. Len(ring) /\ DOMAIN ring' = 1 .. Len(ring) - 1
  <2>1. /\ ring' \in Seq(Records) /\ Len(ring) \in Nat \ {0} /\ Len(ring') = Len(ring) - 1
        /\ \A i \in 1 .. Len(ring) - 1 : ring'[i] = ring[i + 1]
    BY <1>1, <1>5, TakenFirst
  <2> QED
    BY <1>5, <2>1, LenProperties
<1>7. Len(ring') <= RingSlots
  BY <1>5, <1>6
<1>8. \A i \in DOMAIN ring' : ring'[i].id[1] = ring'[i].e.pid /\ ring'[i].ts <= now
  <2> SUFFICES ASSUME NEW i \in 1 .. Len(ring) - 1
               PROVE  ring'[i].id[1] = ring'[i].e.pid /\ ring'[i].ts <= now
    BY <1>6
  <2>1. i + 1 \in DOMAIN ring /\ ring'[i] = ring[i + 1]
    BY <1>6
  <2> QED
    BY <1>5, <2>1
<1>9. HistoryInv /\ IsHistory(handled) /\ Timed(handled)
  BY DEF IInv, HistoryInv, IsHistory, Timed
<1>10. IsHistory(handled') /\ Kept(handled', ring') = Kept(handled, ring)
  <2>1. h.id = ring[1].id
    BY <1>3 DEF rec
  <2> QED
    BY <1>1, <1>4, <1>5, <1>9, <2>1, PollKeeps
<1>11. Accounted(Kept(handled, ring), dropped, made)'
  BY <1>1, <1>10 DEF IInv, Accounted
<1>12. HistoryInv'
  <2>1. /\ IsSeq(handled') /\ DOMAIN handled' = 1 .. Len(handled) + 1
        /\ handled'[Len(handled) + 1] = h
        /\ \A i \in 1 .. Len(handled) : handled'[i] = handled[i]
        /\ Len(handled) \in Nat /\ DOMAIN handled = 1 .. Len(handled)
    BY <1>4, <1>9, AppendIs, SeqIs DEF IsHistory
  <2> SUFFICES ASSUME NEW i \in 1 .. Len(handled) + 1
               PROVE  /\ handled'[i].id \in Identities
                      /\ handled'[i].e \in AllCalls
                      /\ handled'[i].ts \in Ts
                      /\ handled'[i].root \in Pids
                      /\ handled'[i].root \in {1} \cup Up(handled'[i].e.pid)
                      /\ Raised(handled'[i])
    BY <2>1 DEF HistoryInv
  <2>2. CASE i \in 1 .. Len(handled)
    BY <1>9, <2>1, <2>2 DEF HistoryInv
  <2>3. CASE i = Len(handled) + 1
    BY <1>1, <1>3, <1>4, <2>1, <2>3
  <2> QED
    BY <2>1, <2>2, <2>3
<1>13. /\ flow \in [Slots -> Entry] /\ cursor \in Slots /\ UniqueRoots(flow)
       /\ FlagsAreTrue(handled, flow) /\ BlameIsTrue(handled)
       /\ Remembered(handled, flow) /\ Caught(handled)
  BY DEF IInv, TypeOK
<1>14. /\ flow' \in [Slots -> Entry] /\ cursor' \in Slots /\ UniqueRoots(flow')
       /\ FlagsAreTrue(handled', flow') /\ BlameIsTrue(handled')
  BY <1>4, <1>9, <1>13, FiledKeepsTruth
<1>15. Remembered(handled', flow') /\ Caught(handled')
  BY <1>1, <1>3, <1>4, <1>9, <1>13, FiledRemembers
<1>16. TypeOK'
  BY <1>1, <1>7, <1>8, <1>14 DEF IInv, TypeOK
<1>17. RingInv'
  BY <1>1, <1>6, <1>8 DEF RingInv
<1>18. UniqueRoots(flow)' /\ FlagsAreTrue(handled, flow)' /\ BlameIsTrue(handled)'
  BY <1>14 DEF UniqueRoots, FlagsAreTrue, BlameIsTrue
<1>19. Remembered(handled, flow)' /\ Caught(handled)'
  BY <1>15 DEF Remembered, Caught
<1> QED
  BY <1>1, <1>11, <1>12, <1>16, <1>17, <1>18, <1>19 DEF IInv

\* Each step of the pipeline keeps the invariant.
LEMMA StepInv ==
    ASSUME IInv, [Next]_vars
    PROVE  IInv'
<1>1. ASSUME NEW q \in Pids, NEW call \in Calls[q], Enter(q, call) PROVE IInv'
  BY <1>1, EnterInv
<1>2. ASSUME NEW q \in Pids, Submit(q) PROVE IInv'
  BY <1>2, SubmitInv
<1>3. ASSUME (\E q \in Pids : Exit(q)) \/ Tick PROVE IInv'
  BY <1>3, ElsewhereInv
<1>4. CASE Poll
  BY <1>4, PollInv
<1>5. CASE UNCHANGED vars
  <2>1. UNCHANGED <<alive, made, ring, dropped, now, flow, cursor, handled>>
    BY <1>5 DEF vars
  <2>2. Accounted(Kept(handled, ring), dropped, made)'
    <3>1. Kept(handled', ring') = Kept(handled, ring)
      BY <2>1
    <3> QED
      BY <2>1, <3>1 DEF IInv, Accounted
  <2>3. TypeOK' /\ RingInv'
    BY <2>1 DEF IInv, TypeOK, RingInv
  <2> QED
    BY <2>1, <2>2, <2>3, HistoryStays DEF IInv
<1> QED
  BY <1>1, <1>2, <1>3, <1>4, <1>5 DEF Next

-------------------------------------------------------------------------------
(* The rings of the telemetry.                                               *)

\* What is printed.
OutRecords == [key : FindingKeys, count : 0 .. RepeatModulus - 1, alert : BOOLEAN]

\* InRing is Holds of any sequence of records: each place is one that was written.
InRing(r, head, size, records, S) ==
    \A i \in S : Behind(S, i) < size =>
        LET place == (head - 1 - Behind(S, i)) % size
        IN place \in DOMAIN r /\ r[place] = records[i]

\* A ring of a given size, as far as it has been written.
IsRing(r, head, size) ==
    /\ head \in 0 .. size - 1 /\ DOMAIN r \subseteq 0 .. size - 1
    /\ \A k \in DOMAIN r : r[k] \in OutRecords

\* One place back or forth around a ring.
LEMMA AroundTheRing ==
    ASSUME NEW size \in Nat \ {0}, NEW head \in 0 .. size - 1, NEW b \in Nat, b + 1 < size
    PROVE  /\ Advanced(head, size) \in 0 .. size - 1
           /\ (Advanced(head, size) - 1) % size = head
           /\ (Advanced(head, size) - 1 - (b + 1)) % size = (head - 1 - b) % size
           /\ (head - 1 - b) % size # head
<1>1. Advanced(head, size) = IF head + 1 = size THEN 0 ELSE head + 1
  BY DEF Advanced
<1>2. \A x \in 0 .. size - 1 : x % size = x
  OBVIOUS
<1>3. \A x \in Int : (x < 0 /\ 0 <= x + size) => x % size = x + size
  OBVIOUS
<1> DEFINE x == head - 1 - b
<1>4. CASE head + 1 = size
  <2>1. Advanced(head, size) = 0
    BY <1>1, <1>4
  <2>2. (0 - 1) % size = head
    BY <1>3, <1>4
  <2>3. 0 - 1 - (b + 1) < 0 /\ 0 <= (0 - 1 - (b + 1)) + size /\ 0 - 1 - (b + 1) \in Int
    OBVIOUS
  <2>4. (0 - 1 - (b + 1)) % size = (0 - 1 - (b + 1)) + size
    BY <1>3, <2>3
  <2>5. x \in 0 .. size - 1 /\ x = (0 - 1 - (b + 1)) + size /\ x # head
    BY <1>4
  <2> QED
    BY <1>2, <2>1, <2>2, <2>4, <2>5
<1>5. CASE head + 1 # size
  <2>1. Advanced(head, size) = head + 1
    BY <1>1, <1>5
  <2>2. (head + 1 - 1) % size = head
    BY <1>2
  <2>3. head + 1 - 1 - (b + 1) = x
    OBVIOUS
  <2>4. x % size # head
    <3>1. CASE x < 0
      <4>1. x \in Int /\ 0 <= x + size /\ x + size # head
        OBVIOUS
      <4> QED
        BY <1>3, <3>1, <4>1
    <3>2. CASE x >= 0
      <4>1. x \in 0 .. size - 1 /\ x # head
        BY <3>2
      <4> QED
        BY <1>2, <4>1
    <3> QED
      BY <3>1, <3>2
  <2>5. head + 1 \in 0 .. size - 1
    BY <1>5
  <2> QED
    BY <2>1, <2>2, <2>3, <2>4, <2>5
<1> QED
  BY <1>4, <1>5

\* A head that moves on stays in its ring.
LEMMA HeadStays ==
    ASSUME NEW size \in Nat \ {0}, NEW head \in 0 .. size - 1
    PROVE  Advanced(head, size) \in 0 .. size - 1 /\ (Advanced(head, size) - 1) % size = head
<1>1. Advanced(head, size) = IF head + 1 = size THEN 0 ELSE head + 1
  BY DEF Advanced
<1>2. (0 - 1) % size = size - 1 /\ head % size = head
  OBVIOUS
<1> QED
  BY <1>1, <1>2

\* A record put at the head is the latest, and each older one is one further behind.
LEMMA RingTurns ==
    ASSUME NEW size \in Nat \ {0}, NEW head \in 0 .. size - 1, NEW r,
           NEW records, NEW more, NEW n \in Nat, NEW S \in SUBSET (1 .. n), NEW x,
           \A i \in 1 .. n : more[i] = records[i], more[n + 1] = x,
           InRing(r, head, size, records, S)
    PROVE  InRing(Put(r, head, x), Advanced(head, size), size, more, S \cup {n + 1})
<1> DEFINE T == S \cup {n + 1}
           q == Put(r, head, x)
           next == Advanced(head, size)
<1>0. \A j \in S : j \in 1 .. n /\ j \in Int /\ j <= n
  OBVIOUS
<1>1. next \in 0 .. size - 1 /\ (next - 1) % size = head
  BY HeadStays
<1>2. /\ head \in DOMAIN q /\ q[head] = x
      /\ \A k \in DOMAIN r : k # head => k \in DOMAIN q /\ q[k] = r[k]
  BY DEF Put
<1> HIDE DEF q
<1>3. Behind(T, n + 1) = 0
  <2>1. \A j \in T : ~(j > n + 1)
    BY <1>0
  <2>2. {j \in T : j > n + 1} = {}
    BY <2>1
  <2> QED
    BY <2>2, FS_EmptySet DEF Behind
<1>4. ASSUME NEW i \in S
      PROVE  Behind(S, i) \in Nat /\ Behind(T, i) = Behind(S, i) + 1
  <2> DEFINE B == {j \in S : j > i}
  <2>1. {j \in T : j > i} = B \cup {n + 1} /\ n + 1 \notin B
    BY <1>0
  <2>2. IsFiniteSet(B)
    <3>1. IsFiniteSet(1 .. n)
      BY FS_Interval
    <3>2. B \in SUBSET (1 .. n)
      BY <1>0
    <3> HIDE DEF B
    <3> QED
      BY <3>1, <3>2, FS_Subset
  <2> HIDE DEF B
  <2>3. Cardinality(B \cup {n + 1}) = Cardinality(B) + 1 /\ Cardinality(B) \in Nat
    BY <2>1, <2>2, FS_AddElement, FS_CardinalityType
  <2> QED
    BY <2>1, <2>3 DEF Behind, B
<1> HIDE DEF next
<1>5. ASSUME NEW i \in T, Behind(T, i) < size
      PROVE  /\ (next - 1 - Behind(T, i)) % size \in DOMAIN q
             /\ q[(next - 1 - Behind(T, i)) % size] = more[i]
  <2>1. CASE i = n + 1
    <3>1. next - 1 - Behind(T, i) = next - 1
      BY <1>1, <1>3, <2>1
    <3> QED
      BY <1>1, <1>2, <2>1, <3>1
  <2>2. CASE i # n + 1
    <3> DEFINE b == Behind(S, i)
    <3>1. i \in S /\ i \in 1 .. n /\ b \in Nat /\ Behind(T, i) = b + 1
      BY <1>4, <2>2
    <3> HIDE DEF b
    <3>2. b + 1 < size /\ b < size
      BY <1>5, <3>1
    <3>3. (next - 1 - (b + 1)) % size = (head - 1 - b) % size /\ (head - 1 - b) % size # head
      BY <3>1, <3>2, AroundTheRing DEF next
    <3>4. (head - 1 - b) % size \in DOMAIN r /\ r[(head - 1 - b) % size] = records[i]
      BY <3>1, <3>2 DEF InRing, b
    <3>5. q[(head - 1 - b) % size] = more[i] /\ (head - 1 - b) % size \in DOMAIN q
      BY <1>2, <3>1, <3>3, <3>4
    <3> QED
      BY <3>1, <3>3, <3>5
  <2> QED
    BY <2>1, <2>2
<1> HIDE DEF T
<1> QED
  BY <1>5 DEF InRing, T, q, next

\* The positions of the alerts in a sequence of records.
AlertsIn(records) == {i \in DOMAIN records : records[i].alert}

\* The fields of g_telemetry and their types.
IsTelemetry(t) ==
    /\ t = [exec_events |-> t.exec_events, mem_events |-> t.mem_events,
            file_events |-> t.file_events, net_events |-> t.net_events,
            suspicious_events |-> t.suspicious_events, alert_count |-> t.alert_count,
            alert_head |-> t.alert_head, recent_head |-> t.recent_head,
            alerts |-> t.alerts, recent_events |-> t.recent_events]
    /\ t.exec_events \in Nat /\ t.mem_events \in Nat /\ t.file_events \in Nat
    /\ t.net_events \in Nat /\ t.suspicious_events \in Nat
    /\ IsRing(t.alerts, t.alert_head, MAX_ALERTS)
    /\ IsRing(t.recent_events, t.recent_head, MAX_RECENT_EVENTS)

Events(t) == t.exec_events + t.mem_events + t.file_events + t.net_events

\* An output whose telemetry agrees with what was printed.
OutInv(out) ==
    LET t == out.telemetry
        alerts == Cardinality(AlertsIn(out.printed))
    IN /\ out.printed \in Seq(OutRecords) /\ IsTelemetry(t)
       /\ t.alert_count = (IF alerts < MAX_ALERTS THEN alerts ELSE MAX_ALERTS)
       /\ InRing(t.alerts, t.alert_head, MAX_ALERTS, out.printed, AlertsIn(out.printed))
       /\ InRing(t.recent_events, t.recent_head, MAX_RECENT_EVENTS, out.printed, DOMAIN out.printed)

\* A ring with a record put at its head.
LEMMA RingHolds ==
    ASSUME NEW size \in Nat \ {0}, NEW r, NEW head, IsRing(r, head, size), NEW x \in OutRecords
    PROVE  IsRing(Put(r, head, x), Advanced(head, size), size)
<1>1. head \in 0 .. size - 1 /\ DOMAIN r \subseteq 0 .. size - 1
      /\ \A k \in DOMAIN r : r[k] \in OutRecords
  BY DEF IsRing
<1>2. Advanced(head, size) \in 0 .. size - 1
  BY <1>1, HeadStays
<1>3. DOMAIN Put(r, head, x) = DOMAIN r \cup {head}
      /\ \A k \in DOMAIN r \cup {head} : Put(r, head, x)[k] = IF k = head THEN x ELSE r[k]
  BY DEF Put
<1> QED
  BY <1>1, <1>2, <1>3 DEF IsRing

\* One more record: one more alert, if it is one.
LEMMA AlertsGrow ==
    ASSUME NEW records \in Seq(OutRecords), NEW x \in OutRecords
    PROVE  LET more == Append(records, x)
               n == Len(records)
           IN /\ more \in Seq(OutRecords) /\ n \in Nat /\ Len(more) = n + 1
              /\ DOMAIN records = 1 .. n /\ DOMAIN more = (1 .. n) \cup {n + 1}
              /\ more[n + 1] = x /\ \A i \in 1 .. n : more[i] = records[i]
              /\ AlertsIn(more) = AlertsIn(records) \cup (IF x.alert THEN {n + 1} ELSE {})
              /\ Cardinality(AlertsIn(records)) \in Nat
              /\ Cardinality(AlertsIn(more)) =
                    Cardinality(AlertsIn(records)) + (IF x.alert THEN 1 ELSE 0)
<1> DEFINE more == Append(records, x)
           n == Len(records)
           A == AlertsIn(records)
<1>1. /\ more \in Seq(OutRecords) /\ n \in Nat /\ Len(more) = n + 1
      /\ DOMAIN records = 1 .. n /\ DOMAIN more = 1 .. n + 1
      /\ more[n + 1] = x /\ \A i \in 1 .. n : more[i] = records[i]
  BY AppendProperties, LenProperties
<1> HIDE DEF more, n
<1>2. 1 .. n + 1 = (1 .. n) \cup {n + 1}
  BY <1>1
<1>3. AlertsIn(more) = A \cup (IF x.alert THEN {n + 1} ELSE {})
  BY <1>1, <1>2 DEF AlertsIn
<1>4. A \in SUBSET (1 .. n) /\ n + 1 \notin A
  BY <1>1 DEF AlertsIn
<1>5. IsFiniteSet(1 .. n)
  BY <1>1, FS_Interval
<1> HIDE DEF A
<1>6. IsFiniteSet(A)
  BY <1>4, <1>5, FS_Subset
<1>7. Cardinality(A) \in Nat /\ Cardinality(A \cup {n + 1}) = Cardinality(A) + 1
  BY <1>4, <1>6, FS_AddElement, FS_CardinalityType
<1>8. Cardinality(AlertsIn(more)) = Cardinality(A) + (IF x.alert THEN 1 ELSE 0)
  <2>1. CASE x.alert
    BY <1>3, <1>7, <2>1
  <2>2. CASE ~x.alert
    <3>1. AlertsIn(more) = A
      BY <1>3, <2>2
    <3> QED
      BY <1>7, <2>2, <3>1
  <2> QED
    BY <2>1, <2>2
<1> QED
  BY <1>1, <1>2, <1>3, <1>7, <1>8 DEF more, n, A

\* emit_finding: the record is printed and stands in the rings, an alert in both.
LEMMA ShowsKeeps ==
    ASSUME NEW out, OutInv(out), NEW record \in OutRecords
    PROVE  LET new == Shows(out, record)
           IN /\ OutInv(new) /\ new.printed = Append(out.printed, record)
              /\ Events(new.telemetry) = Events(out.telemetry)
              /\ new.telemetry.suspicious_events = out.telemetry.suspicious_events
<1> DEFINE t == out.telemetry
           u == Shown(t, record)
           p == out.printed
           n == Len(p)
           more == Append(p, record)
           alerts == Cardinality(AlertsIn(p))
<1>1. /\ p \in Seq(OutRecords) /\ IsTelemetry(t)
      /\ t.alert_count = (IF alerts < MAX_ALERTS THEN alerts ELSE MAX_ALERTS)
      /\ InRing(t.alerts, t.alert_head, MAX_ALERTS, p, AlertsIn(p))
      /\ InRing(t.recent_events, t.recent_head, MAX_RECENT_EVENTS, p, DOMAIN p)
  BY DEF OutInv
<1>2. /\ more \in Seq(OutRecords) /\ n \in Nat /\ DOMAIN p = 1 .. n /\ DOMAIN more = (1 .. n) \cup {n + 1}
      /\ more[n + 1] = record /\ \A i \in 1 .. n : more[i] = p[i]
      /\ AlertsIn(more) = AlertsIn(p) \cup (IF record.alert THEN {n + 1} ELSE {})
      /\ alerts \in Nat
      /\ Cardinality(AlertsIn(more)) = alerts + (IF record.alert THEN 1 ELSE 0)
  BY <1>1, AlertsGrow
<1>3. MAX_ALERTS \in Nat \ {0} /\ MAX_RECENT_EVENTS \in Nat \ {0}
  BY AgentAssumption
<1>4. Shows(out, record) = [telemetry |-> u, printed |-> more]
  BY DEF Shows
<1> HIDE DEF t, p, more, n, alerts
<1>5. /\ u.exec_events = t.exec_events /\ u.mem_events = t.mem_events
      /\ u.file_events = t.file_events /\ u.net_events = t.net_events
      /\ u.suspicious_events = t.suspicious_events
      /\ u.recent_events = Put(t.recent_events, t.recent_head, record)
      /\ u.recent_head = Advanced(t.recent_head, MAX_RECENT_EVENTS)
      /\ u.alerts = IF record.alert THEN Put(t.alerts, t.alert_head, record) ELSE t.alerts
      /\ u.alert_head = IF record.alert THEN Advanced(t.alert_head, MAX_ALERTS) ELSE t.alert_head
      /\ u.alert_count = IF record.alert /\ t.alert_count < MAX_ALERTS THEN t.alert_count + 1
                                                                      ELSE t.alert_count
      /\ u = [exec_events |-> u.exec_events, mem_events |-> u.mem_events,
              file_events |-> u.file_events, net_events |-> u.net_events,
              suspicious_events |-> u.suspicious_events, alert_count |-> u.alert_count,
              alert_head |-> u.alert_head, recent_head |-> u.recent_head,
              alerts |-> u.alerts, recent_events |-> u.recent_events]
  <2>1. t = [exec_events |-> t.exec_events, mem_events |-> t.mem_events,
             file_events |-> t.file_events, net_events |-> t.net_events,
             suspicious_events |-> t.suspicious_events, alert_count |-> t.alert_count,
             alert_head |-> t.alert_head, recent_head |-> t.recent_head,
             alerts |-> t.alerts, recent_events |-> t.recent_events]
    BY <1>1 DEF IsTelemetry
  <2>2. CASE record.alert
    BY <2>1, <2>2 DEF Shown
  <2>3. CASE ~record.alert
    BY <2>1, <2>3 DEF Shown
  <2> QED
    BY <2>2, <2>3
<1> HIDE DEF u
<1>6. /\ IsRing(t.alerts, t.alert_head, MAX_ALERTS)
      /\ IsRing(t.recent_events, t.recent_head, MAX_RECENT_EVENTS)
  BY <1>1 DEF IsTelemetry
<1>7. /\ IsRing(u.recent_events, u.recent_head, MAX_RECENT_EVENTS)
      /\ InRing(u.recent_events, u.recent_head, MAX_RECENT_EVENTS, more, DOMAIN more)
  <2>1. t.recent_head \in 0 .. MAX_RECENT_EVENTS - 1
    BY <1>6 DEF IsRing
  <2>2. 1 .. n \in SUBSET (1 .. n)
    OBVIOUS
  <2>3. InRing(t.recent_events, t.recent_head, MAX_RECENT_EVENTS, p, 1 .. n)
    BY <1>1, <1>2
  <2>4. InRing(Put(t.recent_events, t.recent_head, record),
               Advanced(t.recent_head, MAX_RECENT_EVENTS), MAX_RECENT_EVENTS, more,
               (1 .. n) \cup {n + 1})
    BY <1>2, <1>3, <2>1, <2>2, <2>3, RingTurns
  <2> QED
    BY <1>2, <1>3, <1>5, <1>6, <2>4, RingHolds
<1>8. /\ IsRing(u.alerts, u.alert_head, MAX_ALERTS)
      /\ InRing(u.alerts, u.alert_head, MAX_ALERTS, more, AlertsIn(more))
      /\ u.alert_count = (IF Cardinality(AlertsIn(more)) < MAX_ALERTS
                          THEN Cardinality(AlertsIn(more)) ELSE MAX_ALERTS)
  <2>1. t.alert_head \in 0 .. MAX_ALERTS - 1 /\ AlertsIn(p) \in SUBSET (1 .. n)
    BY <1>2, <1>6 DEF IsRing, AlertsIn
  <2>2. CASE record.alert
    <3>1. InRing(Put(t.alerts, t.alert_head, record), Advanced(t.alert_head, MAX_ALERTS),
                 MAX_ALERTS, more, AlertsIn(p) \cup {n + 1})
      BY <1>1, <1>2, <1>3, <2>1, RingTurns
    <3>2. IsRing(Put(t.alerts, t.alert_head, record), Advanced(t.alert_head, MAX_ALERTS), MAX_ALERTS)
      BY <1>3, <1>6, RingHolds
    <3>3. AlertsIn(more) = AlertsIn(p) \cup {n + 1} /\ Cardinality(AlertsIn(more)) = alerts + 1
      BY <1>2, <2>2
    <3>4. u.alert_count = (IF alerts + 1 < MAX_ALERTS THEN alerts + 1 ELSE MAX_ALERTS)
      BY <1>1, <1>2, <1>3, <1>5, <2>2
    <3> QED
      BY <1>5, <2>2, <3>1, <3>2, <3>3, <3>4
  <2>3. CASE ~record.alert
    <3>1. AlertsIn(more) = AlertsIn(p) /\ Cardinality(AlertsIn(more)) = alerts
      BY <1>2, <2>3
    <3>2. InRing(t.alerts, t.alert_head, MAX_ALERTS, more, AlertsIn(p))
      <4>1. \A i \in AlertsIn(p) : more[i] = p[i]
        BY <1>2, <2>1
      <4> QED
        BY <1>1, <4>1 DEF InRing
    <3> QED
      BY <1>1, <1>5, <1>6, <2>3, <3>1, <3>2
  <2> QED
    BY <2>2, <2>3
<1>9. IsTelemetry(u) /\ Events(u) = Events(t) /\ u.suspicious_events = t.suspicious_events
  BY <1>1, <1>5, <1>7, <1>8 DEF IsTelemetry, Events
<1>10. OutInv([telemetry |-> u, printed |-> more])
  BY <1>2, <1>7, <1>8, <1>9 DEF OutInv
<1> QED
  BY <1>4, <1>9, <1>10 DEF t, p, more

\* handle_event counts each event once, by its type, and again if it is suspicious.
LEMMA CountedKeeps ==
    ASSUME NEW out, OutInv(out), NEW h, IsEvent(h.e), h.finding.severity \in Severities
    PROVE  LET t == Counted(out.telemetry, h)
           IN /\ OutInv([telemetry |-> t, printed |-> out.printed])
              /\ Events(t) = Events(out.telemetry) + 1
              /\ t.suspicious_events = out.telemetry.suspicious_events +
                                          (IF h.finding.severity > INFO THEN 1 ELSE 0)
<1> DEFINE t == out.telemetry
           u == Counted(t, h)
<1>1. /\ IsTelemetry(t) /\ OutInv([telemetry |-> t, printed |-> out.printed])
      /\ h.e.type \in {"EXEC", "MPROTECT", "MMAP", "OPENAT", "CONNECT"}
  BY DEF OutInv, IsEvent
<1>2. t = [exec_events |-> t.exec_events, mem_events |-> t.mem_events,
           file_events |-> t.file_events, net_events |-> t.net_events,
           suspicious_events |-> t.suspicious_events, alert_count |-> t.alert_count,
           alert_head |-> t.alert_head, recent_head |-> t.recent_head,
           alerts |-> t.alerts, recent_events |-> t.recent_events]
  BY <1>1 DEF IsTelemetry
<1> DEFINE v == [t EXCEPT !.suspicious_events = IF h.finding.severity > INFO THEN @ + 1 ELSE @]
<1>3. v = [exec_events |-> t.exec_events, mem_events |-> t.mem_events,
           file_events |-> t.file_events, net_events |-> t.net_events,
           suspicious_events |-> t.suspicious_events + (IF h.finding.severity > INFO THEN 1 ELSE 0),
           alert_count |-> t.alert_count,
           alert_head |-> t.alert_head, recent_head |-> t.recent_head,
           alerts |-> t.alerts, recent_events |-> t.recent_events]
  <2>1. t.suspicious_events \in Nat
    BY <1>1 DEF IsTelemetry
  <2> HIDE DEF t
  <2> QED
    BY <1>2, <2>1
<1>4. \/ u = [v EXCEPT !.exec_events = @ + 1]
      \/ u = [v EXCEPT !.mem_events = @ + 1]
      \/ u = [v EXCEPT !.file_events = @ + 1]
      \/ u = [v EXCEPT !.net_events = @ + 1]
  <2>1. CASE h.e.type = "EXEC"
    BY <2>1 DEF Counted
  <2>2. CASE h.e.type \in {"MPROTECT", "MMAP"}
    BY <2>2 DEF Counted
  <2>3. CASE h.e.type = "OPENAT"
    BY <2>3 DEF Counted
  <2>4. CASE h.e.type = "CONNECT"
    BY <2>4 DEF Counted
  <2> QED
    BY <1>1, <2>1, <2>2, <2>3, <2>4
<1> HIDE DEF u, v, t
<1>5. /\ u = [exec_events |-> u.exec_events, mem_events |-> u.mem_events,
              file_events |-> u.file_events, net_events |-> u.net_events,
              suspicious_events |-> u.suspicious_events, alert_count |-> u.alert_count,
              alert_head |-> u.alert_head, recent_head |-> u.recent_head,
              alerts |-> u.alerts, recent_events |-> u.recent_events]
      /\ u.alerts = t.alerts /\ u.alert_head = t.alert_head /\ u.alert_count = t.alert_count
      /\ u.recent_events = t.recent_events /\ u.recent_head = t.recent_head
      /\ u.suspicious_events = t.suspicious_events + (IF h.finding.severity > INFO THEN 1 ELSE 0)
      /\ \/ /\ u.exec_events = t.exec_events + 1 /\ u.mem_events = t.mem_events
            /\ u.file_events = t.file_events /\ u.net_events = t.net_events
         \/ /\ u.exec_events = t.exec_events /\ u.mem_events = t.mem_events + 1
            /\ u.file_events = t.file_events /\ u.net_events = t.net_events
         \/ /\ u.exec_events = t.exec_events /\ u.mem_events = t.mem_events
            /\ u.file_events = t.file_events + 1 /\ u.net_events = t.net_events
         \/ /\ u.exec_events = t.exec_events /\ u.mem_events = t.mem_events
            /\ u.file_events = t.file_events /\ u.net_events = t.net_events + 1
  BY <1>3, <1>4
<1>6. IsTelemetry(u) /\ Events(u) = Events(t) + 1
  <2>1. /\ t.exec_events \in Nat /\ t.mem_events \in Nat /\ t.file_events \in Nat
        /\ t.net_events \in Nat /\ t.suspicious_events \in Nat
        /\ IsRing(t.alerts, t.alert_head, MAX_ALERTS)
        /\ IsRing(t.recent_events, t.recent_head, MAX_RECENT_EVENTS)
    BY <1>1 DEF IsTelemetry
  <2>2. /\ u.exec_events \in Nat /\ u.mem_events \in Nat /\ u.file_events \in Nat
        /\ u.net_events \in Nat /\ u.suspicious_events \in Nat
    BY <1>5, <2>1
  <2>3. Events(u) = Events(t) + 1
    BY <1>5, <2>1 DEF Events
  <2> QED
    BY <1>5, <2>1, <2>2, <2>3 DEF IsTelemetry
<1>7. OutInv([telemetry |-> u, printed |-> out.printed])
  BY <1>1, <1>5, <1>6 DEF OutInv
<1> QED
  BY <1>5, <1>6, <1>7 DEF u, t

-------------------------------------------------------------------------------
(* The findings that the records stand for.                                  *)

\* Told of any sequence of records.
ToldIn(records, k) ==
    UNION {{i} \X (1 .. StandsFor(records[i])) : i \in {j \in DOMAIN records : records[j].key = k}}

\* One more record: it stands for findings of its own key only.
LEMMA ToldGrows ==
    ASSUME NEW records \in Seq(OutRecords), NEW x \in OutRecords, NEW k \in FindingKeys
    PROVE  /\ IsFiniteSet(ToldIn(records, k)) /\ Cardinality(ToldIn(records, k)) \in Nat
           /\ StandsFor(x) \in Nat
           /\ Cardinality(ToldIn(Append(records, x), k)) =
                 Cardinality(ToldIn(records, k)) + (IF x.key = k THEN StandsFor(x) ELSE 0)
<1> DEFINE more == Append(records, x)
           n == Len(records)
           A == ToldIn(records, k)
           B == {n + 1} \X (1 .. StandsFor(x))
<1>1. /\ n \in Nat /\ DOMAIN records = 1 .. n /\ DOMAIN more = (1 .. n) \cup {n + 1}
      /\ more[n + 1] = x /\ \A i \in 1 .. n : more[i] = records[i] /\ records[i] \in OutRecords
  BY AlertsGrow
<1>2. RepeatModulus \in Nat \ {0, 1}
  BY AgentAssumption
<1>3. \A y \in OutRecords : StandsFor(y) \in 1 .. RepeatModulus
  BY <1>2 DEF OutRecords, StandsFor
<1> HIDE DEF more, n
<1>4. A \in SUBSET ((1 .. n) \X (1 .. RepeatModulus))
  <2> SUFFICES ASSUME NEW p \in A PROVE p \in (1 .. n) \X (1 .. RepeatModulus)
    OBVIOUS
  <2>1. PICK i \in 1 .. n : p \in {i} \X (1 .. StandsFor(records[i]))
    BY <1>1 DEF ToldIn
  <2>2. StandsFor(records[i]) \in 1 .. RepeatModulus
    BY <1>1, <1>3
  <2>3. PICK m \in 1 .. StandsFor(records[i]) : p = <<i, m>>
    BY <2>1
  <2>4. m \in 1 .. RepeatModulus
    BY <1>2, <2>2
  <2> QED
    BY <2>3, <2>4
<1>5. IsFiniteSet(A) /\ Cardinality(A) \in Nat
  <2>1. IsFiniteSet(1 .. n) /\ IsFiniteSet(1 .. RepeatModulus)
    BY <1>1, <1>2, FS_Interval
  <2>2. IsFiniteSet((1 .. n) \X (1 .. RepeatModulus))
    BY <2>1, FS_Product
  <2> HIDE DEF A
  <2> QED
    BY <1>4, <2>2, FS_Subset, FS_CardinalityType
<1>6. CASE x.key # k
  <2>1. {j \in DOMAIN more : more[j].key = k} = {j \in DOMAIN records : records[j].key = k}
    BY <1>1, <1>6
  <2>2. \A j \in {i \in DOMAIN records : records[i].key = k} : more[j] = records[j]
    BY <1>1
  <2>3. ToldIn(more, k) = A
    BY <2>1, <2>2 DEF ToldIn
  <2> HIDE DEF A
  <2> QED
    BY <1>3, <1>5, <1>6, <2>3 DEF more, A
<1>7. CASE x.key = k
  <2>1. {j \in DOMAIN more : more[j].key = k} = {j \in DOMAIN records : records[j].key = k} \cup {n + 1}
    BY <1>1, <1>7
  <2>2. ToldIn(more, k) = A \cup B
    <3>1. ASSUME NEW p \in ToldIn(more, k) PROVE p \in A \cup B
      <4>1. PICK i \in {j \in DOMAIN more : more[j].key = k} : p \in {i} \X (1 .. StandsFor(more[i]))
        BY DEF ToldIn
      <4> QED
        BY <1>1, <2>1, <4>1 DEF ToldIn
    <3>2. ASSUME NEW p \in A PROVE p \in ToldIn(more, k)
      <4>1. PICK i \in {j \in DOMAIN records : records[j].key = k} : p \in {i} \X (1 .. StandsFor(records[i]))
        BY DEF ToldIn
      <4> QED
        BY <1>1, <2>1, <4>1 DEF ToldIn
    <3>3. ASSUME NEW p \in B PROVE p \in ToldIn(more, k)
      BY <1>1, <2>1 DEF ToldIn
    <3> QED
      BY <3>1, <3>2, <3>3
  <2>3. StandsFor(x) \in Nat /\ 1 <= StandsFor(x)
    BY <1>2, <1>3
  <2>4. IsFiniteSet(B) /\ Cardinality(B) = StandsFor(x)
    <3>1. IsFiniteSet({n + 1}) /\ Cardinality({n + 1}) = 1
      BY FS_Singleton
    <3>2. IsFiniteSet(1 .. StandsFor(x)) /\ Cardinality(1 .. StandsFor(x)) = StandsFor(x)
      BY <2>3, FS_Interval
    <3>3. \A S, T : IsFiniteSet(S) /\ IsFiniteSet(T) =>
                       IsFiniteSet(S \X T) /\ Cardinality(S \X T) = Cardinality(S) * Cardinality(T)
      BY FS_Product, Zenon
    <3>4. IsFiniteSet(B) /\ Cardinality(B) = Cardinality({n + 1}) * Cardinality(1 .. StandsFor(x))
      BY <3>1, <3>2, <3>3, Zenon
    <3> QED
      BY <2>3, <3>1, <3>2, <3>4
  <2>5. A \cap B = {}
    <3> SUFFICES ASSUME NEW p \in A, p \in B PROVE FALSE
      OBVIOUS
    <3>1. p[1] = n + 1
      OBVIOUS
    <3>2. p[1] \in 1 .. n
      BY <1>4
    <3> QED
      BY <1>1, <3>1, <3>2
  <2> HIDE DEF A, B
  <2>6. Cardinality(A \cup B) = Cardinality(A) + Cardinality(B) - Cardinality({})
    BY <1>5, <2>4, <2>5, FS_Union
  <2>7. Cardinality({}) = 0
    BY FS_EmptySet
  <2> QED
    BY <1>5, <1>7, <2>2, <2>3, <2>4, <2>6, <2>7 DEF more, A
<1> QED
  BY <1>6, <1>7

-------------------------------------------------------------------------------
(* The findings handled that are due in the output.                          *)

\* With all the events, or the ones worth it.
Due(all, done, k) == {i \in DOMAIN done : KeyOf(done[i]) = k /\ (all \/ Worth(done[i]))}

\* One more event handled.
LEMMA DueGrows ==
    ASSUME NEW all, NEW done, IsSeq(done), NEW h, NEW k
    PROVE  /\ Cardinality(Due(all, done, k)) \in Nat
           /\ Cardinality(Due(all, Append(done, h), k)) =
                 Cardinality(Due(all, done, k)) + (IF KeyOf(h) = k /\ (all \/ Worth(h)) THEN 1 ELSE 0)
<1> DEFINE more == Append(done, h)
           n == Len(done)
           A == Due(all, done, k)
           counts == KeyOf(h) = k /\ (all \/ Worth(h))
<1>1. /\ n \in Nat /\ DOMAIN done = 1 .. n /\ DOMAIN more = 1 .. n + 1
      /\ more[n + 1] = h /\ \A i \in 1 .. n : more[i] = done[i]
  BY AppendIs, SeqIs
<1> HIDE DEF more, n
<1>2. 1 .. n + 1 = (1 .. n) \cup {n + 1}
  BY <1>1
<1>3. Due(all, more, k) = IF counts THEN A \cup {n + 1} ELSE A
  <2>1. CASE counts
    BY <1>1, <1>2, <2>1 DEF Due
  <2>2. CASE ~counts
    BY <1>1, <1>2, <2>2 DEF Due
  <2> QED
    BY <2>1, <2>2
<1>4. A \in SUBSET (1 .. n) /\ n + 1 \notin A
  BY <1>1 DEF Due
<1> HIDE DEF A, counts
<1>5. IsFiniteSet(A)
  <2>1. IsFiniteSet(1 .. n)
    BY <1>1, FS_Interval
  <2> QED
    BY <1>4, <2>1, FS_Subset
<1>6. Cardinality(A) \in Nat /\ Cardinality(A \cup {n + 1}) = Cardinality(A) + 1
  BY <1>4, <1>5, FS_AddElement, FS_CardinalityType
<1>7. Cardinality(Due(all, more, k)) = Cardinality(A) + (IF counts THEN 1 ELSE 0)
  BY <1>3, <1>6
<1> QED
  BY <1>6, <1>7 DEF more, A, counts

\* The record handled last is of a call, with a key and a destination of its own.
LEMMA HandledIs ==
    ASSUME IInv, Poll
    PROVE  LET h == Last(handled')
           IN /\ handled' = Append(handled, h) /\ h.e \in AllCalls /\ h.ts \in Ts
              /\ KeyOf(h) \in FindingKeys /\ DstOf(h.e) \in Dsts /\ Raised(h)
<1>1. /\ ring # <<>> /\ ring[1] \in Records
      /\ flow_root_pid(ring[1].e, enrich_process(ring[1].e.pid)) \in Pids
  BY PollIs DEF IInv
<1> DEFINE root == flow_root_pid(ring[1].e, enrich_process(ring[1].e.pid))
           H(finding) == [id |-> ring[1].id, e |-> ring[1].e, ts |-> ring[1].ts, root |-> root,
                          finding |-> finding]
<1>a. PICK finding : handled' = Append(handled, H(finding)) /\ Raised(H(finding))
  BY PollIs DEF IInv
<1> DEFINE h == H(finding)
<1>2. /\ handled' = Append(handled, h) /\ Raised(h)
      /\ h.e = ring[1].e /\ h.ts = ring[1].ts /\ h.root = root
  BY <1>a
<1> HIDE DEF h, H
<1>3. h.e \in AllCalls /\ h.ts \in Ts /\ h.root \in Pids
  BY <1>1, <1>2 DEF Records
<1>4. Last(handled') = h
  <2>1. IsSeq(handled)
    BY DEF IInv, HistoryInv
  <2>2. Len(handled') = Len(handled) + 1 /\ handled'[Len(handled) + 1] = h
    BY <1>2, <2>1, AppendIs
  <2> QED
    BY <2>2 DEF Last
<1>5. KeyOf(h) \in FindingKeys
  <2> DEFINE id == h.finding.rule
             Bare(score) == [rule |-> id, score |-> score]
  <2>1. PICK score \in {0, 1} : HasFlow(h.finding) <=> HasFlow(Bare(score))
    <3>1. HasFlow(Bare(1)) <=> id \in FlowRules
      BY DEF HasFlow
    <3>2. ~HasFlow(Bare(0))
      BY DEF HasFlow
    <3>3. HasFlow(h.finding) => id \in FlowRules
      BY DEF HasFlow
    <3> QED
      BY <3>1, <3>2, <3>3
  <2>2. KeyOf(h) = FindingKey(h.e, Bare(score), h.root)
    BY <2>1 DEF KeyOf, FindingKey, FlowRoot
  <2>3. id \in RulesOf(Policy, h.e)
    BY <1>2 DEF Raised
  <2> HIDE DEF id
  <2> QED
    BY <1>3, <2>1, <2>2, <2>3 DEF FindingKeys
<1>6. DstOf(h.e) \in Dsts
  BY <1>3 DEF Dsts
<1> QED
  BY <1>2, <1>3, <1>4, <1>5, <1>6

-------------------------------------------------------------------------------
(* The duplicate cache of the agent.                                         *)

\* What is proved of the cache, for the findings of the agent.
Proved == INSTANCE DedupCacheProofs WITH
    Keys <- FindingKeys, Skew <- MaxTs, cache <- dedup_cache, cursor <- dedup_cursor

\* The constants of the agent are as the cache wants them.
LEMMA CacheAssumption == Proved!DedupAssumption
BY AgentAssumption, FlowAssumption DEF Proved!DedupAssumption

\* Both names stand for the same cache: its steps ...
LEMMA SameSteps ==
    /\ Cache!Init => Proved!Init
    /\ [Cache!Next]_(Cache!vars) => [Proved!Next]_(Proved!vars)
<1>1. Cache!Init => Proved!Init
  BY DEF Cache!Init, Proved!Init, Cache!Slots, Proved!Slots, Cache!Cleared, Proved!Cleared
<1>2. UNCHANGED Cache!vars => UNCHANGED Proved!vars
  BY DEF Cache!vars, Proved!vars, Cache!book, Proved!book
<1>3. ASSUME NEW k, NEW d, NEW ts
      PROVE  /\ Cache!Suppress(k, d, ts) => Proved!Suppress(k, d, ts)
             /\ Cache!Expire(k, d, ts) => Proved!Expire(k, d, ts)
             /\ Cache!Insert(k, d, ts) => Proved!Insert(k, d, ts)
  <2>1. Cache!Suppress(k, d, ts) => Proved!Suppress(k, d, ts)
    BY DEF Cache!Suppress, Proved!Suppress, Cache!Arrive, Proved!Arrive, Cache!Match, Proved!Match,
       Cache!WithinWindow, Proved!WithinWindow, Cache!Elapsed, Proved!Elapsed, Cache!Repeated,
       Proved!Repeated, Cache!Bump, Proved!Bump, Cache!Slots, Proved!Slots,
       Cache!same_dedup_key, Proved!same_dedup_key
  <2>2. Cache!Expire(k, d, ts) => Proved!Expire(k, d, ts)
    BY DEF Cache!Expire, Proved!Expire, Cache!Arrive, Proved!Arrive, Cache!Match, Proved!Match,
       Cache!WithinWindow, Proved!WithinWindow, Cache!Elapsed, Proved!Elapsed, Cache!Slots,
       Proved!Slots, Cache!same_dedup_key, Proved!same_dedup_key, Cache!AfterEmit,
       Proved!AfterEmit, Cache!Cleared, Proved!Cleared, Cache!SummedAfter, Proved!SummedAfter,
       Cache!SummariesAfter, Proved!SummariesAfter, Cache!ToldAfter, Proved!ToldAfter,
       Cache!HasSummary, Proved!HasSummary
  <2>3. Cache!Insert(k, d, ts) => Proved!Insert(k, d, ts)
    BY DEF Cache!Insert, Proved!Insert, Cache!Arrive, Proved!Arrive, Cache!Resident,
       Proved!Resident, Cache!Slots, Proved!Slots, Cache!same_dedup_key, Proved!same_dedup_key,
       Cache!NextCursor, Proved!NextCursor, Cache!SummedAfter, Proved!SummedAfter,
       Cache!SummariesAfter, Proved!SummariesAfter, Cache!ToldAfter, Proved!ToldAfter,
       Cache!HasSummary, Proved!HasSummary
  <2> QED
    BY <2>1, <2>2, <2>3
<1>4. Cache!Ts = Proved!Ts
  BY DEF Cache!Ts, Proved!Ts
<1>5. Cache!Deliver => Proved!Deliver
  BY <1>3, <1>4 DEF Cache!Deliver, Proved!Deliver
<1>6. Cache!FlushEntry => Proved!FlushEntry
  BY DEF Cache!FlushEntry, Proved!FlushEntry, Cache!AfterEmit, Proved!AfterEmit, Cache!Cleared,
     Proved!Cleared, Cache!SummedAfter, Proved!SummedAfter, Cache!SummariesAfter,
     Proved!SummariesAfter, Cache!ToldAfter, Proved!ToldAfter, Cache!NextFlush, Proved!NextFlush,
     Cache!LastFlush, Proved!LastFlush, Cache!HasSummary, Proved!HasSummary
<1>7. (Cache!Stop => Proved!Stop) /\ (Cache!Kill => Proved!Kill)
  BY DEF Cache!Stop, Proved!Stop, Cache!Kill, Proved!Kill, Cache!book, Proved!book
<1>8. Cache!Next => Proved!Next
  BY <1>5, <1>6, <1>7 DEF Cache!Next, Proved!Next
<1> QED
  BY <1>1, <1>2, <1>8

\* ... and what holds of it.
CacheInv ==
    /\ Cache!TypeOK
    /\ \A s \in Cache!Slots : dedup_cache[s].active => dedup_cache[s].key \in FindingKeys
    /\ stage = "exited" => \A k \in FindingKeys : seen[k] = shown[k] + summed[k] + lost[k]
    /\ stage = "flushing" => flushPos \in Cache!Slots

\* The invariant of the cache has all that the agent needs.
LEMMA CacheHolds ==
    ASSUME Proved!IInv
    PROVE  CacheInv
<1>1. Proved!TypeOK /\ Proved!ActiveHasKey /\ Proved!NothingPendingAtExit /\ Proved!FlushProgress
  BY CacheAssumption, Proved!NothingPends DEF Proved!IInv
<1>2. Cache!Slots = Proved!Slots /\ Cache!Ts = Proved!Ts /\ Cache!Entry = Proved!Entry
  BY DEF Cache!Slots, Proved!Slots, Cache!Ts, Proved!Ts, Cache!Entry, Proved!Entry
<1>3. Cache!TypeOK
  BY <1>1, <1>2 DEF Cache!TypeOK, Proved!TypeOK
<1>4. \A s \in Cache!Slots : dedup_cache[s].active => dedup_cache[s].key \in FindingKeys
  BY <1>1, <1>2 DEF Proved!ActiveHasKey
<1>5. stage = "exited" => \A k \in FindingKeys : seen[k] = shown[k] + summed[k] + lost[k]
  BY <1>1 DEF Proved!NothingPendingAtExit
<1>6. stage = "flushing" => flushPos \in Cache!Slots
  <2>1. flushPos \in 0 .. DEDUP_ENTRIES /\ DEDUP_ENTRIES \in Nat
    BY <1>1, AgentAssumption DEF Proved!TypeOK
  <2> QED
    BY <1>1, <2>1 DEF Proved!FlushProgress, Cache!Slots
<1> QED
  BY <1>3, <1>4, <1>5, <1>6 DEF CacheInv

\* Whatever the agent does is a call of suppress_duplicate, a step of the flush, or
\* leaves the cache alone.
LEMMA CacheSteps ==
    ASSUME IInv, [AgentNext]_allVars
    PROVE  [Cache!Next]_(Cache!vars)
<1>1. UNCHANGED cacheVars => UNCHANGED Cache!vars
  BY DEF cacheVars, Cache!vars, Cache!book
<1>2. CASE Handle
  <2> DEFINE h == Last(handled')
  <2>1. KeyOf(h) \in FindingKeys /\ DstOf(h.e) \in Dsts /\ h.ts \in Cache!Ts
    BY <1>2, HandledIs DEF Handle, Ts, Cache!Ts
  <2>2. \/ UNCHANGED cacheVars \/ Cache!Suppress(KeyOf(h), DstOf(h.e), h.ts)
        \/ Cache!Expire(KeyOf(h), DstOf(h.e), h.ts) \/ Cache!Insert(KeyOf(h), DstOf(h.e), h.ts)
    BY <1>2 DEF Handle, Report
  <2> HIDE DEF h
  <2> QED
    BY <1>1, <2>1, <2>2 DEF Cache!Next, Cache!Deliver
<1>3. CASE StopLoop
  BY <1>3 DEF StopLoop, Cache!Next
<1>4. CASE Flush
  BY <1>4 DEF Flush, Cache!Next
<1>5. CASE Traced
  BY <1>1, <1>5 DEF Traced, agentVars
<1>6. CASE UNCHANGED allVars
  BY <1>1, <1>6 DEF allVars, agentVars
<1> QED
  BY <1>2, <1>3, <1>4, <1>5, <1>6 DEF AgentNext

-------------------------------------------------------------------------------
(* The output, the cache and the history together.                           *)

AlertCount(out) == Cardinality(AlertsIn(out.printed))
ToldCount(out, k) == Cardinality(ToldIn(out.printed, k))

\* The entries that still have a summary to print.
Summaries == {s \in Cache!Slots : Cache!HasSummary(s)}

\* There are finitely many alerts.
LEMMA AlertsFinite ==
    ASSUME NEW records \in Seq(OutRecords)
    PROVE  Cardinality(AlertsIn(records)) \in Nat
<1>1. AlertsIn(records) \in SUBSET (1 .. Len(records)) /\ Len(records) \in Nat
  BY LenProperties DEF AlertsIn
<1>2. IsFiniteSet(1 .. Len(records))
  BY <1>1, FS_Interval
<1> QED
  BY <1>1, <1>2, FS_Subset, FS_CardinalityType

\* A cache has finitely many entries.
LEMMA SummariesFinite ==
    IsFiniteSet(Cache!Slots) /\ IsFiniteSet(Summaries) /\ Cardinality(Summaries) \in Nat
<1>1. IsFiniteSet(Cache!Slots)
  <2>1. 0 \in Int /\ DEDUP_ENTRIES - 1 \in Int
    BY AgentAssumption
  <2> QED
    BY <2>1, FS_Interval DEF Cache!Slots
<1>2. Summaries \in SUBSET Cache!Slots
  BY DEF Summaries
<1> QED
  BY <1>1, <1>2, FS_Subset, FS_CardinalityType

\* What one record adds to an output.
Adds(new, out, record) ==
    /\ OutInv(new) /\ Events(new.telemetry) = Events(out.telemetry)
    /\ new.telemetry.suspicious_events = out.telemetry.suspicious_events
    /\ AlertCount(out) \in Nat
    /\ AlertCount(new) = AlertCount(out) + (IF record.alert THEN 1 ELSE 0)
    /\ \A k \in FindingKeys :
          /\ ToldCount(out, k) \in Nat /\ StandsFor(record) \in Nat
          /\ ToldCount(new, k) = ToldCount(out, k) + (IF record.key = k THEN StandsFor(record) ELSE 0)

\* emit_finding adds its record.
LEMMA ShowsAdds ==
    ASSUME NEW out, OutInv(out), NEW record \in OutRecords
    PROVE  Adds(Shows(out, record), out, record)
<1> DEFINE new == Shows(out, record)
<1>1. /\ OutInv(new) /\ new.printed = Append(out.printed, record)
      /\ Events(new.telemetry) = Events(out.telemetry)
      /\ new.telemetry.suspicious_events = out.telemetry.suspicious_events
  BY ShowsKeeps
<1>2. out.printed \in Seq(OutRecords)
  BY DEF OutInv
<1> HIDE DEF new
<1>3. AlertCount(out) \in Nat /\ AlertCount(new) = AlertCount(out) + (IF record.alert THEN 1 ELSE 0)
  BY <1>1, <1>2, AlertsGrow DEF AlertCount
<1>4. ASSUME NEW k \in FindingKeys
      PROVE  /\ ToldCount(out, k) \in Nat /\ StandsFor(record) \in Nat
             /\ ToldCount(new, k) = ToldCount(out, k) + (IF record.key = k THEN StandsFor(record) ELSE 0)
  BY <1>1, <1>2, ToldGrows DEF ToldCount
<1>5. Adds(new, out, record)
  BY <1>1, <1>3, <1>4 DEF Adds
<1> QED
  BY <1>5 DEF new

\* emit_dedup_entry adds the summary of a slot, if it has one, and it tells what the
\* cache writes off.
LEMMA EmitAdds ==
    ASSUME CacheInv, NEW s \in Cache!Slots, NEW out, OutInv(out)
    PROVE  LET new == emit_dedup_entry(out, s)
           IN /\ OutInv(new) /\ Events(new.telemetry) = Events(out.telemetry)
              /\ new.telemetry.suspicious_events = out.telemetry.suspicious_events
              /\ AlertCount(out) \in Nat
              /\ AlertCount(new) = AlertCount(out) + (IF Cache!HasSummary(s) THEN 1 ELSE 0)
              /\ \A k \in FindingKeys :
                    /\ ToldCount(out, k) \in Nat /\ ToldCount(new, k) \in Nat
                    /\ summed[k] \in Nat /\ Cache!SummedAfter(s)[k] \in Nat
                    /\ ToldCount(new, k) + summed[k] = ToldCount(out, k) + Cache!SummedAfter(s)[k]
<1> DEFINE new == emit_dedup_entry(out, s)
           record == [key |-> dedup_cache[s].key, count |-> dedup_cache[s].repeat, alert |-> TRUE]
<1>1. /\ dedup_cache[s] \in Cache!Entry /\ summed \in [FindingKeys -> Nat]
      /\ dedup_cache[s].active => dedup_cache[s].key \in FindingKeys
  BY DEF CacheInv, Cache!TypeOK
<1>2. dedup_cache[s].repeat \in 0 .. RepeatModulus - 1
  BY <1>1 DEF Cache!Entry
<1>3. CASE Cache!HasSummary(s)
  <2>1. dedup_cache[s].active /\ dedup_cache[s].repeat > 0
    BY <1>3 DEF Cache!HasSummary
  <2>2. record \in OutRecords /\ record.key = dedup_cache[s].key /\ record.alert = TRUE
        /\ StandsFor(record) = dedup_cache[s].repeat
    BY <1>1, <1>2, <2>1 DEF OutRecords, StandsFor
  <2>3. new = Shows(out, record)
    BY <1>3 DEF emit_dedup_entry
  <2> HIDE DEF new, record
  <2>4. Adds(new, out, record)
    BY <2>2, <2>3, ShowsAdds
  <2>5. Cache!SummedAfter(s) = [summed EXCEPT ![dedup_cache[s].key] = @ + dedup_cache[s].repeat]
    BY <1>3 DEF Cache!SummedAfter
  <2>6. ASSUME NEW k \in FindingKeys
        PROVE  /\ ToldCount(out, k) \in Nat /\ ToldCount(new, k) \in Nat
               /\ summed[k] \in Nat /\ Cache!SummedAfter(s)[k] \in Nat
               /\ ToldCount(new, k) + summed[k] = ToldCount(out, k) + Cache!SummedAfter(s)[k]
    <3>1. /\ ToldCount(out, k) \in Nat /\ summed[k] \in Nat /\ dedup_cache[s].repeat \in Nat
          /\ ToldCount(new, k) = ToldCount(out, k) +
                (IF dedup_cache[s].key = k THEN dedup_cache[s].repeat ELSE 0)
      BY <1>1, <1>2, <2>2, <2>4 DEF Adds
    <3>2. Cache!SummedAfter(s)[k] =
            summed[k] + (IF dedup_cache[s].key = k THEN dedup_cache[s].repeat ELSE 0)
      BY <1>1, <2>5, <3>1
    <3> QED
      BY <3>1, <3>2
  <2> QED
    BY <1>3, <2>2, <2>4, <2>6 DEF Adds, new
<1>4. CASE ~Cache!HasSummary(s)
  <2>1. new = out /\ Cache!SummedAfter(s) = summed
    BY <1>4 DEF emit_dedup_entry, Cache!SummedAfter
  <2>2. out.printed \in Seq(OutRecords)
    BY DEF OutInv
  <2>4. AlertCount(out) \in Nat
    BY <2>2, AlertsFinite DEF AlertCount
  <2>5. ASSUME NEW k \in FindingKeys PROVE ToldCount(out, k) \in Nat /\ summed[k] \in Nat
    <3>1. [key |-> k, count |-> 0, alert |-> TRUE] \in OutRecords
      BY AgentAssumption DEF OutRecords
    <3> QED
      BY <1>1, <2>2, <3>1, ToldGrows DEF ToldCount
  <2> HIDE DEF new
  <2> QED
    BY <1>4, <2>1, <2>4, <2>5 DEF new
<1> QED
  BY <1>3, <1>4

\* A slot that is written: one summary more at most, one less if it had one and has none now.
LEMMA SlotWritten ==
    ASSUME CacheInv, NEW s \in Cache!Slots, NEW x,
           dedup_cache' = [dedup_cache EXCEPT ![s] = x]
    PROVE  /\ Cardinality(Summaries) \in Nat /\ Cardinality(Summaries') \in Nat
           /\ Cardinality(Summaries') <= Cardinality(Summaries) + 1
           /\ (~x.active \/ x.repeat = 0) =>
                 Cardinality(Summaries') =
                    Cardinality(Summaries) - (IF Cache!HasSummary(s) THEN 1 ELSE 0)
<1> DEFINE A == Summaries
           B == Summaries'
<1>1. DOMAIN dedup_cache = Cache!Slots
  BY DEF CacheInv, Cache!TypeOK
<1>2. IsFiniteSet(Cache!Slots)
  BY SummariesFinite
<1>3. A \in SUBSET Cache!Slots
  BY DEF Summaries
<1>4. \A r \in Cache!Slots : r # s => (r \in B <=> r \in A)
  BY <1>1 DEF Summaries, Cache!HasSummary
<1>5. B \in SUBSET Cache!Slots
  BY DEF Summaries
<1>6. s \in A <=> Cache!HasSummary(s)
  BY DEF Summaries
<1>7. (~x.active \/ x.repeat = 0) => s \notin B
  <2>1. dedup_cache'[s] = x
    BY <1>1
  <2>2. s \in B => x.active /\ x.repeat > 0
    BY <2>1 DEF Summaries, Cache!HasSummary
  <2> QED
    BY <2>2
<1> HIDE DEF A, B
<1>8. IsFiniteSet(A) /\ Cardinality(A) \in Nat /\ IsFiniteSet(B) /\ Cardinality(B) \in Nat
  BY <1>2, <1>3, <1>5, FS_Subset, FS_CardinalityType
<1>9. Cardinality(B) <= Cardinality(A) + 1
  <2>1. B \in SUBSET (A \cup {s})
    BY <1>4, <1>5
  <2>2. IsFiniteSet(A \cup {s}) /\ Cardinality(A \cup {s}) \in Nat
        /\ Cardinality(A \cup {s}) <= Cardinality(A) + 1
    <3>1. /\ IsFiniteSet(A \cup {s})
          /\ Cardinality(A \cup {s}) = IF s \in A THEN Cardinality(A) ELSE Cardinality(A) + 1
      BY <1>8, FS_AddElement
    <3> QED
      BY <1>8, <3>1, FS_CardinalityType
  <2>3. Cardinality(B) <= Cardinality(A \cup {s})
    BY <2>1, <2>2, FS_Subset
  <2> QED
    BY <1>8, <2>2, <2>3
<1>10. s \notin B => Cardinality(B) = Cardinality(A) - (IF s \in A THEN 1 ELSE 0)
  <2> SUFFICES ASSUME s \notin B PROVE Cardinality(B) = Cardinality(A) - (IF s \in A THEN 1 ELSE 0)
    OBVIOUS
  <2>1. B = A \ {s}
    BY <1>3, <1>4, <1>5
  <2> QED
    BY <1>8, <2>1, FS_RemoveElement
<1> QED
  BY <1>6, <1>7, <1>8, <1>9, <1>10 DEF A, B

\* The findings with key k: all are told, or those that the cache has shown or summarised.
Balanced(k) ==
    LET due == Cardinality(Due(all_events, handled, k))
        tells == Cardinality(ToldIn(printed, k))
    IN IF all_events THEN tells = due /\ lost[k] = 0
       ELSE tells = shown[k] + summed[k] /\ due = seen[k]

\* What the output, the telemetry, the cache and the history have to do with each other.
Agreed ==
    /\ all_events \in BOOLEAN
    /\ OutInv(Output(telemetry))
    /\ Events(telemetry) = Len(handled)
    /\ Cardinality(AlertsIn(printed)) + Cardinality(Summaries) <= telemetry.suspicious_events
    /\ \A k \in FindingKeys : Balanced(k)
    /\ all_events => \A s \in Cache!Slots : ~dedup_cache[s].active

\* An agent that starts has seen and told nothing.
LEMMA AgreedInit ==
    ASSUME AgentInit
    PROVE  Agreed
<1>1. /\ all_events \in BOOLEAN /\ telemetry = NothingCounted /\ printed = <<>> /\ handled = <<>>
      /\ Cache!Init
  BY DEF AgentInit, Init
<1>2. /\ printed \in Seq(OutRecords) /\ Len(printed) = 0 /\ DOMAIN printed = {}
      /\ Len(handled) = 0 /\ DOMAIN handled = {}
  BY <1>1
<1>3. AlertsIn(printed) = {} /\ \A k : ToldIn(printed, k) = {} /\ Due(all_events, handled, k) = {}
  BY <1>2 DEF AlertsIn, ToldIn, Due
<1>4. Cardinality({}) = 0
  BY FS_EmptySet
<1>5. \A s \in Cache!Slots : ~dedup_cache[s].active
  BY <1>1 DEF Cache!Init, Cache!Cleared
<1>6. Summaries = {}
  BY <1>5 DEF Summaries, Cache!HasSummary
<1>7. \A k \in FindingKeys : seen[k] = 0 /\ shown[k] = 0 /\ summed[k] = 0 /\ lost[k] = 0
  BY <1>1 DEF Cache!Init
<1>8. \A k \in FindingKeys : Balanced(k)
  BY <1>3, <1>4, <1>7 DEF Balanced
<1>9. IsTelemetry(telemetry) /\ Events(telemetry) = 0 /\ telemetry.suspicious_events = 0
      /\ telemetry.alert_count = 0
  <2>1. \A size \in Nat \ {0} : IsRing(<<>>, 0, size)
    BY DEF IsRing
  <2>2. MAX_ALERTS \in Nat \ {0} /\ MAX_RECENT_EVENTS \in Nat \ {0}
    BY AgentAssumption
  <2> QED
    BY <1>1, <2>1, <2>2 DEF NothingCounted, IsTelemetry, Events
<1>10. OutInv(Output(telemetry))
  <2>1. 0 < MAX_ALERTS
    BY AgentAssumption
  <2> QED
    BY <1>2, <1>3, <1>4, <1>9, <2>1 DEF OutInv, Output, InRing
<1>11. Events(telemetry) = Len(handled)
  BY <1>2, <1>9
<1>12. Cardinality(AlertsIn(printed)) + Cardinality(Summaries) <= telemetry.suspicious_events
  BY <1>3, <1>4, <1>6, <1>9
<1> QED
  BY <1>1, <1>5, <1>8, <1>10, <1>11, <1>12 DEF Agreed

\* The output that a step leaves behind.
LEMMA BecomesIs ==
    ASSUME NEW out, OutInv(out), Becomes(out)
    PROVE  /\ OutInv(Output(telemetry))'
           /\ telemetry' = out.telemetry
           /\ Cardinality(AlertsIn(printed))' = AlertCount(out)
           /\ \A k : Cardinality(ToldIn(printed, k))' = ToldCount(out, k)
<1>1. telemetry' = out.telemetry /\ printed' = out.printed
  BY DEF Becomes
<1> QED
  BY <1>1 DEF OutInv, Output, AlertCount, ToldCount

\* One iteration of flush_dedup_cache.
LEMMA FlushAgrees ==
    ASSUME CacheInv, Agreed, Flush
    PROVE  Agreed'
<1> DEFINE s == flushPos
           new == emit_dedup_entry(Output(telemetry), flushPos)
<1>1. /\ s \in Cache!Slots /\ UNCHANGED <<handled, all_events, seen, shown, lost>>
      /\ dedup_cache' = [dedup_cache EXCEPT ![s] = Cache!Cleared]
      /\ summed' = Cache!SummedAfter(s) /\ Becomes(new)
  BY DEF CacheInv, Flush, Cache!FlushEntry, Cache!AfterEmit, vars
<1>2. OutInv(Output(telemetry)) /\ Output(telemetry).telemetry = telemetry
      /\ Output(telemetry).printed = printed
  BY DEF Agreed, Output
<1>3. /\ OutInv(new) /\ Events(new.telemetry) = Events(telemetry)
      /\ new.telemetry.suspicious_events = telemetry.suspicious_events
      /\ AlertCount(new) = Cardinality(AlertsIn(printed)) + (IF Cache!HasSummary(s) THEN 1 ELSE 0)
      /\ Cardinality(AlertsIn(printed)) \in Nat
      /\ \A k \in FindingKeys :
            /\ Cardinality(ToldIn(printed, k)) \in Nat /\ ToldCount(new, k) \in Nat
            /\ summed[k] \in Nat /\ Cache!SummedAfter(s)[k] \in Nat
            /\ ToldCount(new, k) + summed[k] = Cardinality(ToldIn(printed, k)) + Cache!SummedAfter(s)[k]
  BY <1>1, <1>2, EmitAdds DEF AlertCount, ToldCount
<1> HIDE DEF new, s
<1>4. /\ OutInv(Output(telemetry))' /\ telemetry' = new.telemetry
      /\ Cardinality(AlertsIn(printed))' = AlertCount(new)
      /\ \A k : Cardinality(ToldIn(printed, k))' = ToldCount(new, k)
  BY <1>1, <1>3, BecomesIs
<1>5. /\ Cardinality(Summaries) \in Nat /\ Cardinality(Summaries') \in Nat
      /\ Cardinality(Summaries') = Cardinality(Summaries) - (IF Cache!HasSummary(s) THEN 1 ELSE 0)
  <2>1. ~Cache!Cleared.active
    BY DEF Cache!Cleared
  <2> QED
    BY <1>1, <2>1, SlotWritten
<1>6. telemetry.suspicious_events \in Nat
      /\ Cardinality(AlertsIn(printed)) + Cardinality(Summaries) <= telemetry.suspicious_events
  BY <1>2 DEF Agreed, OutInv, IsTelemetry
<1>7. (Cardinality(AlertsIn(printed)) + Cardinality(Summaries) <= telemetry.suspicious_events)'
  BY <1>3, <1>4, <1>5, <1>6
<1>8. all_events => \A r \in Cache!Slots : ~dedup_cache'[r].active
  <2>1. DOMAIN dedup_cache = Cache!Slots /\ ~Cache!Cleared.active
    BY DEF CacheInv, Cache!TypeOK, Cache!Cleared
  <2> QED
    BY <1>1, <2>1 DEF Agreed
<1>9. ASSUME NEW k \in FindingKeys PROVE Balanced(k)'
  <2>1. Balanced(k)
    BY DEF Agreed
  <2>2. Due(all_events, handled, k)' = Due(all_events, handled, k)
    BY <1>1
  <2>3. /\ Cardinality(ToldIn(printed, k))' + summed[k] = Cardinality(ToldIn(printed, k)) + summed'[k]
        /\ summed[k] \in Nat /\ summed'[k] \in Nat /\ Cardinality(ToldIn(printed, k))' \in Nat
        /\ Cardinality(ToldIn(printed, k)) \in Nat
    BY <1>1, <1>3, <1>4
  <2>4. CASE all_events
    <3>1. summed'[k] = summed[k]
      <4>1. ~Cache!HasSummary(s)
        BY <1>1, <2>4 DEF Agreed, Cache!HasSummary
      <4> QED
        BY <1>1, <4>1 DEF Cache!SummedAfter
    <3>2. Cardinality(ToldIn(printed, k))' = Cardinality(ToldIn(printed, k))
      BY <2>3, <3>1
    <3> QED
      BY <1>1, <2>1, <2>2, <2>4, <3>2 DEF Balanced
  <2>5. CASE ~all_events
    <3>1. shown[k] \in Nat
      BY DEF CacheInv, Cache!TypeOK
    <3>2. Cardinality(ToldIn(printed, k)) = shown[k] + summed[k]
      BY <2>1, <2>5 DEF Balanced
    <3>3. Cardinality(ToldIn(printed, k))' = shown[k] + summed'[k]
      BY <2>3, <3>1, <3>2
    <3> QED
      BY <1>1, <2>1, <2>2, <2>5, <3>3 DEF Balanced
  <2> QED
    BY <2>4, <2>5
<1>10. Events(telemetry)' = Len(handled)'
  BY <1>1, <1>3, <1>4 DEF Agreed
<1> QED
  BY <1>1, <1>4, <1>7, <1>8, <1>9, <1>10 DEF Agreed

\* handle_event after the finding: the event is counted, and the finding goes to the
\* output, through the cache or around it, or nowhere.
LEMMA HandleAgrees ==
    ASSUME IInv, CacheInv, Agreed, Handle
    PROVE  Agreed'
<1> DEFINE h == Last(handled')
           key == KeyOf(h)
           dst == DstOf(h.e)
           out == Output(Counted(telemetry, h))
           record == [key |-> key, count |-> 0, alert |-> h.finding.severity > INFO]
           suspect == h.finding.severity > INFO
           alerts == Cardinality(AlertsIn(printed))
           rest == Cardinality(Summaries)
<1>1. /\ handled' = Append(handled, h) /\ h.e \in AllCalls /\ h.ts \in Ts
      /\ key \in FindingKeys /\ dst \in Dsts /\ Raised(h)
  BY HandledIs DEF Handle
<1>2. Report(h) /\ all_events' = all_events /\ stage = "running"
  BY DEF Handle
<1>3. /\ OutInv(Output(telemetry)) /\ Output(telemetry).telemetry = telemetry
      /\ Output(telemetry).printed = printed
      /\ out.telemetry = Counted(telemetry, h) /\ out.printed = printed
  BY DEF Agreed, Output
<1>4. IsEvent(h.e) /\ h.finding.severity \in Severities
  BY <1>1, AgentAssumption DEF Raised
<1>5. /\ OutInv(out) /\ Events(out.telemetry) = Events(telemetry) + 1
      /\ out.telemetry.suspicious_events =
            telemetry.suspicious_events + (IF suspect THEN 1 ELSE 0)
  <2> HIDE DEF h
  <2> QED
    BY <1>3, <1>4, CountedKeeps DEF Output
<1>6. Report(h) <=>
        \/ ~Emits(h) /\ Becomes(out) /\ UNCHANGED cacheVars
        \/ Emits(h) /\ all_events /\ Becomes(Shows(out, record)) /\ UNCHANGED cacheVars
        \/ /\ Emits(h) /\ ~all_events
           /\ \/ Cache!Suppress(key, dst, h.ts) /\ Becomes(out)
              \/ /\ Cache!Expire(key, dst, h.ts)
                 /\ \E s \in Cache!Slots :
                       Cache!Match(s, key) /\ Becomes(Shows(emit_dedup_entry(out, s), record))
              \/ /\ Cache!Insert(key, dst, h.ts)
                 /\ Becomes(Shows(emit_dedup_entry(out, dedup_cursor), record))
  BY DEF Report
<1>7. Emits(h) <=> (all_events \/ Worth(h))
  <2>1. h.finding.severity > INFO <=> h.finding.severity >= WARN
    BY <1>4 DEF Severities, INFO, WARN, CRITICAL
  <2> HIDE DEF h
  <2> QED
    BY <2>1 DEF Emits, should_emit, Worth
<1>8. Worth(h) => suspect
  BY <1>4 DEF Worth, Severities, INFO, WARN, CRITICAL
<1>9. /\ Len(handled') = Len(handled) + 1
      /\ \A k : /\ Cardinality(Due(all_events, handled, k)) \in Nat
                /\ Cardinality(Due(all_events, handled, k))' =
                      Cardinality(Due(all_events, handled, k)) + (IF key = k /\ Emits(h) THEN 1 ELSE 0)
  <2>1. IsSeq(handled)
    BY DEF IInv, HistoryInv
  <2>2. Len(handled') = Len(handled) + 1
    BY <1>1, <2>1, AppendIs
  <2> HIDE DEF h
  <2>3. ASSUME NEW k
        PROVE  /\ Cardinality(Due(all_events, handled, k)) \in Nat
               /\ Cardinality(Due(all_events, handled, k))' =
                      Cardinality(Due(all_events, handled, k)) + (IF key = k /\ Emits(h) THEN 1 ELSE 0)
    <3>1. /\ Cardinality(Due(all_events, handled, k)) \in Nat
          /\ Cardinality(Due(all_events, Append(handled, h), k)) =
                 Cardinality(Due(all_events, handled, k))
                    + (IF KeyOf(h) = k /\ (all_events \/ Worth(h)) THEN 1 ELSE 0)
      BY <2>1, DueGrows
    <3>2. Due(all_events, handled, k)' = Due(all_events, Append(handled, h), k)
      BY <1>1, <1>2 DEF Due
    <3> QED
      BY <1>7, <3>1, <3>2
  <2> QED
    BY <2>2, <2>3
<1>10. /\ record.key = key /\ record.alert = suspect /\ StandsFor(record) = 1
       /\ record \in OutRecords
  <2>1. 0 \in 0 .. RepeatModulus - 1
    BY AgentAssumption
  <2> QED
    BY <1>1, <2>1 DEF OutRecords, StandsFor
<1>11. /\ alerts \in Nat /\ rest \in Nat /\ telemetry.suspicious_events \in Nat
       /\ alerts + rest <= telemetry.suspicious_events
       /\ \A k \in FindingKeys : /\ Cardinality(ToldIn(printed, k)) \in Nat
                                 /\ ToldCount(out, k) = Cardinality(ToldIn(printed, k))
       /\ AlertCount(out) = alerts
  <2>1. 0 \in Cache!Slots
    BY AgentAssumption DEF Cache!Slots
  <2>2. rest \in Nat
    BY SummariesFinite
  <2>3. alerts \in Nat /\ \A k \in FindingKeys : Cardinality(ToldIn(printed, k)) \in Nat
    BY <1>3, <2>1, EmitAdds DEF AlertCount, ToldCount
  <2>4. telemetry.suspicious_events \in Nat
    BY <1>3 DEF OutInv, IsTelemetry
  <2>5. alerts + rest <= telemetry.suspicious_events
    BY DEF Agreed
  <2> HIDE DEF h
  <2> QED
    BY <1>3, <2>2, <2>3, <2>4, <2>5 DEF AlertCount, ToldCount
<1>12. Events(telemetry) = Len(handled)
  BY DEF Agreed
<1>13. ASSUME NEW new, OutInv(new), Becomes(new), Events(new.telemetry) = Events(out.telemetry),
              AlertCount(new) + Cardinality(Summaries)' <= new.telemetry.suspicious_events,
              \A k \in FindingKeys : Balanced(k)',
              all_events => \A s \in Cache!Slots : ~dedup_cache'[s].active
       PROVE  Agreed'
  <2>1. /\ OutInv(Output(telemetry))' /\ telemetry' = new.telemetry
        /\ Cardinality(AlertsIn(printed))' = AlertCount(new)
    BY <1>13, BecomesIs
  <2>2. Events(telemetry)' = Len(handled)'
    BY <1>5, <1>9, <1>12, <1>13, <2>1
  <2>3. (Cardinality(AlertsIn(printed)) + Cardinality(Summaries) <= telemetry.suspicious_events)'
    BY <1>13, <2>1
  <2>4. (all_events \in BOOLEAN)'
    BY <1>2 DEF Agreed
  <2> QED
    BY <1>2, <1>13, <2>1, <2>2, <2>3, <2>4 DEF Agreed
<1> HIDE DEF h, key, dst, out, record, suspect, alerts, rest
<1>14. CASE ~Emits(h) /\ Becomes(out) /\ UNCHANGED cacheVars
  <2>1. UNCHANGED <<dedup_cache, seen, shown, summed, lost>>
    BY <1>14 DEF cacheVars
  <2>2. Summaries' = Summaries
    BY <2>1 DEF Summaries, Cache!HasSummary
  <2>3. AlertCount(out) + Cardinality(Summaries)' <= out.telemetry.suspicious_events
    BY <1>5, <1>11, <2>2 DEF rest
  <2>4. ASSUME NEW k \in FindingKeys PROVE Balanced(k)'
    <3>1. Cardinality(ToldIn(printed, k))' = Cardinality(ToldIn(printed, k))
      BY <1>5, <1>11, <1>14, BecomesIs
    <3>2. Cardinality(Due(all_events, handled, k))' = Cardinality(Due(all_events, handled, k))
      BY <1>9, <1>14
    <3> QED
      BY <1>2, <2>1, <3>1, <3>2 DEF Agreed, Balanced
  <2>5. all_events => \A s \in Cache!Slots : ~dedup_cache'[s].active
    BY <2>1 DEF Agreed
  <2> QED
    BY <1>5, <1>13, <1>14, <2>3, <2>4, <2>5
<1>15. CASE Emits(h) /\ all_events /\ Becomes(Shows(out, record)) /\ UNCHANGED cacheVars
  <2> DEFINE new == Shows(out, record)
  <2>1. UNCHANGED <<dedup_cache, seen, shown, summed, lost>>
    BY <1>15 DEF cacheVars
  <2>2. Summaries' = Summaries
    BY <2>1 DEF Summaries, Cache!HasSummary
  <2>3. Adds(new, out, record)
    BY <1>5, <1>10, ShowsAdds
  <2>4. Becomes(new)
    BY <1>15
  <2> HIDE DEF new
  <2>5. AlertCount(new) + Cardinality(Summaries)' <= new.telemetry.suspicious_events
    <3>1. AlertCount(new) = alerts + (IF suspect THEN 1 ELSE 0)
          /\ new.telemetry.suspicious_events = telemetry.suspicious_events + (IF suspect THEN 1 ELSE 0)
      BY <1>5, <1>10, <1>11, <2>3 DEF Adds
    <3> QED
      BY <1>11, <2>2, <3>1 DEF rest
  <2>6. ASSUME NEW k \in FindingKeys PROVE Balanced(k)'
    <3>1. Cardinality(ToldIn(printed, k))' = ToldCount(new, k)
      BY <2>3, <2>4, BecomesIs DEF Adds
    <3>2. ToldCount(new, k) = Cardinality(ToldIn(printed, k)) + (IF key = k THEN 1 ELSE 0)
      BY <1>10, <1>11, <2>3 DEF Adds
    <3>3. Cardinality(ToldIn(printed, k)) = Cardinality(Due(all_events, handled, k)) /\ lost[k] = 0
      BY <1>15 DEF Agreed, Balanced
    <3>4. Cardinality(Due(all_events, handled, k))' =
             Cardinality(Due(all_events, handled, k)) + (IF key = k THEN 1 ELSE 0)
      BY <1>9, <1>15
    <3>5. Cardinality(ToldIn(printed, k))' = Cardinality(Due(all_events, handled, k))'
      BY <3>1, <3>2, <3>3, <3>4
    <3> QED
      BY <1>2, <1>15, <2>1, <3>3, <3>5 DEF Balanced
  <2>7. all_events => \A s \in Cache!Slots : ~dedup_cache'[s].active
    BY <2>1 DEF Agreed
  <2> QED
    BY <1>13, <2>3, <2>4, <2>5, <2>6, <2>7 DEF Adds
<1>16. ASSUME Emits(h), ~all_events,
              seen' = [seen EXCEPT ![key] = @ + 1],
              NEW new, OutInv(new), Becomes(new), Events(new.telemetry) = Events(out.telemetry),
              new.telemetry.suspicious_events = out.telemetry.suspicious_events,
              AlertCount(new) + Cardinality(Summaries)' <= alerts + rest + 1,
              AlertCount(new) \in Nat, Cardinality(Summaries)' \in Nat,
              \A k \in FindingKeys : ToldCount(new, k) = shown'[k] + summed'[k]
       PROVE  Agreed'
  <2>1. AlertCount(new) + Cardinality(Summaries)' <= new.telemetry.suspicious_events
    <3>1. suspect
      BY <1>7, <1>8, <1>16
    <3> QED
      BY <1>5, <1>11, <1>16, <3>1
  <2>2. ASSUME NEW k \in FindingKeys PROVE Balanced(k)'
    <3>1. Cardinality(ToldIn(printed, k))' = shown'[k] + summed'[k]
      BY <1>16, BecomesIs
    <3>2. Cardinality(Due(all_events, handled, k))' = seen'[k]
      <4>1. Cardinality(Due(all_events, handled, k)) = seen[k]
        BY <1>16 DEF Agreed, Balanced
      <4>2. seen \in [FindingKeys -> Nat]
        BY DEF CacheInv, Cache!TypeOK
      <4>3. Cardinality(Due(all_events, handled, k))' = seen[k] + (IF key = k THEN 1 ELSE 0)
        BY <1>9, <1>16, <4>1
      <4>4. seen'[k] = seen[k] + (IF key = k THEN 1 ELSE 0)
        BY <1>1, <1>16, <4>2
      <4> QED
        BY <4>3, <4>4
    <3> QED
      BY <1>2, <1>16, <3>1, <3>2 DEF Balanced
  <2> QED
    BY <1>13, <1>16, <2>1, <2>2
<1>17. /\ shown \in [FindingKeys -> Nat] /\ summed \in [FindingKeys -> Nat]
       /\ dedup_cache \in [Cache!Slots -> Cache!Entry] /\ dedup_cursor \in Cache!Slots
  BY DEF CacheInv, Cache!TypeOK
<1>18. ASSUME ~all_events, NEW k \in FindingKeys
       PROVE  Cardinality(ToldIn(printed, k)) = shown[k] + summed[k]
  BY <1>18 DEF Agreed, Balanced
<1>19. CASE Emits(h) /\ ~all_events /\ Cache!Suppress(key, dst, h.ts) /\ Becomes(out)
  <2>1. seen' = [seen EXCEPT ![key] = @ + 1] /\ shown' = shown /\ summed' = summed
    BY <1>19 DEF Cache!Suppress, Cache!Arrive
  <2>2. PICK s \in Cache!Slots :
          dedup_cache' = [dedup_cache EXCEPT ![s] = Cache!Repeated(dedup_cache[s], h.ts)]
    BY <1>19 DEF Cache!Suppress
  <2>3. rest \in Nat /\ Cardinality(Summaries)' \in Nat /\ Cardinality(Summaries)' <= rest + 1
    BY <2>2, SlotWritten DEF rest
  <2>4. \A k \in FindingKeys : ToldCount(out, k) = shown'[k] + summed'[k]
    BY <1>11, <1>18, <1>19, <2>1
  <2>5. AlertCount(out) + Cardinality(Summaries)' <= alerts + rest + 1 /\ AlertCount(out) \in Nat
    BY <1>11, <2>3
  <2> QED
    BY <1>5, <1>16, <1>19, <2>1, <2>3, <2>4, <2>5
<1>20. ASSUME Emits(h), ~all_events, NEW s \in Cache!Slots, NEW x,
              seen' = [seen EXCEPT ![key] = @ + 1], shown' = [shown EXCEPT ![key] = @ + 1],
              dedup_cache' = [dedup_cache EXCEPT ![s] = x], ~x.active \/ x.repeat = 0,
              summed' = Cache!SummedAfter(s),
              Becomes(Shows(emit_dedup_entry(out, s), record))
       PROVE  Agreed'
  <2> DEFINE mid == emit_dedup_entry(out, s)
             new == Shows(mid, record)
             summary == IF Cache!HasSummary(s) THEN 1 ELSE 0
  <2>1. /\ OutInv(mid) /\ Events(mid.telemetry) = Events(out.telemetry)
        /\ mid.telemetry.suspicious_events = out.telemetry.suspicious_events
        /\ AlertCount(mid) = alerts + summary
        /\ \A k \in FindingKeys :
              /\ ToldCount(mid, k) \in Nat /\ summed'[k] \in Nat /\ summed[k] \in Nat
              /\ ToldCount(mid, k) + summed[k] = ToldCount(out, k) + summed'[k]
    BY <1>5, <1>11, <1>20, EmitAdds
  <2>2. Becomes(new)
    BY <1>20
  <2> HIDE DEF mid
  <2>3. Adds(new, mid, record)
    BY <1>10, <2>1, ShowsAdds
  <2>4. /\ rest \in Nat /\ Cardinality(Summaries)' \in Nat
        /\ Cardinality(Summaries)' = rest - summary
    BY <1>20, SlotWritten DEF rest
  <2> HIDE DEF new
  <2>5. AlertCount(new) \in Nat /\ AlertCount(new) + Cardinality(Summaries)' <= alerts + rest + 1
    <3>1. AlertCount(new) = AlertCount(mid) + (IF suspect THEN 1 ELSE 0)
      BY <1>10, <2>3 DEF Adds
    <3>2. summary \in {0, 1}
      OBVIOUS
    <3> HIDE DEF summary
    <3> QED
      BY <1>11, <2>1, <2>4, <3>1, <3>2
  <2>6. ASSUME NEW k \in FindingKeys PROVE ToldCount(new, k) = shown'[k] + summed'[k]
    <3>1. ToldCount(new, k) = ToldCount(mid, k) + (IF key = k THEN 1 ELSE 0)
      BY <1>10, <2>3 DEF Adds
    <3>2. shown'[k] = shown[k] + (IF key = k THEN 1 ELSE 0) /\ shown[k] \in Nat
      BY <1>1, <1>17, <1>20
    <3>3. ToldCount(out, k) = shown[k] + summed[k]
      BY <1>11, <1>18, <1>20
    <3>4. ToldCount(mid, k) = shown[k] + summed'[k]
      BY <2>1, <3>2, <3>3
    <3> QED
      BY <2>1, <3>1, <3>2, <3>4
  <2>7. OutInv(new) /\ Events(new.telemetry) = Events(out.telemetry)
        /\ new.telemetry.suspicious_events = out.telemetry.suspicious_events
    BY <2>1, <2>3 DEF Adds
  <2> QED
    BY <1>16, <1>20, <2>2, <2>4, <2>5, <2>6, <2>7
<1>21. ASSUME Emits(h), ~all_events, Cache!Expire(key, dst, h.ts), NEW s \in Cache!Slots,
              Cache!Match(s, key), Becomes(Shows(emit_dedup_entry(out, s), record))
       PROVE  Agreed'
  <2>1. seen' = [seen EXCEPT ![key] = @ + 1] /\ shown' = [shown EXCEPT ![key] = @ + 1]
    BY <1>21 DEF Cache!Expire, Cache!Arrive
  <2>2. PICK r \in Cache!Slots :
          /\ Cache!Match(r, key)
          /\ dedup_cache' = [dedup_cache EXCEPT ![r] = Cache!Cleared]
          /\ summed' = Cache!SummedAfter(r)
    BY <1>21 DEF Cache!Expire, Cache!AfterEmit
  <2>3. r = s
    <3>1. r \in Int /\ s \in Int
      BY DEF Cache!Slots
    <3> QED
      BY <1>21, <2>2, <3>1 DEF Cache!Match
  <2>4. ~Cache!Cleared.active
    BY DEF Cache!Cleared
  <2> QED
    BY <1>20, <1>21, <2>1, <2>2, <2>3, <2>4
<1>22. CASE /\ Emits(h) /\ ~all_events /\ Cache!Insert(key, dst, h.ts)
            /\ Becomes(Shows(emit_dedup_entry(out, dedup_cursor), record))
  <2> DEFINE x == [active |-> TRUE, key |-> key, dst |-> dst, last |-> h.ts, repeat |-> 0]
  <2>1. /\ seen' = [seen EXCEPT ![key] = @ + 1] /\ shown' = [shown EXCEPT ![key] = @ + 1]
        /\ dedup_cache' = [dedup_cache EXCEPT ![dedup_cursor] = x]
        /\ summed' = Cache!SummedAfter(dedup_cursor)
    BY <1>22 DEF Cache!Insert, Cache!Arrive
  <2>2. x.repeat = 0
    OBVIOUS
  <2> HIDE DEF x
  <2> QED
    BY <1>17, <1>20, <1>22, <2>1, <2>2
<1> QED
  BY <1>2, <1>6, <1>14, <1>15, <1>19, <1>21, <1>22

\* Steps that reach neither the output nor the cache nor the history.
LEMMA ElsewhereAgrees ==
    ASSUME Agreed,
           UNCHANGED <<handled, all_events, telemetry, printed, dedup_cache, seen, shown, summed, lost>>
    PROVE  Agreed'
<1>1. Output(telemetry)' = Output(telemetry) /\ Summaries' = Summaries
  BY DEF Output, Summaries, Cache!HasSummary
<1>2. OutInv(Output(telemetry))'
  BY <1>1 DEF Agreed, OutInv
<1>3. \A k \in FindingKeys : Balanced(k)'
  BY DEF Agreed, Balanced
<1> QED
  BY <1>1, <1>2, <1>3 DEF Agreed

\* Each step of the agent keeps the agreement.
LEMMA StepAgrees ==
    ASSUME IInv, CacheInv, Agreed, [AgentNext]_allVars
    PROVE  Agreed'
<1>1. CASE StopLoop
  BY <1>1, ElsewhereAgrees DEF StopLoop, Cache!Stop, Cache!book, vars
<1>2. CASE Traced
  BY <1>2, ElsewhereAgrees DEF Traced, agentVars, cacheVars, Enter, Submit, Exit, Tick
<1>3. CASE UNCHANGED allVars
  BY <1>3, ElsewhereAgrees DEF allVars, agentVars, cacheVars, vars
<1> QED
  BY <1>1, <1>2, <1>3, HandleAgrees, FlushAgrees DEF AgentNext

-------------------------------------------------------------------------------
(* The theorems.                                                             *)

\* The whole agent takes the steps of the pipeline: what handle_event does after the
\* finding, and the flush at the end, leave the ring, the table and the history alone.
LEMMA AgentStepIs ==
    ASSUME [AgentNext]_allVars
    PROVE  [Next]_vars
<1>1. CASE Handle
  BY <1>1 DEF Handle, Next
<1>2. CASE StopLoop
  BY <1>2 DEF StopLoop
<1>3. CASE Flush
  BY <1>3 DEF Flush
<1>4. CASE Traced
  BY <1>4 DEF Traced, Next
<1>5. CASE UNCHANGED allVars
  BY <1>5 DEF allVars
<1> QED
  BY <1>1, <1>2, <1>3, <1>4, <1>5 DEF AgentNext

\* IInv holds of the agent, whatever processes call, exit and are polled for.
THEOREM Invariant == AgentSpec => []IInv
<1>1. AgentInit => IInv
  BY InitInv DEF AgentInit
<1>2. IInv /\ [AgentNext]_allVars => IInv'
  BY AgentStepIs, StepInv
<1> QED
  BY <1>1, <1>2, PTL DEF AgentSpec

\* The pipeline of the agent is EventPipeline: the rest of handle_event adds nothing to
\* what may happen up to the finding.
THEOREM AgentIsPipeline == AgentSpec => Spec
<1>1. AgentInit => Init
  BY DEF AgentInit
<1>2. [AgentNext]_allVars => [Next]_vars
  BY AgentStepIs
<1> QED
  BY <1>1, <1>2, PTL DEF AgentSpec, Spec

\* Each call a process made was dropped at a full ring, handled, or is waiting, once,
\* and those of a process keep their order, from bpf_ringbuf_reserve to handle_event.
THEOREM CallsAccounted == AgentSpec => []EveryCallAccounted
<1>1. IInv => EveryCallAccounted
  <2> SUFFICES ASSUME IInv PROVE EveryCallAccounted
    OBVIOUS
  <2>2. Accounted(Kept(handled, ring), dropped, made)
    BY DEF IInv
  <2> QED
    BY <2>2 DEF EveryCallAccounted, Accounted, Kept, IdsOf
<1> QED
  BY <1>1, Invariant, PTL

\* A transfer blamed for a sensitive read has a reader among what was handled before, and
\* the root they share is init or at most two generations above each.
THEOREM BlameIsOfKin == AgentSpec => []CorrelatedAreKin
<1>1. IInv => CorrelatedAreKin
  <2> SUFFICES ASSUME IInv, NEW j \in DOMAIN handled, Blamed(handled[j])
               PROVE  \E i \in 1 .. j - 1 :
                        /\ IsRead(handled[i]) /\ handled[i].root = handled[j].root
                        /\ handled[i].root \in {1} \cup (Up(handled[i].e.pid) \cap Up(handled[j].e.pid))
    BY DEF CorrelatedAreKin
  <2>1. PICK i \in 1 .. j - 1 : IsRead(handled[i]) /\ handled[i].root = handled[j].root
    BY DEF IInv, BlameIsTrue
  <2>2. i \in DOMAIN handled
    <3>1. Len(handled) \in Nat /\ DOMAIN handled = 1 .. Len(handled)
      BY SeqIs DEF IInv, HistoryInv
    <3> QED
      BY <3>1
  <2>3. /\ handled[i].root \in {1} \cup Up(handled[i].e.pid)
        /\ handled[j].root \in {1} \cup Up(handled[j].e.pid)
    BY <2>2 DEF IInv, HistoryInv
  <2> QED
    BY <2>1, <2>3
<1> QED
  BY <1>1, Invariant, PTL

\* While records come in timestamp order and the table has room for the roots, no public
\* transfer inside the window of a read with its root escapes flow.sensitive_read_then_public_net.
THEOREM TransferIsCaught == AgentSpec => []ReadThenConnectCaught
<1>1. IInv => ReadThenConnectCaught
  <2> SUFFICES ASSUME IInv, NEW i \in DOMAIN handled, NEW j \in DOMAIN handled,
                      i < j, IsRead(handled[i]), IsPublicTransfer(handled[j].e),
                      handled[i].root = handled[j].root, FLOW_SENSITIVE_READ \notin Policy.disabled,
                      handled[j].ts - handled[i].ts <= FlowWindow,
                      \A m \in 2 .. j : handled[m - 1].ts <= handled[m].ts,
                      Cardinality({handled[m].root : m \in 1 .. j}) <= FLOW_STATE_ENTRIES
               PROVE  Blamed(handled[j])
    BY DEF ReadThenConnectCaught
  <2>1. Orderly(handled, j)
    BY DEF Orderly, RootsTo
  <2> QED
    BY <2>1 DEF IInv, Caught
<1> QED
  BY <1>1, Invariant, PTL
\* The whole invariant: of the pipeline, of the duplicate cache, and of what they make
\* of the output.
THEOREM AgentInvariant == AgentSpec => [](IInv /\ Proved!IInv /\ Agreed)
<1>1. AgentInit => IInv /\ Proved!IInv /\ Agreed
  <2> SUFFICES ASSUME AgentInit PROVE IInv /\ Proved!IInv /\ Agreed
    OBVIOUS
  <2>1. Proved!IInv
    BY CacheAssumption, SameSteps, Proved!InitInv DEF AgentInit
  <2> QED
    BY <2>1, InitInv, AgreedInit DEF AgentInit
<1>2. IInv /\ Proved!IInv /\ Agreed /\ [AgentNext]_allVars => (IInv /\ Proved!IInv /\ Agreed)'
  <2> SUFFICES ASSUME IInv, Proved!IInv, Agreed, [AgentNext]_allVars
               PROVE  IInv' /\ Proved!IInv' /\ Agreed'
    OBVIOUS
  <2>1. IInv'
    BY AgentStepIs, StepInv
  <2>2. Proved!IInv'
    BY CacheAssumption, CacheSteps, SameSteps, Proved!StepInv
  <2>3. Agreed'
    BY CacheHolds, StepAgrees
  <2> QED
    BY <2>1, <2>2, <2>3
<1> QED
  BY <1>1, <1>2, PTL DEF AgentSpec

\* handle_event and the end of main use the duplicate cache as its specification says,
\* so what is proved of it alone holds of it in the agent.
THEOREM AgentUsesCache == AgentSpec => Cache!Init /\ [][Cache!Next]_(Cache!vars)
<1>1. AgentInit => Cache!Init
  BY DEF AgentInit
<1>2. IInv /\ [AgentNext]_allVars => [Cache!Next]_(Cache!vars)
  BY CacheSteps
<1> QED
  BY <1>1, <1>2, Invariant, PTL DEF AgentSpec

\* What is printed is of a finding the calls can raise; the ring of records, the flow
\* table, the duplicate cache and the telemetry stay in their ranges.
THEOREM TypeCorrect == AgentSpec => []AgentTypeOK
<1>1. IInv /\ Proved!IInv /\ Agreed => AgentTypeOK
  <2> SUFFICES ASSUME IInv, Proved!IInv, Agreed PROVE AgentTypeOK
    OBVIOUS
  <2>1. OutInv(Output(telemetry)) /\ Output(telemetry).telemetry = telemetry
        /\ Output(telemetry).printed = printed
    BY DEF Agreed, Output
  <2>2. printed \in Seq(OutRecords) /\ IsTelemetry(telemetry)
    BY <2>1 DEF OutInv
  <2>3. \A i \in DOMAIN printed :
           printed[i].key \in FindingKeys /\ printed[i].count \in 0 .. RepeatModulus - 1
    <3>1. \A i \in DOMAIN printed : printed[i] \in OutRecords
      BY <2>2, LenProperties
    <3> QED
      BY <3>1 DEF OutRecords
  <2>4. /\ DOMAIN telemetry.alerts \subseteq 0 .. MAX_ALERTS - 1
        /\ DOMAIN telemetry.recent_events \subseteq 0 .. MAX_RECENT_EVENTS - 1
    BY <2>2 DEF IsTelemetry, IsRing
  <2>5. telemetry.alert_count \in 0 .. MAX_ALERTS
    <3> DEFINE n == Cardinality(AlertsIn(printed))
    <3>1. telemetry.alert_count = IF n < MAX_ALERTS THEN n ELSE MAX_ALERTS
      BY <2>1 DEF OutInv
    <3>2. n \in Nat
      BY <2>2, AlertsFinite
    <3>3. MAX_ALERTS \in Nat
      BY AgentAssumption
    <3> HIDE DEF n
    <3> QED
      BY <3>1, <3>2, <3>3
  <2>6. TypeOK /\ Cache!TypeOK
    BY CacheHolds DEF IInv, CacheInv
  <2> QED
    BY <2>3, <2>4, <2>5, <2>6 DEF AgentTypeOK
<1> QED
  BY <1>1, AgentInvariant, PTL

\* The rings and counters of the telemetry agree with the output and with the events
\* handled, after any number of turns.
THEOREM TelemetryTrue == AgentSpec => []TelemetryAgrees
<1>1. Agreed => TelemetryAgrees
  <2> SUFFICES ASSUME Agreed PROVE TelemetryAgrees
    OBVIOUS
  <2> DEFINE t == telemetry
             n == Cardinality(AlertsIn(printed))
  <2>1. OutInv(Output(telemetry)) /\ Output(telemetry).telemetry = t
        /\ Output(telemetry).printed = printed
    BY DEF Agreed, Output
  <2>2. /\ printed \in Seq(OutRecords) /\ IsTelemetry(t)
        /\ t.alert_count = (IF n < MAX_ALERTS THEN n ELSE MAX_ALERTS)
        /\ InRing(t.alerts, t.alert_head, MAX_ALERTS, printed, AlertsIn(printed))
        /\ InRing(t.recent_events, t.recent_head, MAX_RECENT_EVENTS, printed, DOMAIN printed)
    BY <2>1 DEF OutInv
  <2>3. Alerts = AlertsIn(printed)
    BY DEF Alerts, AlertsIn
  <2>4. /\ Holds(t.alerts, t.alert_head, MAX_ALERTS, Alerts)
        /\ Holds(t.recent_events, t.recent_head, MAX_RECENT_EVENTS, DOMAIN printed)
    BY <2>2, <2>3 DEF Holds, InRing
  <2>5. t.exec_events + t.mem_events + t.file_events + t.net_events = Len(handled)
    BY DEF Agreed, Events
  <2>6. n <= t.suspicious_events
    <3>1. n \in Nat
      BY <2>2, AlertsFinite
    <3>2. Cardinality(Summaries) \in Nat
      BY SummariesFinite
    <3>3. t.suspicious_events \in Nat
      BY <2>2 DEF IsTelemetry
    <3>4. n + Cardinality(Summaries) <= t.suspicious_events
      BY DEF Agreed
    <3> HIDE DEF n, t
    <3> QED
      BY <3>1, <3>2, <3>3, <3>4
  <2> HIDE DEF t
  <2> QED
    BY <2>2, <2>3, <2>4, <2>5, <2>6 DEF TelemetryAgrees, t
<1> QED
  BY <1>1, AgentInvariant, PTL

\* Once the agent has exited each finding due stands in one record and in no second, but
\* for what a wrap of repeat_count swallowed.
THEOREM NothingGoesUntold == AgentSpec => []NothingUntold
<1>1. Proved!IInv /\ Agreed => NothingUntold
  <2> SUFFICES ASSUME Proved!IInv, Agreed, stage = "exited", NEW k \in FindingKeys
               PROVE  Cardinality(Told(k)) + lost[k] =
                        Cardinality({i \in DOMAIN handled :
                                        KeyOf(handled[i]) = k /\ (all_events \/ Worth(handled[i]))})
    BY DEF NothingUntold
  <2>1. Told(k) = ToldIn(printed, k)
    BY DEF Told, ToldIn
  <2>2. Balanced(k)
    BY DEF Agreed
  <2>3. /\ seen[k] = shown[k] + summed[k] + lost[k]
        /\ seen[k] \in Nat /\ shown[k] \in Nat /\ summed[k] \in Nat /\ lost[k] \in Nat
    BY CacheHolds DEF CacheInv, Cache!TypeOK
  <2> DEFINE due == Cardinality(Due(all_events, handled, k))
             tells == Cardinality(ToldIn(printed, k))
  <2>4. tells + lost[k] = due
    <3>1. CASE all_events
      <4>1. tells = due /\ lost[k] = 0
        BY <2>2, <3>1 DEF Balanced
      <4>2. tells \in Nat
        <5>1. printed \in Seq(OutRecords)
          BY DEF Agreed, OutInv, Output
        <5>2. [key |-> k, count |-> 0, alert |-> TRUE] \in OutRecords
          BY AgentAssumption DEF OutRecords
        <5> QED
          BY <5>1, <5>2, ToldGrows
      <4> HIDE DEF due, tells
      <4> QED
        BY <4>1, <4>2
    <3>2. CASE ~all_events
      <4>1. tells = shown[k] + summed[k] /\ due = seen[k]
        BY <2>2, <3>2 DEF Balanced
      <4> HIDE DEF due, tells
      <4> QED
        BY <2>3, <4>1
    <3> QED
      BY <3>1, <3>2
  <2> QED
    BY <2>1, <2>4 DEF Due
<1> QED
  BY <1>1, AgentInvariant, PTL
===============================================================================
