-------------------------- MODULE AgentSessionProofs ---------------------------
(***************************************************************************)
(* What the daemon keeps of its configuration file and of the ring, for    *)
(* every text, every workload and every interleaving of its steps with     *)
(* signals, kills, edits and calls.                                        *)
(***************************************************************************)
EXTENDS AgentSession, DetectionProofs, SequenceTheorems, TLAPS

-------------------------------------------------------------------------------
(* Induction over sequences and numbers, as sets.                            *)

\* A set of sequences that has the empty one and with a sequence its extensions has all.
LEMMA SeqInduct ==
    ASSUME NEW T, NEW G, <<>> \in G, \A s \in Seq(T), x \in T : s \in G => Append(s, x) \in G
    PROVE  Seq(T) \subseteq G
<1> DEFINE Missed == {n \in Nat : \E s \in Seq(T) : Len(s) = n /\ s \notin G}
<1> SUFFICES ASSUME NEW s \in Seq(T), s \notin G PROVE FALSE
  OBVIOUS
<1>1. Len(s) \in Missed
  BY LenProperties
<1>2. PICK n \in Missed : \A k \in Missed : <<k, n>> \notin OpToRel(<, Nat)
  <2>1. Missed \subseteq Nat /\ Missed # {}
    BY <1>1
  <2> HIDE DEF Missed
  <2> QED
    BY <2>1, NatLessThanWellFounded, WFMin
<1>3. PICK t \in Seq(T) : Len(t) = n /\ t \notin G
  OBVIOUS
<1>4. t # <<>>
  BY <1>3
<1>5. PICK u \in Seq(T), x \in T : t = Append(u, x)
  BY <1>4, SequenceEmptyOrAppend
<1>6. Len(u) \in Nat /\ n = Len(u) + 1
  BY <1>3, <1>5, AppendProperties, LenProperties
<1>7. <<Len(u), n>> \in OpToRel(<, Nat)
  BY <1>6 DEF OpToRel
<1>8. u \notin G
  BY <1>3, <1>5
<1>9. Len(u) \in Missed
  BY <1>6, <1>8
<1> QED
  BY <1>2, <1>7, <1>9

\* A set of numbers that has 0 and with a number its successor has all.
LEMMA NatInduct ==
    ASSUME NEW G, 0 \in G, \A n \in Nat : n \in G => n + 1 \in G
    PROVE  Nat \subseteq G
<1> DEFINE Missed == {n \in Nat : n \notin G}
<1> SUFFICES ASSUME Missed # {} PROVE FALSE
  OBVIOUS
<1>1. PICK n \in Missed : \A k \in Missed : <<k, n>> \notin OpToRel(<, Nat)
  <2>1. Missed \subseteq Nat
    OBVIOUS
  <2> HIDE DEF Missed
  <2> QED
    BY <2>1, NatLessThanWellFounded, WFMin
<1>2. n # 0
  OBVIOUS
<1>3. n - 1 \in Nat /\ <<n - 1, n>> \in OpToRel(<, Nat)
  BY <1>2 DEF OpToRel
<1>4. n - 1 \in G
  BY <1>1, <1>3
<1>5. (n - 1) + 1 \in G
  BY <1>3, <1>4
<1> QED
  BY <1>5

-------------------------------------------------------------------------------
(* The elements of a sequence that are in a set, and removals.               *)

\* A step over a set S of elements, as Those takes it.
ThoseFrom(f, s, S) ==
    f = [n \in 0 .. Len(s) |->
            IF n = 0 THEN <<>> ELSE IF s[n] \in S THEN Append(f[n - 1], s[n]) ELSE f[n - 1]]

\* What Those collects from a sequence is the last value of any function so defined.
LEMMA ThoseIs ==
    ASSUME NEW T, NEW s \in Seq(T), NEW S, NEW f, ThoseFrom(f, s, S)
    PROVE  Those(s, S) = f[Len(s)]
<1> DEFINE g == CHOOSE h : ThoseFrom(h, s, S)
<1>1. ThoseFrom(g, s, S)
  OBVIOUS
<1>2. Those(s, S) = g[Len(s)]
  BY DEF Those, ThoseFrom
<1> DEFINE Same == {n \in Nat : n <= Len(s) => g[n] = f[n]}
<1>3. Len(s) \in Nat
  BY LenProperties
<1> HIDE DEF g
<1>4. 0 \in Same
  BY <1>1, <1>3 DEF ThoseFrom
<1>5. ASSUME NEW n \in Nat, n \in Same PROVE n + 1 \in Same
  <2> SUFFICES ASSUME n + 1 <= Len(s) PROVE g[n + 1] = f[n + 1]
    OBVIOUS
  <2>1. n + 1 \in 0 .. Len(s) /\ n + 1 # 0 /\ (n + 1) - 1 = n
    BY <1>3
  <2>2. g[n] = f[n]
    BY <1>3, <1>5
  <2>3. g[n + 1] = IF s[n + 1] \in S THEN Append(g[n], s[n + 1]) ELSE g[n]
    BY <1>1, <2>1 DEF ThoseFrom
  <2>4. f[n + 1] = IF s[n + 1] \in S THEN Append(f[n], s[n + 1]) ELSE f[n]
    BY <2>1 DEF ThoseFrom
  <2> QED
    BY <2>2, <2>3, <2>4
<1>6. Nat \subseteq Same
  <2> HIDE DEF Same
  <2> QED
    BY <1>4, <1>5, NatInduct
<1> QED
  BY <1>2, <1>3, <1>6

\* There is such a function for every sequence.
LEMMA ThoseExists ==
    ASSUME NEW T, NEW S
    PROVE  \A s \in Seq(T) : \E f : ThoseFrom(f, s, S)
<1> DEFINE G == {s \in Seq(T) : \E f : ThoseFrom(f, s, S)}
<1>1. <<>> \in G
  <2>1. ThoseFrom([n \in 0 .. 0 |-> <<>>], <<>>, S)
    BY DEF ThoseFrom
  <2> QED
    BY <2>1
<1>2. ASSUME NEW s \in Seq(T), NEW x \in T, s \in G PROVE Append(s, x) \in G
  <2>1. PICK f : ThoseFrom(f, s, S)
    BY <1>2
  <2> DEFINE m == Len(s)
             g == [n \in 0 .. m + 1 |-> IF n <= m THEN f[n]
                                        ELSE IF x \in S THEN Append(f[m], x) ELSE f[m]]
  <2>2. PICK a \in Seq(T) : /\ a = Append(s, x) /\ m \in Nat /\ Len(a) = m + 1
                            /\ a[m + 1] = x /\ \A n \in 1 .. m : a[n] = s[n]
    <3>1. /\ Append(s, x) \in Seq(T) /\ m \in Nat /\ Len(Append(s, x)) = m + 1
          /\ Append(s, x)[m + 1] = x /\ \A n \in 1 .. m : Append(s, x)[n] = s[n]
      BY LenProperties, AppendProperties
    <3> QED
      BY <3>1
  <2>3. ASSUME NEW n \in 0 .. m + 1
        PROVE  g[n] = IF n = 0 THEN <<>>
                      ELSE IF a[n] \in S THEN Append(g[n - 1], a[n]) ELSE g[n - 1]
    <3>1. CASE n = 0
      BY <2>1, <2>2, <3>1 DEF ThoseFrom
    <3>2. CASE n \in 1 .. m
      <4>1. n \in 0 .. m /\ n - 1 \in 0 .. m /\ n # 0 /\ n <= m /\ n - 1 <= m
            /\ n - 1 \in 0 .. m + 1
        BY <2>2, <3>2
      <4>2. f[n] = IF s[n] \in S THEN Append(f[n - 1], s[n]) ELSE f[n - 1]
        BY <2>1, <4>1 DEF ThoseFrom
      <4>3. g[n] = f[n] /\ g[n - 1] = f[n - 1]
        BY <4>1
      <4>4. a[n] = s[n]
        BY <2>2, <3>2
      <4> QED
        BY <4>1, <4>2, <4>3, <4>4
    <3>3. CASE n = m + 1
      BY <2>2, <3>3
    <3> QED
      BY <2>2, <3>1, <3>2, <3>3
  <2>4. ThoseFrom(g, a, S)
    BY <2>2, <2>3 DEF ThoseFrom
  <2> QED
    BY <2>2, <2>4
<1>3. Seq(T) \subseteq G
  <2> HIDE DEF G
  <2> QED
    BY <1>1, <1>2, SeqInduct
<1> QED
  BY <1>3

\* Those of a sequence with one element more.
LEMMA ThoseLaw ==
    ASSUME NEW T, NEW S
    PROVE  /\ Those(<<>>, S) = <<>>
           /\ \A s \in Seq(T), x \in T :
                 /\ x \in S => Those(Append(s, x), S) = Append(Those(s, S), x)
                 /\ x \notin S => Those(Append(s, x), S) = Those(s, S)
<1>1. Those(<<>>, S) = <<>>
  <2>1. ThoseFrom([n \in 0 .. 0 |-> <<>>], <<>>, S) /\ <<>> \in Seq(T) /\ Len(<<>>) = 0
    BY DEF ThoseFrom
  <2> QED
    BY <2>1, ThoseIs
<1>2. ASSUME NEW s \in Seq(T), NEW x \in T
      PROVE  /\ x \in S => Those(Append(s, x), S) = Append(Those(s, S), x)
             /\ x \notin S => Those(Append(s, x), S) = Those(s, S)
  <2> DEFINE m == Len(s)
  <2>1. /\ m \in Nat /\ Append(s, x) \in Seq(T) /\ Len(Append(s, x)) = m + 1
        /\ Append(s, x)[m + 1] = x /\ \A n \in 1 .. m : Append(s, x)[n] = s[n]
    BY LenProperties, AppendProperties
  <2>2. PICK f : ThoseFrom(f, Append(s, x), S)
    BY <2>1, ThoseExists
  <2> DEFINE h == [n \in 0 .. m |-> f[n]]
  <2>3. ThoseFrom(h, s, S)
    <3>1. ASSUME NEW n \in 0 .. m
          PROVE  h[n] = IF n = 0 THEN <<>> ELSE IF s[n] \in S THEN Append(h[n - 1], s[n]) ELSE h[n - 1]
      <4>1. CASE n = 0
        BY <2>1, <2>2, <4>1 DEF ThoseFrom
      <4>2. CASE n # 0
        <5>1. n \in 0 .. m + 1 /\ n \in 1 .. m /\ n - 1 \in 0 .. m
          BY <2>1, <4>2
        <5>2. f[n] = IF Append(s, x)[n] \in S THEN Append(f[n - 1], Append(s, x)[n]) ELSE f[n - 1]
          BY <2>1, <2>2, <4>2, <5>1 DEF ThoseFrom
        <5>3. h[n] = f[n] /\ h[n - 1] = f[n - 1] /\ Append(s, x)[n] = s[n]
          BY <2>1, <5>1
        <5> QED
          BY <4>2, <5>2, <5>3
      <4> QED
        BY <4>1, <4>2
    <3> QED
      BY <2>1, <3>1 DEF ThoseFrom
  <2>4. Those(s, S) = f[m]
    <3>1. Those(s, S) = h[m]
      <4> HIDE DEF h
      <4> QED
        BY <2>3, ThoseIs
    <3> QED
      BY <2>1, <3>1
  <2>5. Those(Append(s, x), S) = f[m + 1]
    BY <2>1, <2>2, ThoseIs
  <2>6. f[m + 1] = IF x \in S THEN Append(f[m], x) ELSE f[m]
    <3>1. m + 1 \in 0 .. Len(Append(s, x)) /\ m + 1 # 0 /\ (m + 1) - 1 = m
      BY <2>1
    <3>2. f[m + 1] = IF Append(s, x)[m + 1] \in S THEN Append(f[m], Append(s, x)[m + 1]) ELSE f[m]
      BY <2>2, <3>1 DEF ThoseFrom
    <3> QED
      BY <2>1, <3>2
  <2> QED
    BY <2>4, <2>5, <2>6
<1> QED
  BY <1>1, <1>2

\* One element more that is in S.
LEMMA ThoseAdds ==
    ASSUME NEW T, NEW S, NEW s \in Seq(T), NEW x \in T, x \in S
    PROVE  Those(Append(s, x), S) = Append(Those(s, S), x)
BY ThoseLaw, ZenonT(40)

\* They are elements of the sequence that are in S, no more than it has.
LEMMA ThoseType ==
    ASSUME NEW T, NEW S
    PROVE  \A s \in Seq(T) : Those(s, S) \in Seq(T \cap S) /\ Len(Those(s, S)) <= Len(s)
<1> DEFINE G == {s \in Seq(T) : Those(s, S) \in Seq(T \cap S) /\ Len(Those(s, S)) <= Len(s)}
<1>1. <<>> \in G
  <2>1. PICK e \in Seq(T) : e = <<>> /\ Those(e, S) = e /\ Len(e) = 0 /\ e \in Seq(T \cap S)
    BY ThoseLaw, EmptySeq
  <2>2. Those(e, S) \in Seq(T \cap S)
    BY <2>1
  <2>3. Len(Those(e, S)) <= Len(e)
    BY <2>1
  <2> QED
    BY <2>1, <2>2, <2>3
<1>2. ASSUME NEW s \in Seq(T), NEW x \in T, s \in G PROVE Append(s, x) \in G
  <2>1. Append(s, x) \in Seq(T) /\ Len(Append(s, x)) = Len(s) + 1 /\ Len(s) \in Nat
    BY LenProperties, AppendProperties
  <2>2. PICK t \in Seq(T \cap S) : t = Those(s, S) /\ Len(t) <= Len(s) /\ Len(t) \in Nat
    BY <1>2, LenProperties
  <2>3. CASE x \in S
    <3>1. Those(Append(s, x), S) = Append(Those(s, S), x)
      BY <2>3, ThoseAdds, Zenon
    <3>2. Append(t, x) \in Seq(T \cap S) /\ Len(Append(t, x)) = Len(t) + 1
      BY <2>3, AppendProperties
    <3> QED
      BY <2>1, <2>2, <3>1, <3>2
  <2>4. CASE x \notin S
    <3>1. Those(Append(s, x), S) = t
      BY <2>2, <2>4, ThoseLaw
    <3> QED
      BY <2>1, <2>2, <3>1
  <2> QED
    BY <2>3, <2>4
<1>3. Seq(T) \subseteq G
  <2> HIDE DEF G
  <2> QED
    BY <1>1, <1>2, SeqInduct
<1> QED
  BY <1>3

\* Sets that agree on the elements of a sequence make no difference.
LEMMA ThoseSame ==
    ASSUME NEW T, NEW S, NEW R
    PROVE  \A s \in Seq(T) :
              (\A i \in DOMAIN s : s[i] \in S <=> s[i] \in R) => Those(s, S) = Those(s, R)
<1> DEFINE G == {s \in Seq(T) : (\A i \in DOMAIN s : s[i] \in S <=> s[i] \in R)
                                    => Those(s, S) = Those(s, R)}
<1>1. <<>> \in G
  BY ThoseLaw
<1>2. ASSUME NEW s \in Seq(T), NEW x \in T, s \in G PROVE Append(s, x) \in G
  <2>1. Append(s, x) \in Seq(T) /\ Len(s) \in Nat
        /\ Append(s, x)[Len(s) + 1] = x /\ (\A n \in 1 .. Len(s) : Append(s, x)[n] = s[n])
        /\ DOMAIN s = 1 .. Len(s) /\ DOMAIN Append(s, x) = 1 .. Len(s) + 1
    BY LenProperties, AppendProperties
  <2>2. SUFFICES ASSUME \A i \in DOMAIN Append(s, x) : Append(s, x)[i] \in S <=> Append(s, x)[i] \in R
                 PROVE  Those(Append(s, x), S) = Those(Append(s, x), R)
    BY <2>1
  <2>3. x \in S <=> x \in R
    BY <2>1, <2>2
  <2>4. Those(s, S) = Those(s, R)
    BY <1>2, <2>1, <2>2
  <2>5. CASE x \in S
    <3>1. Those(Append(s, x), S) = Append(Those(s, S), x)
      BY <2>5, ThoseAdds, Zenon
    <3>2. Those(Append(s, x), R) = Append(Those(s, R), x)
      BY <2>3, <2>5, ThoseAdds, Zenon
    <3> QED
      BY <2>4, <3>1, <3>2
  <2>6. CASE x \notin S
    <3>1. Those(Append(s, x), S) = Those(s, S)
      BY <2>6, ThoseLaw
    <3>2. Those(Append(s, x), R) = Those(s, R)
      BY <2>3, <2>6, ThoseLaw
    <3> QED
      BY <2>4, <3>1, <3>2
  <2> QED
    BY <2>5, <2>6
<1>3. Seq(T) \subseteq G
  <2> HIDE DEF G
  <2> QED
    BY <1>1, <1>2, SeqInduct
<1> QED
  BY <1>3

\* A sequence of elements of S is those of its elements.
LEMMA ThoseAll ==
    ASSUME NEW T, NEW S
    PROVE  \A s \in Seq(T) : (\A i \in DOMAIN s : s[i] \in S) => Those(s, S) = s
<1> DEFINE G == {s \in Seq(T) : (\A i \in DOMAIN s : s[i] \in S) => Those(s, S) = s}
<1>1. <<>> \in G
  BY ThoseLaw
<1>2. ASSUME NEW s \in Seq(T), NEW x \in T, s \in G PROVE Append(s, x) \in G
  <2>1. Append(s, x) \in Seq(T) /\ Len(s) \in Nat
        /\ Append(s, x)[Len(s) + 1] = x /\ (\A n \in 1 .. Len(s) : Append(s, x)[n] = s[n])
        /\ DOMAIN s = 1 .. Len(s) /\ DOMAIN Append(s, x) = 1 .. Len(s) + 1
    BY LenProperties, AppendProperties
  <2>2. SUFFICES ASSUME \A i \in DOMAIN Append(s, x) : Append(s, x)[i] \in S
                 PROVE  Those(Append(s, x), S) = Append(s, x)
    BY <2>1
  <2>3. x \in S /\ Those(s, S) = s
    BY <1>2, <2>1, <2>2
  <2> QED
    BY <2>3, ThoseLaw
<1>3. Seq(T) \subseteq G
  <2> HIDE DEF G
  <2> QED
    BY <1>1, <1>2, SeqInduct
<1> QED
  BY <1>3

\* Appending to a sequence.
LEMMA AppendIs ==
    ASSUME NEW T, NEW s \in Seq(T), NEW x \in T
    PROVE  /\ Append(s, x) \in Seq(T) /\ Len(Append(s, x)) = Len(s) + 1 /\ Len(s) \in Nat
           /\ DOMAIN s = 1 .. Len(s) /\ DOMAIN Append(s, x) = 1 .. Len(s) + 1
           /\ Append(s, x)[Len(s) + 1] = x
           /\ \A i \in 1 .. Len(s) : Append(s, x)[i] = s[i]
BY AppendProperties, LenProperties

\* A removal keeps the entries with other values.
LEMMA RemovedIs ==
    ASSUME NEW T, NEW s \in Seq(T), NEW V
    PROVE  Removed(s, V) = Those(s, {x \in T : x.value \notin V})
<1> DEFINE Kept == {x \in T : x.value \notin V}
           R == {entry \in ToSet(s) : entry.value \notin V}
<1>1. \A i \in DOMAIN s : s[i] \in T /\ s[i] \in ToSet(s)
  BY LenProperties DEF ToSet
<1>2. \A i \in DOMAIN s : s[i] \in R <=> s[i] \in Kept
  BY <1>1
<1>3. Removed(s, V) = Those(s, R)
  BY DEF Removed
<1> HIDE DEF R, Kept
<1>4. Removed(s, V) = Those(s, Kept)
  BY <1>2, <1>3, ThoseSame
<1> QED
  BY <1>4 DEF Kept

\* There is nothing to remove from the empty list.
LEMMA RemovedFromNone == \A V : Removed(<<>>, V) = <<>>
BY ThoseLaw DEF Removed

\* An entry that goes.
LEMMA RemovedDrops ==
    ASSUME NEW T, NEW s \in Seq(T), NEW x \in T, NEW V, x.value \in V
    PROVE  Removed(Append(s, x), V) = Removed(s, V)
<1> DEFINE Kept == {y \in T : y.value \notin V}
<1>1. x \notin Kept
  OBVIOUS
<1>2. Removed(s, V) = Those(s, Kept)
  BY RemovedIs
<1>3. Removed(Append(s, x), V) = Those(Append(s, x), Kept)
  <2>1. Append(s, x) \in Seq(T)
    BY AppendIs
  <2> QED
    BY <2>1, RemovedIs
<1> HIDE DEF Kept
<1>4. Those(Append(s, x), Kept) = Those(s, Kept)
  BY <1>1, ThoseLaw
<1> QED
  BY <1>2, <1>3, <1>4

\* An entry that stays.
LEMMA RemovedKeeps ==
    ASSUME NEW T, NEW s \in Seq(T), NEW x \in T, NEW V, x.value \notin V
    PROVE  Removed(Append(s, x), V) = Append(Removed(s, V), x)
<1> DEFINE Kept == {y \in T : y.value \notin V}
<1>1. x \in Kept
  OBVIOUS
<1>2. Removed(s, V) = Those(s, Kept)
  BY RemovedIs
<1>3. Removed(Append(s, x), V) = Those(Append(s, x), Kept)
  <2>1. Append(s, x) \in Seq(T)
    BY AppendIs
  <2> QED
    BY <2>1, RemovedIs
<1> HIDE DEF Kept
<1>4. Those(Append(s, x), Kept) = Append(Those(s, Kept), x)
  BY <1>1, ThoseAdds, Zenon
<1> QED
  BY <1>2, <1>3, <1>4

\* A removal leaves entries of the list, none with a removed value.
LEMMA RemovedType ==
    ASSUME NEW T, NEW V, NEW s \in Seq(T)
    PROVE  /\ Removed(s, V) \in Seq(T) /\ Len(Removed(s, V)) <= Len(s)
           /\ \A i \in DOMAIN Removed(s, V) :
                 Removed(s, V)[i].value \notin V /\ \E j \in DOMAIN s : Removed(s, V)[i] = s[j]
           /\ (\A i \in DOMAIN s : s[i].value \notin V) => Removed(s, V) = s
<1> DEFINE U == ToSet(s)
           R == {entry \in ToSet(s) : entry.value \notin V}
<1>1. s \in Seq(U) /\ \A i \in DOMAIN s : s[i] \in U
  <2>1. Len(s) \in Nat /\ s \in [1 .. Len(s) -> T] /\ DOMAIN s = 1 .. Len(s)
    BY LenProperties
  <2>2. \A i \in DOMAIN s : s[i] \in U
    BY DEF ToSet
  <2> HIDE DEF U
  <2> QED
    BY <2>1, <2>2
<1>2. U \subseteq T
  BY LenProperties DEF ToSet
<1>3. Removed(s, V) = Those(s, R)
  BY DEF Removed
<1>4. Those(s, R) \in Seq(U \cap R) /\ Len(Those(s, R)) <= Len(s)
  <2> HIDE DEF U, R
  <2> QED
    BY <1>1, ThoseType
<1>5. \A i \in DOMAIN Those(s, R) : Those(s, R)[i] \in R
  BY <1>4, LenProperties
<1>6. Those(s, R) \in Seq(T)
  <2>1. U \cap R \subseteq T
    BY <1>2
  <2> HIDE DEF U, R
  <2> QED
    BY <1>4, <2>1, SeqMonotonic
<1>7. ASSUME \A i \in DOMAIN s : s[i].value \notin V PROVE Those(s, R) = s
  <2>1. \A i \in DOMAIN s : s[i] \in R
    BY <1>1, <1>7
  <2> HIDE DEF R
  <2> QED
    BY <2>1, ThoseAll
<1>8. \A x \in R : x.value \notin V /\ \E j \in DOMAIN s : x = s[j]
  BY DEF ToSet
<1> HIDE DEF U, R
<1> QED
  BY <1>3, <1>4, <1>5, <1>6, <1>7, <1>8

\* Removing a value before a set of values that has it makes no difference.
LEMMA RemovedOnce ==
    ASSUME NEW T, NEW V, NEW v \in V
    PROVE  \A s \in Seq(T) : Removed(Removed(s, {v}), V) = Removed(s, V)
<1> DEFINE G == {s \in Seq(T) : Removed(Removed(s, {v}), V) = Removed(s, V)}
<1>1. <<>> \in G
  <2>1. Removed(<<>>, {v}) = <<>> /\ <<>> \in Seq(T)
    BY RemovedFromNone
  <2> QED
    BY <2>1
<1>2. ASSUME NEW s \in Seq(T), NEW x \in T, s \in G PROVE Append(s, x) \in G
  <2> DEFINE r == Removed(s, {v})
  <2>1. Append(s, x) \in Seq(T) /\ r \in Seq(T)
    BY AppendIs, RemovedType
  <2>2. Removed(r, V) = Removed(s, V)
    BY <1>2
  <2> HIDE DEF r
  <2> SUFFICES Removed(Removed(Append(s, x), {v}), V) = Removed(Append(s, x), V)
    BY <2>1
  <2>3. CASE x.value = v
    <3>1. Removed(Append(s, x), {v}) = r
      BY <2>3, RemovedDrops DEF r
    <3>2. Removed(Append(s, x), V) = Removed(s, V)
      BY <2>3, RemovedDrops
    <3> QED
      BY <2>2, <3>1, <3>2
  <2>4. CASE x.value # v
    <3>1. Removed(Append(s, x), {v}) = Append(r, x)
      <4>1. x.value \notin {v}
        BY <2>4
      <4> QED
        BY <4>1, RemovedKeeps DEF r
    <3>2. CASE x.value \in V
      <4>1. Removed(Append(r, x), V) = Removed(r, V)
        BY <2>1, <3>2, RemovedDrops
      <4>2. Removed(Append(s, x), V) = Removed(s, V)
        BY <3>2, RemovedDrops
      <4> QED
        BY <2>2, <3>1, <4>1, <4>2
    <3>3. CASE x.value \notin V
      <4>1. Removed(Append(r, x), V) = Append(Removed(r, V), x)
        BY <2>1, <3>3, RemovedKeeps
      <4>2. Removed(Append(s, x), V) = Append(Removed(s, V), x)
        BY <3>3, RemovedKeeps
      <4> QED
        BY <2>2, <3>1, <4>1, <4>2
    <3> QED
      BY <3>2, <3>3
  <2> QED
    BY <2>3, <2>4
<1>3. Seq(T) \subseteq G
  <2> HIDE DEF G
  <2> QED
    BY <1>1, <1>2, SeqInduct
<1> QED
  BY <1>3

\* The last entry with value v is e.
LastWith(s, v, e) == \E k \in DOMAIN s : s[k] = e /\ \A j \in DOMAIN s : j > k => s[j].value # v

\* A new entry is the last with its value, and leaves the last with another value.
LEMMA LastAppended ==
    ASSUME NEW T, NEW s \in Seq(T), NEW x \in T, NEW v
    PROVE  /\ LastWith(Append(s, x), v, x)
           /\ \A e : x.value # v /\ LastWith(s, v, e) => LastWith(Append(s, x), v, e)
           /\ \A e : e.value = v /\ LastWith(Append(s, x), v, e) =>
                        IF x.value = v THEN e = x ELSE LastWith(s, v, e)
<1>1. PICK a \in Seq(T) :
        /\ a = Append(s, x) /\ Len(s) \in Nat /\ DOMAIN s = 1 .. Len(s)
        /\ DOMAIN a = 1 .. Len(s) + 1 /\ a[Len(s) + 1] = x /\ \A i \in 1 .. Len(s) : a[i] = s[i]
  <2>1. /\ Append(s, x) \in Seq(T) /\ Len(s) \in Nat
        /\ DOMAIN s = 1 .. Len(s) /\ DOMAIN Append(s, x) = 1 .. Len(s) + 1
        /\ Append(s, x)[Len(s) + 1] = x
        /\ \A i \in 1 .. Len(s) : Append(s, x)[i] = s[i]
    BY AppendIs
  <2> QED
    BY <2>1
<1>2. LastWith(a, v, x)
  BY <1>1 DEF LastWith
<1>3. ASSUME NEW e, x.value # v, LastWith(s, v, e) PROVE LastWith(a, v, e)
  <2>1. PICK k \in 1 .. Len(s) : s[k] = e /\ \A j \in 1 .. Len(s) : j > k => s[j].value # v
    BY <1>1, <1>3 DEF LastWith
  <2>2. \A j \in 1 .. Len(s) + 1 : j > k => a[j].value # v
    BY <1>1, <1>3, <2>1
  <2> QED
    BY <1>1, <2>1, <2>2 DEF LastWith
<1>4. ASSUME NEW e, e.value = v, LastWith(a, v, e)
      PROVE  IF x.value = v THEN e = x ELSE LastWith(s, v, e)
  <2>1. PICK k \in 1 .. Len(s) + 1 : a[k] = e /\ \A j \in 1 .. Len(s) + 1 : j > k => a[j].value # v
    BY <1>1, <1>4 DEF LastWith
  <2>2. CASE k = Len(s) + 1
    BY <1>1, <1>4, <2>1, <2>2
  <2>3. CASE k # Len(s) + 1
    <3>1. k \in 1 .. Len(s) /\ Len(s) + 1 > k /\ Len(s) + 1 \in 1 .. Len(s) + 1
      BY <1>1, <2>3
    <3>2. x.value # v
      BY <1>1, <2>1, <3>1
    <3>3. s[k] = e /\ \A j \in 1 .. Len(s) : j > k => s[j].value # v
      BY <1>1, <2>1, <3>1
    <3> QED
      BY <1>1, <3>1, <3>2, <3>3 DEF LastWith
  <2> QED
    BY <2>2, <2>3
<1> QED
  BY <1>1, <1>2, <1>3, <1>4

\* Removing other values leaves the last entry with a value the last.
LEMMA LastRemoved ==
    ASSUME NEW T, NEW V, NEW v, v \notin V, NEW e, e.value = v
    PROVE  \A s \in Seq(T) : LastWith(s, v, e) => LastWith(Removed(s, V), v, e)
<1> DEFINE G == {s \in Seq(T) : LastWith(s, v, e) => LastWith(Removed(s, V), v, e)}
<1>1. <<>> \in G
  <2>1. Removed(<<>>, V) = <<>> /\ <<>> \in Seq(T)
    BY RemovedFromNone
  <2> QED
    BY <2>1
<1>2. ASSUME NEW s \in Seq(T), NEW x \in T, s \in G PROVE Append(s, x) \in G
  <2> DEFINE r == Removed(s, V)
  <2>1. Append(s, x) \in Seq(T) /\ r \in Seq(T)
    BY AppendIs, RemovedType
  <2>2. LastWith(s, v, e) => LastWith(r, v, e)
    BY <1>2
  <2> HIDE DEF r
  <2> SUFFICES ASSUME LastWith(Append(s, x), v, e) PROVE LastWith(Removed(Append(s, x), V), v, e)
    BY <2>1
  <2>3. IF x.value = v THEN e = x ELSE LastWith(s, v, e)
    BY LastAppended
  <2>4. CASE x.value \in V
    <3>1. Removed(Append(s, x), V) = r
      BY <2>4, RemovedDrops DEF r
    <3> QED
      BY <2>2, <2>3, <2>4, <3>1
  <2>5. CASE x.value \notin V
    <3>1. Removed(Append(s, x), V) = Append(r, x)
      BY <2>5, RemovedKeeps DEF r
    <3>2. CASE x.value = v
      BY <2>1, <2>3, <3>1, <3>2, LastAppended
    <3>3. CASE x.value # v
      <4>1. LastWith(r, v, e)
        BY <2>2, <2>3, <3>3
      <4>2. LastWith(Append(r, x), v, e)
        BY <2>1, <3>3, <4>1, LastAppended
      <4> QED
        BY <3>1, <4>2
    <3> QED
      BY <3>2, <3>3
  <2> QED
    BY <2>4, <2>5
<1>3. Seq(T) \subseteq G
  <2> HIDE DEF G
  <2> QED
    BY <1>1, <1>2, SeqInduct
<1> QED
  BY <1>3

-------------------------------------------------------------------------------
(* Reading a text line by line.                                              *)

\* A step per line, as AfterLines takes it.
LinesFrom(f, st, text) ==
    f = [n \in 0 .. Len(text) |-> IF n = 0 THEN st ELSE AfterLine(text[n], f[n - 1])]

\* What the second pass makes of a text is the last value of any function so defined.
LEMMA LinesIs ==
    ASSUME NEW T, NEW text \in Seq(T), NEW st, NEW f, LinesFrom(f, st, text)
    PROVE  AfterLines(st, text) = f[Len(text)]
<1> DEFINE g == CHOOSE h : LinesFrom(h, st, text)
<1>1. LinesFrom(g, st, text)
  OBVIOUS
<1>2. AfterLines(st, text) = g[Len(text)]
  BY DEF AfterLines, LinesFrom
<1> DEFINE Same == {n \in Nat : n <= Len(text) => g[n] = f[n]}
<1>3. Len(text) \in Nat
  BY LenProperties
<1> HIDE DEF g
<1>4. 0 \in Same
  BY <1>1, <1>3 DEF LinesFrom
<1>5. ASSUME NEW n \in Nat, n \in Same PROVE n + 1 \in Same
  <2> SUFFICES ASSUME n + 1 <= Len(text) PROVE g[n + 1] = f[n + 1]
    OBVIOUS
  <2>1. n + 1 \in 0 .. Len(text) /\ n + 1 # 0 /\ (n + 1) - 1 = n
    BY <1>3
  <2>2. g[n] = f[n]
    BY <1>3, <1>5
  <2>3. g[n + 1] = AfterLine(text[n + 1], g[n]) /\ f[n + 1] = AfterLine(text[n + 1], f[n])
    BY <1>1, <2>1 DEF LinesFrom
  <2> QED
    BY <2>2, <2>3
<1>6. Nat \subseteq Same
  <2> HIDE DEF Same
  <2> QED
    BY <1>4, <1>5, NatInduct
<1> QED
  BY <1>2, <1>3, <1>6

\* There is such a function for every text.
LEMMA LinesExist ==
    ASSUME NEW T, NEW st
    PROVE  \A text \in Seq(T) : \E f : LinesFrom(f, st, text)
<1> DEFINE G == {text \in Seq(T) : \E f : LinesFrom(f, st, text)}
<1>1. <<>> \in G
  <2>1. LinesFrom([n \in 0 .. 0 |-> st], st, <<>>)
    BY DEF LinesFrom
  <2> QED
    BY <2>1
<1>2. ASSUME NEW s \in Seq(T), NEW x \in T, s \in G PROVE Append(s, x) \in G
  <2>1. PICK f : LinesFrom(f, st, s)
    BY <1>2
  <2> DEFINE m == Len(s)
             g == [n \in 0 .. m + 1 |-> IF n <= m THEN f[n] ELSE AfterLine(x, f[m])]
  <2>2. PICK a \in Seq(T) : /\ a = Append(s, x) /\ m \in Nat /\ Len(a) = m + 1
                            /\ a[m + 1] = x /\ \A n \in 1 .. m : a[n] = s[n]
    <3>1. /\ Append(s, x) \in Seq(T) /\ m \in Nat /\ Len(Append(s, x)) = m + 1
          /\ Append(s, x)[m + 1] = x /\ \A n \in 1 .. m : Append(s, x)[n] = s[n]
      BY AppendIs
    <3> QED
      BY <3>1
  <2>3. ASSUME NEW n \in 0 .. m + 1
        PROVE  g[n] = IF n = 0 THEN st ELSE AfterLine(a[n], g[n - 1])
    <3>1. CASE n = 0
      BY <2>1, <2>2, <3>1 DEF LinesFrom
    <3>2. CASE n \in 1 .. m
      <4>1. n \in 0 .. m /\ n - 1 \in 0 .. m /\ n # 0 /\ n <= m /\ n - 1 <= m
            /\ n - 1 \in 0 .. m + 1
        BY <2>2, <3>2
      <4>2. f[n] = AfterLine(s[n], f[n - 1])
        BY <2>1, <4>1 DEF LinesFrom
      <4>3. g[n] = f[n] /\ g[n - 1] = f[n - 1]
        BY <4>1
      <4>4. a[n] = s[n]
        BY <2>2, <3>2
      <4> QED
        BY <4>1, <4>2, <4>3, <4>4
    <3>3. CASE n = m + 1
      BY <2>2, <3>3
    <3> QED
      BY <2>2, <3>1, <3>2, <3>3
  <2>4. LinesFrom(g, st, a)
    BY <2>2, <2>3 DEF LinesFrom
  <2> QED
    BY <2>2, <2>4
<1>3. Seq(T) \subseteq G
  <2> HIDE DEF G
  <2> QED
    BY <1>1, <1>2, SeqInduct
<1> QED
  BY <1>3

\* No lines change nothing.
LEMMA NoLines == \A st : AfterLines(st, <<>>) = st
<1> SUFFICES ASSUME NEW st PROVE AfterLines(st, <<>>) = st
  OBVIOUS
<1>1. LinesFrom([n \in 0 .. 0 |-> st], st, <<>>) /\ <<>> \in Seq({}) /\ Len(<<>>) = 0
  BY DEF LinesFrom
<1> QED
  BY <1>1, LinesIs

\* The last line of a text works on what the others left.
LEMMA LastLine ==
    ASSUME NEW T, NEW s \in Seq(T), NEW x \in T, NEW st
    PROVE  AfterLines(st, Append(s, x)) = AfterLine(x, AfterLines(st, s))
<1> DEFINE m == Len(s)
<1>1. PICK a \in Seq(T) : /\ a = Append(s, x) /\ m \in Nat /\ Len(a) = m + 1
                          /\ a[m + 1] = x /\ \A n \in 1 .. m : a[n] = s[n]
  <2>1. /\ Append(s, x) \in Seq(T) /\ m \in Nat /\ Len(Append(s, x)) = m + 1
        /\ Append(s, x)[m + 1] = x /\ \A n \in 1 .. m : Append(s, x)[n] = s[n]
    BY AppendIs
  <2> QED
    BY <2>1
<1>2. PICK f : LinesFrom(f, st, a)
  BY LinesExist
<1> DEFINE h == [n \in 0 .. m |-> f[n]]
<1>3. ASSUME NEW n \in 0 .. m PROVE h[n] = IF n = 0 THEN st ELSE AfterLine(s[n], h[n - 1])
  <2>1. CASE n = 0
    BY <1>1, <1>2, <2>1 DEF LinesFrom
  <2>2. CASE n # 0
    <3>1. n \in 0 .. m + 1 /\ n \in 1 .. m /\ n - 1 \in 0 .. m
      BY <1>1, <2>2
    <3>2. f[n] = AfterLine(a[n], f[n - 1])
      BY <1>1, <1>2, <2>2, <3>1 DEF LinesFrom
    <3>3. h[n] = f[n] /\ h[n - 1] = f[n - 1] /\ a[n] = s[n]
      BY <1>1, <3>1
    <3> QED
      BY <2>2, <3>2, <3>3
  <2> QED
    BY <2>1, <2>2
<1>4. LinesFrom(h, st, s)
  BY <1>1, <1>3 DEF LinesFrom
<1>5. AfterLines(st, s) = f[m]
  <2>1. AfterLines(st, s) = h[m]
    <3> HIDE DEF h
    <3> QED
      BY <1>4, LinesIs
  <2> QED
    BY <1>1, <2>1
<1>6. AfterLines(st, a) = f[m + 1]
  BY <1>1, <1>2, LinesIs
<1>7. f[m + 1] = AfterLine(x, f[m])
  <2>1. m + 1 \in 0 .. Len(a) /\ m + 1 # 0 /\ (m + 1) - 1 = m
    BY <1>1
  <2>2. f[m + 1] = AfterLine(a[m + 1], f[m])
    BY <1>2, <2>1 DEF LinesFrom
  <2> QED
    BY <1>1, <2>2
<1> QED
  BY <1>1, <1>5, <1>6, <1>7

\* Appending to the second of two sequences.
LEMMA ConcatAppend ==
    ASSUME NEW T, NEW s \in Seq(T), NEW t \in Seq(T), NEW x \in T
    PROVE  s \o Append(t, x) = Append(s \o t, x)
<1>1. Append(t, x) = t \o <<x>> /\ Append(s \o t, x) = (s \o t) \o <<x>>
  BY AppendIsConcat, ConcatProperties
<1>2. <<x>> \in Seq(T)
  OBVIOUS
<1>3. (s \o t) \o <<x>> = s \o (t \o <<x>>)
  BY <1>2, ConcatAssociative
<1> QED
  BY <1>1, <1>3

\* Three sequences in a row.
Associates(s, t, u) == (s \o t) \o u = s \o (t \o u)

\* They can be joined from either side.
LEMMA Reassociated ==
    ASSUME NEW T, NEW s \in Seq(T), NEW t \in Seq(T), NEW u \in Seq(T)
    PROVE  Associates(s, t, u)
<1>1. (s \o t) \o u = s \o (t \o u)
  BY ConcatAssociative
<1> QED
  BY <1>1 DEF Associates

\* Reading a text in two parts is reading it.
LEMMA LinesOf ==
    ASSUME NEW T, NEW s \in Seq(T), NEW st
    PROVE  \A t \in Seq(T) : AfterLines(st, s \o t) = AfterLines(AfterLines(st, s), t)
<1> DEFINE G == {t \in Seq(T) : AfterLines(st, s \o t) = AfterLines(AfterLines(st, s), t)}
<1>1. <<>> \in G
  <2>1. s \o <<>> = s /\ <<>> \in Seq(T)
    BY ConcatEmptySeq
  <2> QED
    BY <2>1, NoLines
<1>2. ASSUME NEW t \in Seq(T), NEW x \in T, t \in G PROVE Append(t, x) \in G
  <2>1. Append(t, x) \in Seq(T) /\ s \o t \in Seq(T)
    BY AppendIs, ConcatProperties
  <2>2. s \o Append(t, x) = Append(s \o t, x)
    BY ConcatAppend
  <2>3. AfterLines(st, Append(s \o t, x)) = AfterLine(x, AfterLines(st, s \o t))
    BY <2>1, LastLine
  <2>4. AfterLines(AfterLines(st, s), Append(t, x)) = AfterLine(x, AfterLines(AfterLines(st, s), t))
    BY LastLine
  <2> QED
    BY <1>2, <2>1, <2>2, <2>3, <2>4
<1>3. Seq(T) \subseteq G
  <2> HIDE DEF G
  <2> QED
    BY <1>1, <1>2, SeqInduct
<1> QED
  BY <1>3

-------------------------------------------------------------------------------
(* What a line does.                                                         *)

\* The lists of struct edr_rules that a configuration changes.
ListNames ==
    {"suspicious_exec_exact", "suspicious_exec_prefix", "sensitive_read", "sensitive_write",
     "suspicious_port", "jit_allow_comm", "flow_allow_transfer"}

\* The keys of the lists and of their removals.
LEMMA ListsAre ==
    /\ Lists = ListNames
    /\ DetectionLists = ListNames \ {"jit_allow_comm", "flow_allow_transfer"}
    /\ DOMAIN DefaultValues = ListNames
BY DEF Lists, DisableKey, DetectionLists, DefaultId, ListNames, DefaultValues

\* A removal has one list, and its key is no other key's.
LEMMA KeysDiffer ==
    /\ \A list \in Lists :
          /\ DisableKey[list] \notin Lists \cup {NoKey, "profile", "disable_rule_id", "rule_severity"}
          /\ list \notin {NoKey, "profile", "disable_rule_id", "rule_severity"}
          /\ \A other \in Lists : DisableKey[other] = DisableKey[list] => other = list
          /\ DisableKey[list] = "disable_suspicious_port" <=> list = "suspicious_port"
    /\ "suspicious_port" \in Lists /\ DisableKey["suspicious_port"] = "disable_suspicious_port"
<1>1. /\ DisableKey["suspicious_exec_exact"] = "disable_suspicious_exec_exact"
      /\ DisableKey["suspicious_exec_prefix"] = "disable_suspicious_exec_prefix"
      /\ DisableKey["sensitive_read"] = "disable_sensitive_read"
      /\ DisableKey["sensitive_write"] = "disable_sensitive_write"
      /\ DisableKey["suspicious_port"] = "disable_suspicious_port"
      /\ DisableKey["jit_allow_comm"] = "disable_jit_allow_comm"
      /\ DisableKey["flow_allow_transfer"] = "disable_flow_allow_transfer"
  BY DEF DisableKey
<1>2. \A list \in ListNames :
          /\ DisableKey[list] \notin ListNames \cup {NoKey, "profile", "disable_rule_id", "rule_severity"}
          /\ list \notin {NoKey, "profile", "disable_rule_id", "rule_severity"}
          /\ DisableKey[list] = "disable_suspicious_port" <=> list = "suspicious_port"
  BY <1>1 DEF ListNames, NoKey
<1>3. \A list \in ListNames : \A other \in ListNames :
          DisableKey[other] = DisableKey[list] => other = list
  BY <1>1 DEF ListNames
<1> QED
  BY <1>1, <1>2, <1>3, ListsAre DEF ListNames

\* A line, as load_rules_file splits it.
ConfigLine == [key : STRING, parts : Seq(STRING)]

\* The rule a line of a list's key adds.
Added(list, parts) ==
    IF list \in DetectionLists THEN split_rule_value(list, parts)
    ELSE [sound |-> TRUE, value |-> parts, id |-> "", severity |-> INFO]

\* What AfterLine makes of each kind of line.
LEMMA LineIs ==
    ASSUME NEW line, NEW st
    PROVE  /\ IsProfileLine(line) => AfterLine(line, st) = st
           /\ line.parts = <<>> => AfterLine(line, st) \in {st, Invalid(st)}
           /\ \A list \in Lists : line.parts # <<>> /\ line.key = list =>
                 AfterLine(line, st) = AfterAdd(st, list, Added(list, line.parts))
           /\ \A list \in Lists : line.parts # <<>> /\ line.key = DisableKey[list] =>
                 AfterLine(line, st) = AfterDisable(st, list, line.parts)
           /\ line.parts # <<>> /\ line.key = "disable_rule_id" =>
                 AfterLine(line, st) = AfterDisableId(st, line.parts)
           /\ line.parts # <<>> /\ line.key = "rule_severity" =>
                 AfterLine(line, st) = AfterOverride(st, line.parts)
           /\ \/ IsProfileLine(line) \/ line.parts = <<>>
              \/ \E list \in Lists : line.key \in {list, DisableKey[list]}
              \/ line.key \in {"disable_rule_id", "rule_severity"}
              \/ AfterLine(line, st) = AfterSetting(st, line.key, line.parts)
<1> DEFINE key == line.key
           Full == line.parts # <<>>
<1>1. DetectionLists \subseteq Lists
  BY ListsAre
<1>2. key = "profile" => /\ key \notin DetectionLists /\ key \notin Lists \ DetectionLists
                         /\ ~\E list \in Lists : key = DisableKey[list]
                         /\ key \notin {"disable_rule_id", "rule_severity"}
  BY <1>1, KeysDiffer
<1>3. CASE IsProfileLine(line) \/ line.parts = <<>>
  <2>1. CASE key = "profile" \/ (key # NoKey /\ line.parts = <<>>)
    <3>1. AfterLine(line, st) = st
      <4>1. /\ ~(Full /\ key \in DetectionLists) /\ ~(Full /\ key \in Lists \ DetectionLists)
            /\ ~(Full /\ \E list \in Lists : key = DisableKey[list])
            /\ ~(Full /\ key = "disable_rule_id") /\ ~(Full /\ key = "rule_severity")
        BY <1>2, <2>1
      <4> QED
        BY <2>1, <4>1 DEF AfterLine
    <3> QED
      BY <1>3, <2>1, <3>1, KeysDiffer DEF IsProfileLine
  <2>2. CASE ~(key = "profile" \/ (key # NoKey /\ line.parts = <<>>))
    <3>1. key = NoKey /\ line.parts = <<>>
      BY <1>3, <2>2 DEF IsProfileLine
    <3>2. AfterLine(line, st) = AfterSetting(st, NoKey, line.parts)
      BY <3>1 DEF AfterLine, NoKey
    <3>3. AfterSetting(st, NoKey, line.parts) = Invalid(st)
      BY DEF AfterSetting, NoKey
    <3> QED
      BY <1>3, <2>2, <3>1, <3>2, <3>3, KeysDiffer DEF IsProfileLine
  <2> QED
    BY <2>1, <2>2
<1>4. CASE ~IsProfileLine(line) /\ line.parts # <<>>
  <2>1. ASSUME key \in DetectionLists PROVE AfterLine(line, st) = AfterAdd(st, key, split_rule_value(key, line.parts))
    <3>1. /\ ~(Full /\ key \in Lists \ DetectionLists)
          /\ ~(Full /\ \E list \in Lists : key = DisableKey[list])
          /\ ~(Full /\ key = "disable_rule_id") /\ ~(Full /\ key = "rule_severity")
      BY <1>1, <2>1, KeysDiffer
    <3> QED
      BY <1>4, <2>1, <3>1 DEF AfterLine, IsProfileLine
  <2>2. ASSUME key \in Lists \ DetectionLists
        PROVE  AfterLine(line, st) = AfterAdd(st, key, [sound |-> TRUE, value |-> line.parts, id |-> "", severity |-> INFO])
    <3>1. /\ ~(Full /\ key \in DetectionLists)
          /\ ~(Full /\ \E list \in Lists : key = DisableKey[list])
          /\ ~(Full /\ key = "disable_rule_id") /\ ~(Full /\ key = "rule_severity")
      BY <2>2, KeysDiffer
    <3> QED
      BY <1>4, <2>2, <3>1 DEF AfterLine, IsProfileLine
  <2>3. ASSUME NEW list \in Lists, key = DisableKey[list]
        PROVE  AfterLine(line, st) = AfterDisable(st, list, line.parts)
    <3>1. key \notin Lists /\ key \notin DetectionLists /\ key # "disable_rule_id" /\ key # "rule_severity"
      BY <1>1, <2>3, KeysDiffer
    <3>2. (CHOOSE l \in Lists : key = DisableKey[l]) = list
      BY <2>3, KeysDiffer
    <3>3. AfterLine(line, st) = AfterDisable(st, CHOOSE l \in Lists : key = DisableKey[l], line.parts)
      BY <1>4, <2>3, <3>1 DEF AfterLine, IsProfileLine
    <3> QED
      BY <3>2, <3>3
  <2>4. ASSUME key \in {"disable_rule_id", "rule_severity"}
        PROVE  AfterLine(line, st) = IF key = "disable_rule_id" THEN AfterDisableId(st, line.parts)
                                     ELSE AfterOverride(st, line.parts)
    <3>1. key \notin Lists /\ key \notin DetectionLists /\ ~\E l \in Lists : key = DisableKey[l]
      BY <1>1, <2>4, KeysDiffer
    <3> QED
      BY <1>4, <2>4, <3>1 DEF AfterLine, IsProfileLine
  <2>5. ASSUME ~\E l \in Lists : key \in {l, DisableKey[l]}, key \notin {"disable_rule_id", "rule_severity"}
        PROVE  AfterLine(line, st) = AfterSetting(st, key, line.parts)
    BY <1>4, <1>1, <2>5 DEF AfterLine, IsProfileLine
  <2> QED
    BY <1>4, <1>1, <2>1, <2>2, <2>3, <2>4, <2>5 DEF Added
<1> QED
  BY <1>3, <1>4

\* What an entry of a list can hold: a value spelt out, cut or read as a port, the id of
\* its rule, and a severity.
Words == STRING \cup UNION {ToSet(DefaultValues[list]) : list \in Lists}
StoredValues == {Ports[p] : p \in DOMAIN Ports} \cup Seq(Words \cup {Cut[p] : p \in DOMAIN Cut})
RuleIds ==
    (STRING \cup {""} \cup {DefaultId[list] : list \in DetectionLists}) \ {NothingMatches.rule}
Entries == [value : StoredValues, id : RuleIds, severity : Severities]

\* struct edr_rules.
RulesType(r) ==
    /\ r = [profile |-> r.profile, disabled |-> r.disabled, override |-> r.override,
            list |-> r.list, dedup_window |-> r.dedup_window,
            user_idle_threshold |-> r.user_idle_threshold, min_severity |-> r.min_severity,
            anon_exec_mmap_severity |-> r.anon_exec_mmap_severity]
    /\ r.profile \in Profiles
    /\ r.min_severity \in Severities /\ r.anon_exec_mmap_severity \in Severities
    /\ \A id \in DOMAIN r.override : r.override[id] \in Severities
    /\ r.list \in [Lists -> Seq(Entries)]
    /\ \A list \in Lists : Len(r.list[list]) <= MAX_RULES

\* What the second pass works on.
LoaderType(st) ==
    /\ st = [rules |-> st.rules, valid |-> st.valid] /\ st.valid \in BOOLEAN
    /\ RulesType(st.rules)

\* The severities a configuration can name.
LEMMA SeveritiesAre ==
    /\ \A part \in DOMAIN SeverityOf : SeverityOf[part] \in Severities
    /\ INFO \in Severities /\ WARN \in Severities /\ CRITICAL \in Severities
    /\ \A list : DefaultSeverity(list) \in Severities
<1>1. INFO \in Severities /\ WARN \in Severities /\ CRITICAL \in Severities
  BY DEF Severities, INFO, WARN, CRITICAL
<1>2. ASSUME NEW part \in {"info", "0", "warn", "warning", "1", "critical", "crit", "2"}
      PROVE  SeverityOf[part] \in {INFO, WARN, CRITICAL}
  <2>1. CASE part \in {"info", "0"}
    BY <2>1 DEF SeverityOf
  <2>2. CASE part \in {"warn", "warning", "1"}
    BY <2>2 DEF SeverityOf
  <2>3. CASE part \in {"critical", "crit", "2"}
    BY <2>3 DEF SeverityOf
  <2> QED
    BY <2>1, <2>2, <2>3
<1>3. DOMAIN SeverityOf = {"info", "0", "warn", "warning", "1", "critical", "crit", "2"}
  BY DEF SeverityOf
<1> QED
  BY <1>1, <1>2, <1>3 DEF DefaultSeverity

\* The rule ids of the lists are ids.
LEMMA DefaultIdsAre == "" \in RuleIds /\ \A list \in DetectionLists : DefaultId[list] \in RuleIds
<1>1. \A list \in DetectionLists :
         DefaultId[list] \in {"exec.suspicious_exact", "exec.suspicious_prefix", "file.sensitive_read",
                              "file.sensitive_write", "net.suspicious_port"}
  BY ListsAre DEF DefaultId, ListNames
<1>2. \A id \in {"", "exec.suspicious_exact", "exec.suspicious_prefix", "file.sensitive_read",
                "file.sensitive_write", "net.suspicious_port"} : id # NothingMatches.rule
  BY DEF NothingMatches
<1> QED
  BY <1>1, <1>2 DEF RuleIds

\* What split_rule_value makes of a line it accepts.
SoundRule(rule) ==
    \E sound : \E value \in Seq(STRING), id \in RuleIds, severity \in Severities :
        rule = [sound |-> sound, value |-> value, id |-> id, severity |-> severity]

\* split_rule_value finds a value, an id and a severity, or says it does not.
LEMMA SplitType ==
    ASSUME NEW list \in DetectionLists, NEW parts \in Seq(STRING), parts # <<>>
    PROVE  \/ split_rule_value(list, parts) = [sound |-> FALSE]
           \/ SoundRule(split_rule_value(list, parts))
<1> DEFINE n == Len(parts)
           Rule(value, id, severity) ==
              [sound |-> value # <<"">>, value |-> value, id |-> id, severity |-> severity]
           r == split_rule_value(list, parts)
<1>1. n \in Nat \ {0} /\ \A i \in 1 .. n : parts[i] \in STRING
  BY EmptySeq, LenProperties
<1>2. ASSUME NEW value \in Seq(STRING), NEW id \in RuleIds, NEW severity \in Severities,
             r = Rule(value, id, severity)
      PROVE  SoundRule(r)
  BY <1>2, Zenon DEF SoundRule
<1>3. CASE n = 1
  <2>1. r = Rule(parts, DefaultId[list], DefaultSeverity(list))
    BY <1>3 DEF split_rule_value
  <2> HIDE DEF Rule
  <2> QED
    BY <1>2, <2>1, DefaultIdsAre, SeveritiesAre
<1>4. CASE n > 1 /\ parts[n] \in DOMAIN SeverityOf
  <2>1. r = Rule(Front(parts), DefaultId[list], SeverityOf[parts[n]])
    <3>1. /\ ~(n = 1)
          /\ ~(/\ n > 2 /\ parts[n] \notin DOMAIN SeverityOf \cup NotIds
               /\ parts[n - 1] \in DOMAIN SeverityOf)
      BY <1>4
    <3> QED
      BY <1>4, <3>1 DEF split_rule_value
  <2>2. Front(parts) \in Seq(STRING)
    BY <1>1, SubSeqProperties DEF Front
  <2>3. SeverityOf[parts[n]] \in Severities
    BY <1>4, SeveritiesAre
  <2> HIDE DEF Rule
  <2> QED
    BY <1>2, <2>1, <2>2, <2>3, DefaultIdsAre
<1>5. CASE /\ n > 2 /\ parts[n] \notin DOMAIN SeverityOf \cup NotIds
           /\ parts[n - 1] \in DOMAIN SeverityOf
  <2>1. r = Rule(SubSeq(parts, 1, n - 2), parts[n], SeverityOf[parts[n - 1]])
    <3>1. ~(n = 1) /\ ~(n > 1 /\ parts[n] \in DOMAIN SeverityOf)
      BY <1>1, <1>5
    <3> QED
      BY <1>5, <3>1 DEF split_rule_value
  <2>2. SubSeq(parts, 1, n - 2) \in Seq(STRING)
    <3>1. \A i \in 1 .. n - 2 : parts[i] \in STRING
      BY <1>1
    <3> QED
      BY <1>1, <3>1, SubSeqProperties
  <2>3. parts[n] \in RuleIds
    <3>1. parts[n] \in STRING /\ parts[n] \notin NotIds /\ NothingMatches.rule \in NotIds
      BY <1>1, <1>5, SessionAssumption
    <3> QED
      BY <3>1 DEF RuleIds
  <2>4. SeverityOf[parts[n - 1]] \in Severities
    BY <1>5, SeveritiesAre
  <2> HIDE DEF Rule
  <2> QED
    BY <1>2, <2>1, <2>2, <2>3, <2>4
<1>6. CASE /\ ~(n = 1) /\ ~(n > 1 /\ parts[n] \in DOMAIN SeverityOf)
           /\ ~(/\ n > 2 /\ parts[n] \notin DOMAIN SeverityOf \cup NotIds
                /\ parts[n - 1] \in DOMAIN SeverityOf)
  BY <1>6 DEF split_rule_value
<1> QED
  BY <1>3, <1>4, <1>5, <1>6

\* What a line adds has a value, an id and a severity.
LEMMA AddedType ==
    ASSUME NEW list \in Lists, NEW parts \in Seq(STRING), parts # <<>>
    PROVE  Added(list, parts) = [sound |-> FALSE] \/ SoundRule(Added(list, parts))
<1>1. CASE list \in DetectionLists
  BY <1>1, SplitType DEF Added
<1>2. CASE list \notin DetectionLists
  <2>1. Added(list, parts) = [sound |-> TRUE, value |-> parts, id |-> "", severity |-> INFO]
    BY <1>2 DEF Added
  <2>2. "" \in RuleIds /\ INFO \in Severities
    BY DefaultIdsAre, SeveritiesAre
  <2> QED
    BY <2>1, <2>2, Zenon DEF SoundRule
<1> QED
  BY <1>1, <1>2

\* A value is stored as the list can hold it.
LEMMA StoredType ==
    ASSUME NEW list \in Lists, NEW value \in Seq(Words), list = "suspicious_port" => IsPort(value),
           NEW id \in RuleIds, NEW severity \in Severities
    PROVE  RuleEntry(list, value, id, severity) \in Entries
<1>1. Stored(list, value) \in StoredValues
  <2>1. CASE list = "suspicious_port"
    BY <2>1 DEF Stored, IsPort, StoredValues
  <2>2. CASE list # "suspicious_port"
    <3> DEFINE P == Words \cup {Cut[p] : p \in DOMAIN Cut}
               cut == [i \in DOMAIN value |-> IF value[i] \in DOMAIN Cut THEN Cut[value[i]] ELSE value[i]]
    <3>1. Len(value) \in Nat /\ DOMAIN value = 1 .. Len(value) /\ \A i \in 1 .. Len(value) : value[i] \in Words
      BY LenProperties
    <3>2. cut \in [1 .. Len(value) -> P]
      BY <3>1
    <3>3. cut \in Seq(P)
      <4> HIDE DEF cut, P
      <4> QED
        BY <3>1, <3>2, SeqDef
    <3>4. Stored(list, value) = cut
      BY <2>2 DEF Stored
    <3> QED
      BY <3>3, <3>4 DEF StoredValues
  <2> QED
    BY <2>1, <2>2
<1> QED
  BY <1>1 DEF RuleEntry, Entries

\* A loader state out of its parts.
Loader(profile, disabled, override, list, window, idle, min, anon, valid_) ==
    [rules |-> [profile |-> profile, disabled |-> disabled, override |-> override, list |-> list,
                dedup_window |-> window, user_idle_threshold |-> idle, min_severity |-> min,
                anon_exec_mmap_severity |-> anon],
     valid |-> valid_]

\* A loader state with another list for one.
Relisted(st, list, s) == [st EXCEPT !.rules.list[list] = s]

\* The parts of a loader state so built.
LEMMA LoaderFields ==
    ASSUME NEW a, NEW b, NEW c, NEW l, NEW d, NEW e, NEW f, NEW g, NEW v
    PROVE  LET st == Loader(a, b, c, l, d, e, f, g, v) IN
           /\ st.rules.list = l /\ st.rules.override = c /\ st.rules.disabled = b
           /\ st.rules.profile = a /\ st.valid = v
BY DEF Loader

\* Its type.
LEMMA LoaderTyped ==
    ASSUME NEW a \in Profiles, NEW b, NEW c, NEW l \in [Lists -> Seq(Entries)], NEW d, NEW e,
           NEW f \in Severities, NEW g \in Severities, NEW v \in BOOLEAN,
           \A id \in DOMAIN c : c[id] \in Severities,
           \A list \in Lists : Len(l[list]) <= MAX_RULES
    PROVE  LoaderType(Loader(a, b, c, l, d, e, f, g, v))
<1> DEFINE st == Loader(a, b, c, l, d, e, f, g, v)
           r == st.rules
<1>1. /\ r = [profile |-> a, disabled |-> b, override |-> c, list |-> l, dedup_window |-> d,
              user_idle_threshold |-> e, min_severity |-> f, anon_exec_mmap_severity |-> g]
      /\ st.valid = v /\ st = [rules |-> r, valid |-> v]
  BY DEF Loader
<1>2. /\ r.profile = a /\ r.disabled = b /\ r.override = c /\ r.list = l /\ r.dedup_window = d
      /\ r.user_idle_threshold = e /\ r.min_severity = f /\ r.anon_exec_mmap_severity = g
  BY <1>1
<1> HIDE DEF r
<1>3. RulesType(r)
  BY <1>1, <1>2 DEF RulesType
<1> HIDE DEF st
<1>4. LoaderType(st)
  BY <1>1, <1>3 DEF LoaderType, r
<1> QED
  BY <1>4 DEF st

\* Every loader state is so built.
LEMMA LoaderParts ==
    ASSUME NEW st, LoaderType(st)
    PROVE  \E a, b, c, l, d, e, f, g, v :
              /\ st = Loader(a, b, c, l, d, e, f, g, v)
              /\ a \in Profiles /\ f \in Severities /\ g \in Severities
              /\ \A id \in DOMAIN c : c[id] \in Severities
              /\ l \in [Lists -> Seq(Entries)] /\ \A list \in Lists : Len(l[list]) <= MAX_RULES
              /\ v \in BOOLEAN
<1>1. PICK r, v : r = st.rules /\ v = st.valid
  OBVIOUS
<1>2. st = [rules |-> r, valid |-> v] /\ v \in BOOLEAN /\ RulesType(r)
  BY <1>1 DEF LoaderType
<1>3. PICK a, b, c, l, d, e, f, g :
        /\ r = [profile |-> a, disabled |-> b, override |-> c, list |-> l, dedup_window |-> d,
                user_idle_threshold |-> e, min_severity |-> f, anon_exec_mmap_severity |-> g]
        /\ a = r.profile /\ b = r.disabled /\ c = r.override /\ l = r.list
        /\ f = r.min_severity /\ g = r.anon_exec_mmap_severity
  BY <1>2 DEF RulesType
<1>4. st = Loader(a, b, c, l, d, e, f, g, v)
  BY <1>2, <1>3 DEF Loader
<1>5. /\ a \in Profiles /\ f \in Severities /\ g \in Severities
      /\ \A id \in DOMAIN c : c[id] \in Severities
      /\ l \in [Lists -> Seq(Entries)] /\ \A list \in Lists : Len(l[list]) <= MAX_RULES
  BY <1>2, <1>3 DEF RulesType
<1> QED
  BY <1>2, <1>4, <1>5

\* Spoiling a configuration leaves the rules as they are.
LEMMA SpoilsOnly ==
    ASSUME NEW st, LoaderType(st)
    PROVE  LoaderType(Invalid(st)) /\ Invalid(st).rules = st.rules /\ Invalid(st).valid = FALSE
<1>1. PICK a, b : st = [rules |-> a, valid |-> b]
  BY DEF LoaderType
<1>2. \A c : [st EXCEPT !.valid = c] = [rules |-> a, valid |-> c]
  BY <1>1
<1>3. PICK c \in BOOLEAN : c = FALSE
  OBVIOUS
<1>4. Invalid(st) = [rules |-> a, valid |-> c]
  BY <1>2, <1>3 DEF Invalid
<1>5. st.rules = a /\ RulesType(a)
  BY <1>1 DEF LoaderType
<1>6. Invalid(st).rules = a /\ Invalid(st).valid = c
  BY <1>4
<1> QED
  BY <1>3, <1>4, <1>5, <1>6 DEF LoaderType

\* What another list for one leaves alone.
OtherListsKept(st, new, list) ==
    /\ LoaderType(new) /\ new.valid = st.valid /\ new.rules.override = st.rules.override
    /\ \A other \in Lists \ {list} : new.rules.list[other] = st.rules.list[other]

\* A loader state with another list for one.
LEMMA ListReplaced ==
    ASSUME NEW st, LoaderType(st), NEW list \in Lists, NEW s \in Seq(Entries), Len(s) <= MAX_RULES,
           NEW new, new = Relisted(st, list, s)
    PROVE  OtherListsKept(st, new, list) /\ new.rules.list[list] = s
<1>1. PICK a, b, c, l, d, e, f, g, v :
          /\ st = Loader(a, b, c, l, d, e, f, g, v)
          /\ a \in Profiles /\ f \in Severities /\ g \in Severities
          /\ \A id \in DOMAIN c : c[id] \in Severities
          /\ l \in [Lists -> Seq(Entries)] /\ \A other \in Lists : Len(l[other]) <= MAX_RULES
          /\ v \in BOOLEAN
  BY LoaderParts
<1>2. PICK m : m = [l EXCEPT ![list] = s]
  OBVIOUS
<1>3. m \in [Lists -> Seq(Entries)] /\ m[list] = s /\ \A other \in Lists \ {list} : m[other] = l[other]
  BY <1>1, <1>2
<1>4. new = Loader(a, b, c, m, d, e, f, g, v)
  <2>1. st = Loader(a, b, c, l, d, e, f, g, v)
    BY <1>1
  <2> QED
    BY <1>2, <2>1 DEF Loader, Relisted
<1>5. \A other \in Lists : Len(m[other]) <= MAX_RULES
  BY <1>1, <1>3
<1>6. st.rules.list = l /\ st.valid = v /\ st.rules.override = c
  BY <1>1, LoaderFields
<1>7. new.rules.list = m /\ new.valid = v /\ new.rules.override = c
  BY <1>4, LoaderFields
<1>8. LoaderType(Loader(a, b, c, m, d, e, f, g, v))
  BY <1>1, <1>3, <1>5, LoaderTyped
<1>9. LoaderType(new)
  BY <1>4, <1>8
<1>10. new.valid = st.valid
  BY <1>6, <1>7
<1>11. OtherListsKept(st, new, list)
  BY <1>3, <1>6, <1>7, <1>9, <1>10 DEF OtherListsKept
<1> QED
  BY <1>3, <1>7, <1>11

\* A line that adds.
LEMMA AddEffect ==
    ASSUME NEW st, LoaderType(st), NEW list \in Lists, NEW parts \in Seq(STRING), parts # <<>>,
           NEW new, new = AfterAdd(st, list, Added(list, parts))
    PROVE  LET rule == Added(list, parts)
               e == RuleEntry(list, rule.value, rule.id, rule.severity)
           IN \/ new = Invalid(st)
              \/ /\ OtherListsKept(st, new, list)
                 /\ e \in Entries /\ new.rules.list[list] = Append(st.rules.list[list], e)
<1> DEFINE rule == Added(list, parts)
           old == st.rules.list[list]
           e == RuleEntry(list, rule.value, rule.id, rule.severity)
<1>1. CASE rule = [sound |-> FALSE]
  <2>1. ~rule.sound
    BY <1>1
  <2> QED
    BY <2>1 DEF AfterAdd
<1>2. CASE AddFails(list, old, rule.value)
  BY <1>2 DEF AfterAdd
<1>3. CASE SoundRule(rule) /\ ~AddFails(list, old, rule.value)
  <2>1. PICK sound : \E value \in Seq(STRING), id \in RuleIds, severity \in Severities :
          rule = [sound |-> sound, value |-> value, id |-> id, severity |-> severity]
    BY <1>3 DEF SoundRule
  <2>2. rule.value \in Seq(STRING) /\ rule.id \in RuleIds /\ rule.severity \in Severities
    BY <2>1
  <2>3. rule.value \in Seq(Words)
    <3>1. STRING \subseteq Words
      BY DEF Words
    <3> QED
      BY <2>2, <3>1, SeqMonotonic
  <2>4. ~(Len(old) >= MAX_RULES) /\ (list = "suspicious_port" => IsPort(rule.value))
    BY <1>3 DEF AddFails
  <2>5. e \in Entries
    <3> HIDE DEF rule
    <3> QED
      BY <2>2, <2>3, <2>4, StoredType
  <2>6. old \in Seq(Entries)
    BY DEF LoaderType, RulesType
  <2>7. Append(old, e) \in Seq(Entries) /\ Len(Append(old, e)) <= MAX_RULES
    <3> HIDE DEF e, old
    <3>1. Append(old, e) \in Seq(Entries) /\ Len(Append(old, e)) = Len(old) + 1 /\ Len(old) \in Nat
      BY <2>5, <2>6, AppendIs
    <3> QED
      BY <2>4, <3>1, RuleConfigAssumption
  <2>8. CASE rule.sound
    <3>1. PICK o \in Seq(Entries) : o = Append(old, e) /\ Len(o) <= MAX_RULES
      BY <2>7
    <3>2. new = Relisted(st, list, o)
      BY <1>3, <2>8, <3>1 DEF AfterAdd, Relisted
    <3> HIDE DEF rule, e, old
    <3>3. Len(o) <= MAX_RULES
      BY <3>1
    <3>4. OtherListsKept(st, new, list) /\ new.rules.list[list] = o
      BY <3>2, <3>3, ListReplaced
    <3> QED
      BY <2>5, <3>1, <3>4 DEF rule, e, old
  <2>9. CASE ~rule.sound
    BY <2>9 DEF AfterAdd
  <2> QED
    BY <2>8, <2>9
<1> QED
  BY <1>1, <1>2, <1>3, AddedType

\* A line that removes.
LEMMA DisableEffect ==
    ASSUME NEW st, LoaderType(st), NEW list \in Lists, NEW parts,
           NEW new, new = AfterDisable(st, list, parts)
    PROVE  \/ new = Invalid(st)
           \/ /\ OtherListsKept(st, new, list)
              /\ new.rules.list[list] = Removed(st.rules.list[list], {Sought(list, parts)})
<1> DEFINE old == st.rules.list[list]
<1>1. CASE RemovalFails(list, old, parts)
  BY <1>1 DEF AfterDisable
<1>2. CASE ~RemovalFails(list, old, parts)
  <2>1. old \in Seq(Entries) /\ Len(old) <= MAX_RULES
    BY DEF LoaderType, RulesType
  <2>2. PICK o : o = Removed(old, {Sought(list, parts)})
    OBVIOUS
  <2>3. new = Relisted(st, list, o)
    BY <1>2, <2>2 DEF AfterDisable, Relisted
  <2> HIDE DEF old
  <2>4. o \in Seq(Entries) /\ Len(o) <= Len(old)
    BY <2>1, <2>2, RemovedType
  <2>5. Len(o) <= MAX_RULES
    BY <2>1, <2>4, LenProperties, RuleConfigAssumption
  <2>6. OtherListsKept(st, new, list) /\ new.rules.list[list] = o
    BY <2>3, <2>4, <2>5, ListReplaced
  <2> QED
    BY <2>2, <2>6 DEF old
<1> QED
  BY <1>1, <1>2

\* What the other lines leave alone.
ListsKept(st, new) ==
    LoaderType(new) /\ new.valid = st.valid /\ new.rules.list = st.rules.list

\* A line that disables a rule id.
LEMMA DisableIdEffect ==
    ASSUME NEW st, LoaderType(st), NEW parts, NEW new, new = AfterDisableId(st, parts)
    PROVE  \/ new = Invalid(st)
           \/ ListsKept(st, new) /\ new.rules.override = st.rules.override
<1>1. PICK a, b, c, l, d, e, f, g, v :
          /\ st = Loader(a, b, c, l, d, e, f, g, v)
          /\ a \in Profiles /\ f \in Severities /\ g \in Severities
          /\ \A id \in DOMAIN c : c[id] \in Severities
          /\ l \in [Lists -> Seq(Entries)] /\ \A other \in Lists : Len(l[other]) <= MAX_RULES
          /\ v \in BOOLEAN
  BY LoaderParts
<1>2. st = Loader(a, b, c, l, d, e, f, g, v)
  BY <1>1
<1>3. CASE new # Invalid(st)
  <2>1. new = [st EXCEPT !.rules.disabled = st.rules.disabled \cup {parts[1]}]
    BY <1>3 DEF AfterDisableId
  <2>2. PICK h : h = st.rules.disabled \cup {parts[1]}
    OBVIOUS
  <2>3. new = Loader(a, h, c, l, d, e, f, g, v)
    <3>1. new = [st EXCEPT !.rules.disabled = h]
      BY <2>1, <2>2
    <3> QED
      BY <1>2, <3>1 DEF Loader
  <2>4. LoaderType(Loader(a, h, c, l, d, e, f, g, v))
    BY <1>1, LoaderTyped
  <2>5. st.rules.list = l /\ st.valid = v /\ st.rules.override = c
    BY <1>2, LoaderFields
  <2>6. new.rules.list = l /\ new.valid = v /\ new.rules.override = c
    BY <2>3, LoaderFields
  <2> QED
    BY <2>3, <2>4, <2>5, <2>6 DEF ListsKept
<1> QED
  BY <1>3

\* The overrides with another severity for one rule id.
Overridden(override, parts) ==
    [id \in DOMAIN override \cup {parts[1]} |->
        IF id = parts[1] THEN SeverityOf[parts[2]] ELSE override[id]]

\* A line that overrides a severity.
LEMMA OverrideEffect ==
    ASSUME NEW st, LoaderType(st), NEW parts, NEW new, new = AfterOverride(st, parts)
    PROVE  \/ new = Invalid(st)
           \/ /\ ListsKept(st, new) /\ IsOverride(parts)
              /\ new.rules.override = Overridden(st.rules.override, parts)
<1>1. PICK a, b, c, l, d, e, f, g, v :
          /\ st = Loader(a, b, c, l, d, e, f, g, v)
          /\ a \in Profiles /\ f \in Severities /\ g \in Severities
          /\ \A id \in DOMAIN c : c[id] \in Severities
          /\ l \in [Lists -> Seq(Entries)] /\ \A other \in Lists : Len(l[other]) <= MAX_RULES
          /\ v \in BOOLEAN
  BY LoaderParts
<1>2. st = Loader(a, b, c, l, d, e, f, g, v)
  BY <1>1
<1>3. CASE new # Invalid(st)
  <2>1. new = [st EXCEPT !.rules.override = Overridden(st.rules.override, parts)]
    BY <1>3 DEF AfterOverride, Overridden
  <2>2. IsOverride(parts)
    BY <1>3 DEF AfterOverride
  <2>3. st.rules.list = l /\ st.valid = v /\ st.rules.override = c
    BY <1>2, LoaderFields
  <2>4. PICK h : h = Overridden(c, parts)
    OBVIOUS
  <2>5. new = Loader(a, b, h, l, d, e, f, g, v)
    <3>1. new = [st EXCEPT !.rules.override = h]
      BY <2>1, <2>4, <2>3
    <3> QED
      BY <1>2, <3>1 DEF Loader
  <2>6. \A id \in DOMAIN h : h[id] \in Severities
    <3>1. \A id \in DOMAIN c : c[id] \in Severities
      BY <1>1
    <3>2. SeverityOf[parts[2]] \in Severities
      BY <2>2, SeveritiesAre DEF IsOverride
    <3> QED
      BY <2>4, <3>1, <3>2 DEF Overridden
  <2>7. LoaderType(Loader(a, b, h, l, d, e, f, g, v))
    BY <1>1, <2>6, LoaderTyped
  <2>8. new.rules.list = l /\ new.valid = v /\ new.rules.override = h
    BY <2>5, LoaderFields
  <2> QED
    BY <2>4, <2>5, <2>7, <2>3, <2>8, <2>2 DEF ListsKept
<1> QED
  BY <1>3

\* A line with a single number or severity.
LEMMA SettingEffect ==
    ASSUME NEW st, LoaderType(st), NEW key, NEW parts, NEW new, new = AfterSetting(st, key, parts)
    PROVE  \/ new = Invalid(st)
           \/ ListsKept(st, new) /\ new.rules.override = st.rules.override
<1>1. PICK a, b, c, l, d, e, f, g, v :
          /\ st = Loader(a, b, c, l, d, e, f, g, v)
          /\ a \in Profiles /\ f \in Severities /\ g \in Severities
          /\ \A id \in DOMAIN c : c[id] \in Severities
          /\ l \in [Lists -> Seq(Entries)] /\ \A other \in Lists : Len(l[other]) <= MAX_RULES
          /\ v \in BOOLEAN
  BY LoaderParts
<1>2. st = Loader(a, b, c, l, d, e, f, g, v)
  BY <1>1
<1>3. ASSUME NEW h, NEW i, NEW k \in Severities, new = Loader(a, b, c, l, h, i, k, g, v)
      PROVE  ListsKept(st, new) /\ new.rules.override = st.rules.override
  <2>1. LoaderType(Loader(a, b, c, l, h, i, k, g, v))
    BY <1>1, LoaderTyped
  <2>2. st.rules.list = l /\ st.valid = v /\ st.rules.override = c
    BY <1>2, LoaderFields
  <2>3. new.rules.list = l /\ new.valid = v /\ new.rules.override = c
    BY <1>3, LoaderFields
  <2> QED
    BY <1>3, <2>1, <2>2, <2>3 DEF ListsKept
<1>4. CASE key = "min_severity" /\ Len(parts) = 1 /\ parts[1] \in DOMAIN SeverityOf
  <2>1. new = [st EXCEPT !.rules.min_severity = SeverityOf[parts[1]]]
    BY <1>4 DEF AfterSetting
  <2>2. PICK k \in Severities : k = SeverityOf[parts[1]]
    BY <1>4, SeveritiesAre
  <2>3. new = [st EXCEPT !.rules.min_severity = k]
    BY <2>1, <2>2
  <2>4. new = Loader(a, b, c, l, d, e, k, g, v)
    BY <1>2, <2>3 DEF Loader
  <2> QED
    BY <1>3, <2>4
<1>5. CASE key = "dedup_window_seconds" /\ Len(parts) = 1 /\ parts[1] \in DOMAIN Seconds
  <2>1. new = [st EXCEPT !.rules.dedup_window = Seconds[parts[1]]]
    BY <1>5 DEF AfterSetting
  <2>2. PICK k : k = Seconds[parts[1]]
    OBVIOUS
  <2>3. new = [st EXCEPT !.rules.dedup_window = k]
    BY <2>1, <2>2
  <2>4. new = Loader(a, b, c, l, k, e, f, g, v)
    BY <1>2, <2>3 DEF Loader
  <2> QED
    BY <1>1, <1>3, <2>4
<1>6. CASE key = "user_idle_threshold_seconds" /\ Len(parts) = 1 /\ parts[1] \in DOMAIN Seconds
  <2>1. new = [st EXCEPT !.rules.user_idle_threshold = Seconds[parts[1]]]
    BY <1>6 DEF AfterSetting
  <2>2. PICK k : k = Seconds[parts[1]]
    OBVIOUS
  <2>3. new = [st EXCEPT !.rules.user_idle_threshold = k]
    BY <2>1, <2>2
  <2>4. new = Loader(a, b, c, l, d, k, f, g, v)
    BY <1>2, <2>3 DEF Loader
  <2> QED
    BY <1>1, <1>3, <2>4
<1>7. CASE /\ ~(key = "min_severity" /\ Len(parts) = 1 /\ parts[1] \in DOMAIN SeverityOf)
           /\ ~(key = "dedup_window_seconds" /\ Len(parts) = 1 /\ parts[1] \in DOMAIN Seconds)
           /\ ~(key = "user_idle_threshold_seconds" /\ Len(parts) = 1 /\ parts[1] \in DOMAIN Seconds)
  BY <1>7 DEF AfterSetting
<1> QED
  BY <1>4, <1>5, <1>6, <1>7

\* The rule a line of a list's key leaves in the list.
LineEntry(list, parts) ==
    RuleEntry(list, Added(list, parts).value, Added(list, parts).id, Added(list, parts).severity)

\* What a line may do to one of the lists.
ListEffect(line, st, new, list) ==
    /\ line.parts = <<>> \/ line.key \notin {list, DisableKey[list]} =>
          new.rules.list[list] = st.rules.list[list]
    /\ new.valid /\ line.parts # <<>> /\ line.key = list =>
          /\ LineEntry(list, line.parts) \in Entries
          /\ new.rules.list[list] = Append(st.rules.list[list], LineEntry(list, line.parts))
    /\ new.valid /\ line.parts # <<>> /\ line.key = DisableKey[list] =>
          new.rules.list[list] = Removed(st.rules.list[list], {Sought(list, line.parts)})

\* What it may do to the overrides.
OverridesEffect(line, st, new) ==
    /\ line.parts = <<>> \/ line.key # "rule_severity" => new.rules.override = st.rules.override
    /\ new.valid /\ line.parts # <<>> /\ line.key = "rule_severity" =>
          /\ IsOverride(line.parts)
          /\ new.rules.override = Overridden(st.rules.override, line.parts)

\* What it may do at all.
LineEffect(line, st, new) ==
    /\ LoaderType(new) /\ (new.valid => st.valid)
    /\ \A list \in Lists : ListEffect(line, st, new, list)
    /\ OverridesEffect(line, st, new)

\* A line that spoils the configuration, or that nobody reads.
LEMMA NoEffect ==
    ASSUME NEW st, LoaderType(st), NEW line, NEW new,
           \/ new = Invalid(st)
           \/ new = st /\ (line.parts = <<>> \/ IsProfileLine(line))
    PROVE  LineEffect(line, st, new)
<1>1. CASE new = Invalid(st)
  <2>1. LoaderType(new) /\ new.rules = st.rules /\ new.valid = FALSE
    BY <1>1, SpoilsOnly
  <2>2. LoaderType(new) /\ (new.valid => st.valid)
    BY <2>1
  <2>3. ~new.valid
    BY <2>1
  <2> QED
    BY <2>1, <2>2, <2>3 DEF LineEffect, ListEffect, OverridesEffect
<1>2. CASE new = st /\ (line.parts = <<>> \/ IsProfileLine(line))
  <2>1. line.parts # <<>> => line.key = "profile"
    BY <1>2 DEF IsProfileLine
  <2>2. \A list \in Lists : list # "profile" /\ DisableKey[list] # "profile"
    BY KeysDiffer
  <2>3. \A list \in Lists : ListEffect(line, st, new, list)
    BY <1>2, <2>1, <2>2 DEF ListEffect
  <2>4. OverridesEffect(line, st, new)
    BY <1>2, <2>1 DEF OverridesEffect
  <2> QED
    BY <1>2, <2>3, <2>4 DEF LineEffect
<1> QED
  BY <1>1, <1>2

\* A line of one list leaves the others and the overrides alone.
LEMMA OneList ==
    ASSUME NEW st, NEW line, NEW new, NEW list \in Lists, line.key \in {list, DisableKey[list]},
           OtherListsKept(st, new, list), ListEffect(line, st, new, list)
    PROVE  LineEffect(line, st, new)
<1>1. /\ LoaderType(new) /\ new.valid = st.valid /\ new.rules.override = st.rules.override
      /\ \A other \in Lists \ {list} : new.rules.list[other] = st.rules.list[other]
  BY DEF OtherListsKept
<1>2. \A other \in Lists \ {list} : line.key \notin {other, DisableKey[other]}
  BY KeysDiffer
<1>3. \A other \in Lists \ {list} : ListEffect(line, st, new, other)
  BY <1>1, <1>2 DEF ListEffect
<1>4. line.key # "rule_severity"
  BY KeysDiffer
<1>5. OverridesEffect(line, st, new)
  BY <1>1, <1>4 DEF OverridesEffect
<1>6. LoaderType(new) /\ (new.valid => st.valid)
  BY <1>1
<1>7. \A other \in Lists : ListEffect(line, st, new, other)
  BY <1>3
<1> QED
  BY <1>5, <1>6, <1>7 DEF LineEffect

\* A line of no list leaves the lists alone.
LEMMA NoList ==
    ASSUME NEW st, NEW line, NEW new, \A list \in Lists : line.key \notin {list, DisableKey[list]},
           ListsKept(st, new), OverridesEffect(line, st, new)
    PROVE  LineEffect(line, st, new)
<1>1. /\ LoaderType(new) /\ new.valid = st.valid
      /\ \A list \in Lists : new.rules.list[list] = st.rules.list[list]
  BY DEF ListsKept
<1>2. \A list \in Lists : ListEffect(line, st, new, list)
  BY <1>1 DEF ListEffect
<1>3. LoaderType(new) /\ (new.valid => st.valid)
  BY <1>1
<1> QED
  BY <1>2, <1>3 DEF LineEffect

\* Every line has an effect of its kind.
LEMMA LineDoes ==
    ASSUME NEW st, LoaderType(st), NEW line \in ConfigLine, NEW new, new = AfterLine(line, st)
    PROVE  LineEffect(line, st, new)
<1> DEFINE parts == line.parts
<1>1. parts \in Seq(STRING)
  BY DEF ConfigLine
<1>2. CASE IsProfileLine(line)
  <2>1. new = st
    BY <1>2, LineIs
  <2> QED
    BY <1>2, <2>1, NoEffect
<1>3. CASE parts = <<>>
  <2>1. new = st \/ new = Invalid(st)
    BY <1>3, LineIs
  <2> QED
    BY <1>3, <2>1, NoEffect
<1>4. ASSUME NEW list \in Lists, parts # <<>>, line.key = list PROVE LineEffect(line, st, new)
  <2>1. new = AfterAdd(st, list, Added(list, parts))
    BY <1>4, LineIs
  <2>2. CASE new = Invalid(st)
    BY <2>2, NoEffect
  <2>3. CASE new # Invalid(st)
    <3>1. /\ OtherListsKept(st, new, list) /\ LineEntry(list, parts) \in Entries
          /\ new.rules.list[list] = Append(st.rules.list[list], LineEntry(list, parts))
      BY <1>1, <1>4, <2>1, <2>3, AddEffect DEF LineEntry
    <3>2. DisableKey[list] # list
      BY KeysDiffer
    <3>3. ListEffect(line, st, new, list)
      BY <1>4, <3>1, <3>2 DEF ListEffect
    <3> QED
      BY <1>4, <3>1, <3>3, OneList
  <2> QED
    BY <2>2, <2>3
<1>5. ASSUME NEW list \in Lists, parts # <<>>, line.key = DisableKey[list]
      PROVE  LineEffect(line, st, new)
  <2>1. new = AfterDisable(st, list, parts)
    BY <1>5, LineIs
  <2>2. CASE new = Invalid(st)
    BY <2>2, NoEffect
  <2>3. CASE new # Invalid(st)
    <3>1. /\ OtherListsKept(st, new, list)
          /\ new.rules.list[list] = Removed(st.rules.list[list], {Sought(list, parts)})
      BY <2>1, <2>3, DisableEffect
    <3>2. DisableKey[list] # list
      BY KeysDiffer
    <3>3. ListEffect(line, st, new, list)
      BY <1>5, <3>1, <3>2 DEF ListEffect
    <3> QED
      BY <1>5, <3>1, <3>3, OneList
  <2> QED
    BY <2>2, <2>3
<1>6. CASE parts # <<>> /\ line.key \in {"disable_rule_id", "rule_severity"}
  <2>1. \A list \in Lists : line.key \notin {list, DisableKey[list]}
    BY <1>6, KeysDiffer
  <2>2. CASE line.key = "disable_rule_id"
    <3>1. new = AfterDisableId(st, parts)
      BY <1>6, <2>2, LineIs
    <3>2. CASE new = Invalid(st)
      BY <3>2, NoEffect
    <3>3. CASE new # Invalid(st)
      <4>1. ListsKept(st, new) /\ new.rules.override = st.rules.override
        BY <3>1, <3>3, DisableIdEffect
      <4>2. OverridesEffect(line, st, new)
        BY <2>2, <4>1 DEF OverridesEffect
      <4> QED
        BY <2>1, <4>1, <4>2, NoList
    <3> QED
      BY <3>2, <3>3
  <2>3. CASE line.key = "rule_severity"
    <3>1. new = AfterOverride(st, parts)
      BY <1>6, <2>3, LineIs
    <3>2. CASE new = Invalid(st)
      BY <3>2, NoEffect
    <3>3. CASE new # Invalid(st)
      <4>1. /\ ListsKept(st, new) /\ IsOverride(parts)
            /\ new.rules.override = Overridden(st.rules.override, parts)
        BY <3>1, <3>3, OverrideEffect
      <4>2. OverridesEffect(line, st, new)
        BY <1>6, <2>3, <4>1 DEF OverridesEffect
      <4> QED
        BY <2>1, <4>1, <4>2, NoList
    <3> QED
      BY <3>2, <3>3
  <2> QED
    BY <1>6, <2>2, <2>3
<1>7. CASE /\ ~IsProfileLine(line) /\ parts # <<>>
           /\ \A list \in Lists : line.key \notin {list, DisableKey[list]}
           /\ line.key \notin {"disable_rule_id", "rule_severity"}
  <2>1. new = AfterSetting(st, line.key, parts)
    BY <1>7, LineIs
  <2>2. CASE new = Invalid(st)
    BY <2>2, NoEffect
  <2>3. CASE new # Invalid(st)
    <3>1. ListsKept(st, new) /\ new.rules.override = st.rules.override
      BY <2>1, <2>3, SettingEffect
    <3>2. OverridesEffect(line, st, new)
      BY <1>7, <3>1 DEF OverridesEffect
    <3> QED
      BY <1>7, <3>1, <3>2, NoList
  <2> QED
    BY <2>2, <2>3
<1> QED
  BY <1>2, <1>3, <1>4, <1>5, <1>6, <1>7

-------------------------------------------------------------------------------
(* The compiled rules and the profiles.                                      *)

\* The compiled values are sequences.
LEMMA DefaultsAre ==
    ASSUME NEW list \in Lists
    PROVE  /\ Len(DefaultValues[list]) \in Nat
           /\ DOMAIN DefaultValues[list] = 1 .. Len(DefaultValues[list])
<1>1. CASE list = "suspicious_exec_exact"
  BY <1>1 DEF DefaultValues
<1>2. CASE list = "suspicious_exec_prefix"
  BY <1>2 DEF DefaultValues
<1>3. CASE list = "sensitive_read"
  BY <1>3 DEF DefaultValues
<1>4. CASE list = "sensitive_write"
  BY <1>4 DEF DefaultValues
<1>5. CASE list = "suspicious_port"
  BY <1>5 DEF DefaultValues
<1>6. CASE list = "jit_allow_comm"
  BY <1>6 DEF DefaultValues
<1>7. CASE list = "flow_allow_transfer"
  BY <1>7 DEF DefaultValues
<1> QED
  BY <1>1, <1>2, <1>3, <1>4, <1>5, <1>6, <1>7, ListsAre DEF ListNames

\* The entry of a compiled value.
DefaultEntry(list, i) ==
    IF list \in DetectionLists
    THEN RuleEntry(list, <<DefaultValues[list][i]>>, DefaultId[list], DefaultSeverity(list))
    ELSE RuleEntry(list, <<DefaultValues[list][i]>>, "", INFO)

\* It has a value, an id and a severity.
LEMMA DefaultEntryType ==
    ASSUME NEW list \in Lists, NEW i \in DOMAIN DefaultValues[list]
    PROVE  DefaultEntry(list, i) \in Entries
<1>1. PICK w : w = DefaultValues[list][i]
  OBVIOUS
<1>2. w \in Words
  BY <1>1 DEF Words, ToSet
<1>3. PICK value : value = <<w>>
  OBVIOUS
<1>4. value \in Seq(Words) /\ Len(value) = 1 /\ value[1] = w
  BY <1>2, <1>3
<1>5. list = "suspicious_port" => IsPort(value)
  BY <1>1, <1>4, RuleConfigAssumption DEF IsPort
<1>6. CASE list \in DetectionLists
  <2>1. DefaultId[list] \in RuleIds
    BY <1>6, DefaultIdsAre
  <2>2. DefaultSeverity(list) \in Severities
    BY SeveritiesAre
  <2>3. RuleEntry(list, value, DefaultId[list], DefaultSeverity(list)) \in Entries
    BY <1>4, <1>5, <2>1, <2>2, StoredType
  <2> QED
    BY <1>1, <1>3, <1>6, <2>3 DEF DefaultEntry
<1>7. CASE list \notin DetectionLists
  <2>1. "" \in RuleIds /\ INFO \in Severities
    BY DefaultIdsAre, SeveritiesAre
  <2>2. RuleEntry(list, value, "", INFO) \in Entries
    BY <1>4, <1>5, <2>1, StoredType
  <2> QED
    BY <1>1, <1>3, <1>7, <2>2 DEF DefaultEntry
<1> QED
  BY <1>6, <1>7

\* The compiled lists.
LEMMA DefaultLists ==
    /\ init_default_rules.list \in [Lists -> Seq(Entries)]
    /\ \A list \in Lists : Len(init_default_rules.list[list]) <= MAX_RULES
    /\ \A list \in Lists : init_default_rules.list[list] =
          [i \in DOMAIN DefaultValues[list] |-> DefaultEntry(list, i)]
<1>1. init_default_rules.list = [list \in Lists |-> [i \in DOMAIN DefaultValues[list] |-> DefaultEntry(list, i)]]
  BY DEF init_default_rules, DefaultEntry
<1>2. ASSUME NEW list \in Lists, NEW s, s = [i \in DOMAIN DefaultValues[list] |-> DefaultEntry(list, i)]
      PROVE  s \in Seq(Entries) /\ Len(s) <= MAX_RULES
  <2>1. PICK n \in Nat : n = Len(DefaultValues[list]) /\ DOMAIN DefaultValues[list] = 1 .. n
    BY DefaultsAre
  <2>2. \A i \in 1 .. n : DefaultEntry(list, i) \in Entries
    BY <2>1, DefaultEntryType
  <2>3. s \in [1 .. n -> Entries]
    BY <1>2, <2>1, <2>2
  <2>4. s \in Seq(Entries) /\ Len(s) = n
    BY <2>3
  <2> QED
    BY <2>1, <2>4, RuleConfigAssumption
<1> QED
  BY <1>1, <1>2

\* Rules out of their parts.
RulesFrom(profile, disabled, override, list, window, idle, min, anon) ==
    [profile |-> profile, disabled |-> disabled, override |-> override, list |-> list,
     dedup_window |-> window, user_idle_threshold |-> idle, min_severity |-> min,
     anon_exec_mmap_severity |-> anon]

\* The compiled rules.
LEMMA DefaultsLoaded ==
    ASSUME NEW l, l = init_default_rules.list
    PROVE  init_default_rules = RulesFrom("baseline", {}, <<>>, l, 5, 300, WARN, WARN)
BY DEF init_default_rules, RulesFrom

\* The compiled list of shells and fetchers has its values in full.
LEMMA FetchersThere ==
    ASSUME NEW word \in {"curl", "wget"}
    PROVE  \E i \in DOMAIN init_default_rules.list["suspicious_exec_exact"] :
              init_default_rules.list["suspicious_exec_exact"][i].value = <<word>>
<1> DEFINE list == "suspicious_exec_exact"
           i == IF word = "curl" THEN 5 ELSE 6
<1>1. list \in Lists
  BY ListsAre DEF ListNames
<1>2. i \in DOMAIN DefaultValues[list] /\ DefaultValues[list][i] = word
  BY DEF DefaultValues
<1>3. word \in UNION {ToSet(DefaultValues[l]) : l \in Lists}
  BY <1>1, <1>2 DEF ToSet
<1>4. word \notin DOMAIN Cut
  BY <1>3, RuleConfigAssumption
<1>5. Stored(list, <<word>>) = <<word>>
  BY <1>4 DEF Stored
<1>6. DefaultEntry(list, i).value = Stored(list, <<word>>)
  <2> HIDE DEF i
  <2> QED
    BY <1>2 DEF DefaultEntry, RuleEntry
<1>7. init_default_rules.list[list][i] = DefaultEntry(list, i) /\ i \in DOMAIN init_default_rules.list[list]
  BY <1>1, <1>2, DefaultLists
<1> QED
  BY <1>5, <1>6, <1>7

\* The compiled values a profile takes out of a list.
LeftOut(p, list) ==
    IF p = "server" /\ list = "jit_allow_comm" THEN {"chrome", "chromium", "firefox"}
    ELSE IF p = "high-signal" /\ list = "suspicious_exec_exact" THEN {"bash", "sh"} ELSE {}

\* The lists of a profile.
ListsOf(p) ==
    [list \in Lists |-> Removed(init_default_rules.list[list], {<<w>> : w \in LeftOut(p, list)})]

\* A list nothing is taken out of.
LEMMA NothingLeftOut ==
    ASSUME NEW list \in Lists, NEW p, LeftOut(p, list) = {}
    PROVE  ListsOf(p)[list] = init_default_rules.list[list]
<1>1. PICK s : s = init_default_rules.list[list]
  OBVIOUS
<1>2. s \in Seq(Entries)
  BY <1>1, DefaultLists
<1>3. {<<w>> : w \in LeftOut(p, list)} = {}
  OBVIOUS
<1>4. Removed(s, {}) = s
  BY <1>2, RemovedType
<1> QED
  BY <1>1, <1>3, <1>4 DEF ListsOf

\* They fit.
LEMMA ListsFit ==
    ASSUME NEW p
    PROVE  /\ ListsOf(p) \in [Lists -> Seq(Entries)]
           /\ \A list \in Lists : Len(ListsOf(p)[list]) <= MAX_RULES
<1>1. ASSUME NEW list \in Lists, NEW V, NEW o, o = Removed(init_default_rules.list[list], V)
      PROVE  o \in Seq(Entries) /\ Len(o) <= MAX_RULES
  <2>1. PICK s : s = init_default_rules.list[list]
    OBVIOUS
  <2>2. s \in Seq(Entries) /\ Len(s) <= MAX_RULES
    BY <2>1, DefaultLists
  <2>3. o \in Seq(Entries) /\ Len(o) <= Len(s)
    BY <1>1, <2>1, <2>2, RemovedType
  <2> QED
    BY <2>2, <2>3, LenProperties, RuleConfigAssumption
<1> QED
  BY <1>1 DEF ListsOf

\* What a profile makes of the compiled rules.
LEMMA ProfileIs ==
    ASSUME NEW p \in Profiles
    PROVE  apply_profile(init_default_rules, p) =
              RulesFrom(p, {}, <<>>, ListsOf(p), 5, 300, WARN,
                        IF p = "developer-workstation" THEN INFO ELSE WARN)
<1>1. PICK l : l = init_default_rules.list
  OBVIOUS
<1>2. l \in [Lists -> Seq(Entries)]
  BY <1>1, DefaultLists
<1>3. PICK a, b, c, d, e, W, i :
          /\ a = "baseline" /\ b = {} /\ c = <<>> /\ d = 5 /\ e = 300 /\ W = WARN /\ i = INFO
  OBVIOUS
<1>4. PICK r : r = [init_default_rules EXCEPT !.profile = p]
  OBVIOUS
<1>5. r = RulesFrom(p, b, c, l, d, e, W, W)
  <2>1. init_default_rules = RulesFrom(a, b, c, l, d, e, W, W)
    BY <1>1, <1>3, DefaultsLoaded
  <2> QED
    BY <1>4, <2>1 DEF RulesFrom
<1>6. r.list = l
  BY <1>5 DEF RulesFrom
<1>7. "suspicious_exec_exact" \in Lists /\ "jit_allow_comm" \in Lists
  BY ListsAre DEF ListNames
<1>8. ASSUME NEW list \in Lists, NEW s, s = Without(r, list, LeftOut(p, list)),
              \A other \in Lists \ {list} : LeftOut(p, other) = {}
       PROVE  s = RulesFrom(p, b, c, ListsOf(p), d, e, W, W)
  <2>1. PICK o : o = Removed(l[list], {<<w>> : w \in LeftOut(p, list)})
    OBVIOUS
  <2>2. PICK m : m = [l EXCEPT ![list] = o]
    OBVIOUS
  <2>3. s = [r EXCEPT !.list = m]
    <3>1. r = [profile |-> p, disabled |-> b, override |-> c, list |-> l,
                dedup_window |-> d, user_idle_threshold |-> e, min_severity |-> W,
                anon_exec_mmap_severity |-> W]
      BY <1>5 DEF RulesFrom
    <3>2. s = [r EXCEPT !.list[list] = o]
      BY <1>6, <1>8, <2>1 DEF Without
    <3> QED
      BY <2>2, <1>6, <3>1, <3>2
  <2>4. s = RulesFrom(p, b, c, m, d, e, W, W)
    BY <1>5, <2>3 DEF RulesFrom
  <2>5. ListsOf(p)[list] = o
    BY <1>1, <2>1 DEF ListsOf
  <2>6. \A other \in Lists \ {list} : ListsOf(p)[other] = l[other]
    BY <1>1, <1>8, NothingLeftOut
  <2>7. m = ListsOf(p)
    <3>1. DOMAIN m = Lists /\ m = [other \in Lists |-> m[other]]
      BY <1>2, <2>2
    <3>2. ListsOf(p) = [other \in Lists |-> ListsOf(p)[other]]
      BY DEF ListsOf
    <3>3. \A other \in Lists : m[other] = ListsOf(p)[other]
      BY <1>2, <2>2, <2>5, <2>6
    <3> QED
      BY <3>1, <3>2, <3>3
  <2> QED
    BY <2>4, <2>7
<1>9. ASSUME p \in {"baseline", "developer-workstation"} PROVE ListsOf(p) = l
  <2>1. \A list \in Lists : LeftOut(p, list) = {}
    BY <1>9 DEF LeftOut
  <2>2. \A list \in Lists : ListsOf(p)[list] = l[list]
    BY <1>1, <2>1, NothingLeftOut
  <2>3. ListsOf(p) = [other \in Lists |-> ListsOf(p)[other]]
    BY DEF ListsOf
  <2> QED
    BY <1>2, <2>2, <2>3
<1>10. CASE p = "baseline"
  <2>1. apply_profile(init_default_rules, p) = r
    BY <1>4, <1>10 DEF apply_profile
  <2> QED
    BY <1>3, <1>5, <1>9, <1>10, <2>1
<1>11. CASE p = "developer-workstation"
  <2>1. apply_profile(init_default_rules, p) = [r EXCEPT !.anon_exec_mmap_severity = i]
    BY <1>4, <1>11, <1>3 DEF apply_profile
  <2>2. [r EXCEPT !.anon_exec_mmap_severity = i] = RulesFrom(p, b, c, l, d, e, W, i)
    BY <1>5 DEF RulesFrom
  <2>3. apply_profile(init_default_rules, p) = RulesFrom(p, b, c, l, d, e, W, i)
    BY <2>1, <2>2, Zenon
  <2> QED
    BY <1>3, <1>9, <1>11, <2>3
<1>12. CASE p = "high-signal"
  <2>1. apply_profile(init_default_rules, p) = Without(r, "suspicious_exec_exact", {"bash", "sh"})
    BY <1>4, <1>12 DEF apply_profile
  <2>2. /\ LeftOut(p, "suspicious_exec_exact") = {"bash", "sh"}
        /\ \A other \in Lists \ {"suspicious_exec_exact"} : LeftOut(p, other) = {}
    BY <1>12 DEF LeftOut
  <2>3. apply_profile(init_default_rules, p) = RulesFrom(p, b, c, ListsOf(p), d, e, W, W)
    BY <1>7, <1>8, <2>1, <2>2
  <2> QED
    BY <1>3, <1>12, <2>3
<1>13. CASE p = "server"
  <2>1. PICK s : s = Without(r, "jit_allow_comm", {"chrome", "chromium", "firefox"})
    OBVIOUS
  <2>2. apply_profile(init_default_rules, p) = WithExec(WithExec(s, "curl"), "wget")
    BY <1>4, <1>13, <2>1 DEF apply_profile
  <2>3. /\ LeftOut(p, "jit_allow_comm") = {"chrome", "chromium", "firefox"}
        /\ \A other \in Lists \ {"jit_allow_comm"} : LeftOut(p, other) = {}
    BY <1>13 DEF LeftOut
  <2>4. s = RulesFrom(p, b, c, ListsOf(p), d, e, W, W)
    BY <1>7, <1>8, <2>1, <2>3
  <2>5. s.list = ListsOf(p)
    BY <2>4 DEF RulesFrom
  <2>6. s.list["suspicious_exec_exact"] = init_default_rules.list["suspicious_exec_exact"]
    BY <1>7, <2>3, <2>5, NothingLeftOut
  <2>7. WithExec(s, "curl") = s /\ WithExec(s, "wget") = s
    BY <2>6, FetchersThere DEF WithExec
  <2>8. apply_profile(init_default_rules, p) = RulesFrom(p, b, c, ListsOf(p), d, e, W, W)
    BY <2>2, <2>4, <2>7
  <2> QED
    BY <1>3, <1>13, <2>8
<1> QED
  BY <1>10, <1>11, <1>12, <1>13 DEF Profiles

\* What a profile starts from.
LEMMA ProfileStart ==
    ASSUME NEW p \in Profiles, NEW new, new = [rules |-> apply_profile(init_default_rules, p), valid |-> TRUE]
    PROVE  LoaderType(new)
<1>1. PICK v \in BOOLEAN : v = TRUE
  OBVIOUS
<1>2. PICK b, c, m, d, e, W, i :
          /\ b = {} /\ c = <<>> /\ m = ListsOf(p) /\ d = 5 /\ e = 300 /\ W = WARN
          /\ i = IF p = "developer-workstation" THEN INFO ELSE WARN
  OBVIOUS
<1>3. DOMAIN c = {} /\ W \in Severities /\ i \in Severities
  BY <1>2, SeveritiesAre
<1>4. m \in [Lists -> Seq(Entries)] /\ \A list \in Lists : Len(m[list]) <= MAX_RULES
  BY <1>2, ListsFit
<1>5. apply_profile(init_default_rules, p) = RulesFrom(p, b, c, m, d, e, W, i)
  BY <1>2, ProfileIs
<1>6. new = Loader(p, b, c, m, d, e, W, i, v)
  <2>1. Loader(p, b, c, m, d, e, W, i, v) = [rules |-> RulesFrom(p, b, c, m, d, e, W, i), valid |-> v]
    BY Zenon DEF Loader, RulesFrom
  <2> QED
    BY <1>1, <1>5, <2>1, Zenon
<1>7. LoaderType(Loader(p, b, c, m, d, e, W, i, v))
  BY <1>3, <1>4, LoaderTyped
<1> QED
  BY <1>6, <1>7, Zenon

-------------------------------------------------------------------------------
(* The last line about a value decides.                                      *)

\* The lines of a text about a value of a list, and those that override a rule id.
LinesAbout(t, list, v) ==
    {i \in DOMAIN t : /\ t[i].parts # <<>> /\ t[i].key \in {list, DisableKey[list]}
                      /\ Means(list, t[i]) = v}
LinesOverriding(t, id) ==
    {i \in DOMAIN t : t[i].parts # <<>> /\ t[i].key = "rule_severity" /\ t[i].parts[1] = id}

\* The last line about a value decides whether the list has it, and with which entry.
Decided(t, s, list, v) ==
    \A i \in LinesAbout(t, list, v) : (\A k \in LinesAbout(t, list, v) : k <= i) =>
        IF t[i].key # list THEN \A k \in DOMAIN s : s[k].value # v
        ELSE LastWith(s, v, LineEntry(list, t[i].parts))
OverrideDecided(t, override, id) ==
    \A i \in LinesOverriding(t, id) : (\A k \in LinesOverriding(t, id) : k <= i) =>
        id \in DOMAIN override /\ override[id] = SeverityOf[t[i].parts[2]]

\* What an added line means is the value of its entry.
LEMMA MeansIs ==
    ASSUME NEW list \in Lists, NEW line
    PROVE  /\ line.key = list => Means(list, line) = LineEntry(list, line.parts).value
           /\ line.key = DisableKey[list] => Means(list, line) = Sought(list, line.parts)
<1>1. LineEntry(list, line.parts).value = Stored(list, Added(list, line.parts).value)
  BY DEF LineEntry, RuleEntry
<1>2. Added(list, line.parts).value =
        IF list \in DetectionLists THEN split_rule_value(list, line.parts).value ELSE line.parts
  BY DEF Added
<1>3. DisableKey[list] # list
  BY KeysDiffer
<1> QED
  BY <1>1, <1>2, <1>3 DEF Means

\* A removal brings no value back.
LEMMA RemovedAddsNone ==
    ASSUME NEW T, NEW s \in Seq(T), NEW V, NEW v, \A k \in DOMAIN s : s[k].value # v
    PROVE  \A k \in DOMAIN Removed(s, V) : Removed(s, V)[k].value # v
<1> SUFFICES ASSUME NEW k \in DOMAIN Removed(s, V) PROVE Removed(s, V)[k].value # v
  OBVIOUS
<1>1. \E j \in DOMAIN s : Removed(s, V)[k] = s[j]
  BY RemovedType
<1> QED
  BY <1>1

\* One more line decides about its value and leaves other values as they were decided.
LEMMA DecidedStep ==
    ASSUME NEW t \in Seq(ConfigLine), NEW x \in ConfigLine, NEW list \in Lists, NEW v,
           NEW st, NEW new, LoaderType(st), LineEffect(x, st, new), new.valid,
           Decided(t, st.rules.list[list], list, v)
    PROVE  Decided(Append(t, x), new.rules.list[list], list, v)
<1> DEFINE old == st.rules.list[list]
           s == new.rules.list[list]
<1>1. PICK u : \E n \in Nat : /\ u = Append(t, x) /\ n = Len(t)
                              /\ DOMAIN t = 1 .. n /\ DOMAIN u = 1 .. n + 1 /\ u[n + 1] = x
                              /\ \A i \in 1 .. n : u[i] = t[i]
  <2> HIDE DEF old, s
  <2>1. /\ Len(t) \in Nat /\ DOMAIN t = 1 .. Len(t) /\ DOMAIN Append(t, x) = 1 .. Len(t) + 1
        /\ Append(t, x)[Len(t) + 1] = x /\ \A i \in 1 .. Len(t) : Append(t, x)[i] = t[i]
    BY AppendIs
  <2> QED
    BY <2>1
<1>2. PICK n \in Nat : /\ n = Len(t)
                        /\ DOMAIN t = 1 .. n /\ DOMAIN u = 1 .. n + 1 /\ u[n + 1] = x
                        /\ \A i \in 1 .. n : u[i] = t[i]
  BY <1>1
<1>3. ListEffect(x, st, new, list)
  BY DEF LineEffect
<1>4. old \in Seq(Entries) /\ DOMAIN old = 1 .. Len(old)
  BY LenProperties DEF LoaderType, RulesType
<1>5. x.parts = <<>> \/ x.key \notin {list, DisableKey[list]} => s = old
  BY <1>3 DEF ListEffect
<1>6. x.parts # <<>> /\ x.key = list =>
        LineEntry(list, x.parts) \in Entries /\ s = Append(old, LineEntry(list, x.parts))
  BY <1>3 DEF ListEffect
<1>7. x.parts # <<>> /\ x.key = DisableKey[list] => s = Removed(old, {Sought(list, x.parts)})
  BY <1>3 DEF ListEffect
<1>8. Decided(t, old, list, v)
  OBVIOUS
<1>9. DisableKey[list] # list
  BY KeysDiffer
<1> SUFFICES Decided(u, s, list, v)
  BY <1>1, Zenon
<1> HIDE DEF old, s
<1> SUFFICES ASSUME NEW i \in LinesAbout(u, list, v), \A k \in LinesAbout(u, list, v) : k <= i
             PROVE  IF u[i].key # list THEN \A k \in DOMAIN s : s[k].value # v
                    ELSE LastWith(s, v, LineEntry(list, u[i].parts))
  BY Zenon DEF Decided
<1>10. i \in 1 .. n + 1
  BY <1>1, <1>2 DEF LinesAbout
<1>11. CASE n + 1 \in LinesAbout(u, list, v)
  <2>1. i = n + 1
    BY <1>10, <1>11
  <2>2. u[i] = x /\ x.parts # <<>> /\ x.key \in {list, DisableKey[list]} /\ Means(list, x) = v
    BY <1>1, <1>2, <1>11, <2>1 DEF LinesAbout
  <2>3. CASE x.key = list
    <3>1. PICK e \in Entries : e = LineEntry(list, x.parts) /\ s = Append(old, e)
      BY <1>6, <2>2, <2>3
    <3>2. LastWith(s, v, e)
      BY <1>4, <3>1, LastAppended
    <3> QED
      BY <2>2, <2>3, <3>1, <3>2
  <2>4. CASE x.key = DisableKey[list]
    <3>1. s = Removed(old, {v})
      BY <1>7, <2>2, <2>4, MeansIs
    <3>2. \A k \in DOMAIN s : s[k].value \notin {v}
      BY <1>4, <3>1, RemovedType
    <3> QED
      BY <1>9, <2>2, <2>4, <3>2
  <2> QED
    BY <2>2, <2>3, <2>4
<1>12. CASE n + 1 \notin LinesAbout(u, list, v)
  <2>1. i \in 1 .. n /\ u[i] = t[i]
    BY <1>1, <1>2, <1>10, <1>12
  <2>2. \A k \in 1 .. n : k \in LinesAbout(u, list, v) <=> k \in LinesAbout(t, list, v)
    BY <1>1, <1>2 DEF LinesAbout
  <2>3. LinesAbout(t, list, v) \subseteq 1 .. n
    BY <1>1, <1>2 DEF LinesAbout
  <2>4. i \in LinesAbout(t, list, v) /\ \A k \in LinesAbout(t, list, v) : k <= i
    BY <2>1, <2>2, <2>3
  <2>5. IF t[i].key # list THEN \A k \in DOMAIN old : old[k].value # v
        ELSE LastWith(old, v, LineEntry(list, t[i].parts))
    BY <1>8, <2>4 DEF Decided
  <2>6. t[i].key = list => LineEntry(list, t[i].parts).value = v
    BY <2>4, MeansIs DEF LinesAbout
  <2>7. ~(x.parts # <<>> /\ x.key \in {list, DisableKey[list]} /\ Means(list, x) = v)
    BY <1>1, <1>2, <1>12 DEF LinesAbout
  <2>8. CASE x.parts = <<>> \/ x.key \notin {list, DisableKey[list]}
    BY <1>5, <2>1, <2>5, <2>8
  <2>9. CASE x.parts # <<>> /\ x.key = list
    <3>1. PICK e \in Entries : e = LineEntry(list, x.parts) /\ s = Append(old, e)
      BY <1>6, <2>9
    <3>2. e.value # v
      BY <2>7, <2>9, <3>1, MeansIs
    <3>3. CASE t[i].key # list
      <4>1. PICK m \in Nat : /\ DOMAIN old = 1 .. m /\ DOMAIN s = 1 .. m + 1
                             /\ s[m + 1] = e /\ \A k \in 1 .. m : s[k] = old[k]
        <5>1. /\ Len(old) \in Nat /\ DOMAIN old = 1 .. Len(old)
              /\ DOMAIN Append(old, e) = 1 .. Len(old) + 1 /\ Append(old, e)[Len(old) + 1] = e
              /\ \A k \in 1 .. Len(old) : Append(old, e)[k] = old[k]
          BY <1>4, AppendIs
        <5> QED
          BY <3>1, <5>1
      <4>2. \A k \in 1 .. m : old[k].value # v
        BY <2>5, <3>3, <4>1
      <4>3. \A k \in 1 .. m + 1 : k = m + 1 \/ k \in 1 .. m
        BY <4>1
      <4> QED
        BY <2>1, <3>2, <3>3, <4>1, <4>2, <4>3
    <3>4. CASE t[i].key = list
      <4>1. LastWith(old, v, LineEntry(list, t[i].parts))
        BY <2>5, <3>4
      <4>2. LastWith(s, v, LineEntry(list, t[i].parts))
        BY <1>4, <3>1, <3>2, <4>1, LastAppended
      <4> QED
        BY <2>1, <3>4, <4>2
    <3> QED
      BY <3>3, <3>4
  <2>10. CASE x.parts # <<>> /\ x.key = DisableKey[list]
    <3>1. PICK w : w = Sought(list, x.parts)
      OBVIOUS
    <3>2. s = Removed(old, {w}) /\ w # v
      BY <1>7, <2>7, <2>10, <3>1, MeansIs
    <3>3. CASE t[i].key # list
      <4>1. \A k \in DOMAIN old : old[k].value # v
        BY <2>5, <3>3
      <4>2. \A k \in DOMAIN Removed(old, {w}) : Removed(old, {w})[k].value # v
        BY <1>4, <4>1, RemovedAddsNone
      <4> QED
        BY <2>1, <3>2, <3>3, <4>2
    <3>4. CASE t[i].key = list
      <4>1. PICK e : e = LineEntry(list, t[i].parts)
        OBVIOUS
      <4>2. e.value = v /\ LastWith(old, v, e) /\ v \notin {w}
        BY <2>5, <2>6, <3>2, <3>4, <4>1
      <4>3. LastWith(s, v, e)
        BY <1>4, <3>2, <4>2, LastRemoved
      <4> QED
        BY <2>1, <3>4, <4>1, <4>3
    <3> QED
      BY <3>3, <3>4
  <2> QED
    BY <2>8, <2>9, <2>10
<1> QED
  BY <1>11, <1>12

\* One more line decides about the rule id it overrides and leaves the others.
LEMMA OverrideStep ==
    ASSUME NEW t \in Seq(ConfigLine), NEW x \in ConfigLine, NEW id,
           NEW st, NEW new, LineEffect(x, st, new), new.valid,
           OverrideDecided(t, st.rules.override, id)
    PROVE  OverrideDecided(Append(t, x), new.rules.override, id)
<1> DEFINE old == st.rules.override
           o == new.rules.override
<1>1. PICK u : \E n \in Nat : /\ u = Append(t, x) /\ n = Len(t)
                              /\ DOMAIN t = 1 .. n /\ DOMAIN u = 1 .. n + 1 /\ u[n + 1] = x
                              /\ \A i \in 1 .. n : u[i] = t[i]
  <2> HIDE DEF old, o
  <2>1. /\ Len(t) \in Nat /\ DOMAIN t = 1 .. Len(t) /\ DOMAIN Append(t, x) = 1 .. Len(t) + 1
        /\ Append(t, x)[Len(t) + 1] = x /\ \A i \in 1 .. Len(t) : Append(t, x)[i] = t[i]
    BY AppendIs
  <2> QED
    BY <2>1
<1>2. PICK n \in Nat : /\ n = Len(t)
                       /\ DOMAIN t = 1 .. n /\ DOMAIN u = 1 .. n + 1 /\ u[n + 1] = x
                       /\ \A i \in 1 .. n : u[i] = t[i]
  BY <1>1
<1>3. OverridesEffect(x, st, new)
  BY DEF LineEffect
<1>4. x.parts = <<>> \/ x.key # "rule_severity" => o = old
  BY <1>3 DEF OverridesEffect
<1>5. x.parts # <<>> /\ x.key = "rule_severity" => o = Overridden(old, x.parts)
  BY <1>3 DEF OverridesEffect
<1>6. OverrideDecided(t, old, id)
  OBVIOUS
<1> HIDE DEF old, o
<1> SUFFICES ASSUME NEW i \in LinesOverriding(u, id), \A k \in LinesOverriding(u, id) : k <= i
             PROVE  id \in DOMAIN o /\ o[id] = SeverityOf[u[i].parts[2]]
  BY <1>1 DEF OverrideDecided, o
<1>7. i \in 1 .. n + 1
  BY <1>2 DEF LinesOverriding
<1>8. CASE n + 1 \in LinesOverriding(u, id)
  <2>1. i = n + 1
    BY <1>7, <1>8
  <2>2. u[i] = x /\ x.parts # <<>> /\ x.key = "rule_severity" /\ x.parts[1] = id
    BY <1>2, <1>8, <2>1 DEF LinesOverriding
  <2> QED
    BY <1>5, <2>2 DEF Overridden
<1>9. CASE n + 1 \notin LinesOverriding(u, id)
  <2>1. i \in 1 .. n /\ u[i] = t[i]
    BY <1>2, <1>7, <1>9
  <2>2. \A k \in 1 .. n : k \in LinesOverriding(u, id) <=> k \in LinesOverriding(t, id)
    BY <1>2 DEF LinesOverriding
  <2>3. LinesOverriding(t, id) \subseteq 1 .. n
    BY <1>2 DEF LinesOverriding
  <2>4. i \in LinesOverriding(t, id) /\ \A k \in LinesOverriding(t, id) : k <= i
    BY <2>1, <2>2, <2>3
  <2>5. id \in DOMAIN old /\ old[id] = SeverityOf[t[i].parts[2]]
    BY <1>6, <2>4 DEF OverrideDecided
  <2>6. ~(x.parts # <<>> /\ x.key = "rule_severity" /\ x.parts[1] = id)
    BY <1>2, <1>9 DEF LinesOverriding
  <2>7. CASE x.parts # <<>> /\ x.key = "rule_severity"
    BY <1>5, <2>1, <2>5, <2>6, <2>7 DEF Overridden
  <2>8. CASE x.parts = <<>> \/ x.key # "rule_severity"
    BY <1>4, <2>1, <2>5, <2>8
  <2> QED
    BY <2>7, <2>8
<1> QED
  BY <1>8, <1>9

\* What the lines of a text are decided to.
TextDecided(t, st) ==
    /\ \A list \in Lists : \A v : Decided(t, st.rules.list[list], list, v)
    /\ \A id : OverrideDecided(t, st.rules.override, id)

\* The text decides.
LEMMA TextDecides ==
    ASSUME NEW st, LoaderType(st)
    PROVE  \A t \in Seq(ConfigLine) :
              /\ LoaderType(AfterLines(st, t)) /\ (AfterLines(st, t).valid => st.valid)
              /\ AfterLines(st, t).valid => TextDecided(t, AfterLines(st, t))
<1> DEFINE G == {t \in Seq(ConfigLine) :
              /\ LoaderType(AfterLines(st, t)) /\ (AfterLines(st, t).valid => st.valid)
              /\ AfterLines(st, t).valid => TextDecided(t, AfterLines(st, t))}
<1>1. <<>> \in G
  <2>1. <<>> \in Seq(ConfigLine) /\ DOMAIN <<>> = {}
    OBVIOUS
  <2>2. PICK e \in Seq(ConfigLine) : e = <<>> /\ DOMAIN e = {}
    <3> HIDE DEF G
    <3> QED
      BY <2>1
  <2>3. AfterLines(st, e) = st
    BY <2>2, NoLines
  <2>4. TextDecided(e, st)
    BY <2>2 DEF TextDecided, Decided, OverrideDecided, LinesAbout, LinesOverriding
  <2>5. LoaderType(AfterLines(st, e)) /\ (AfterLines(st, e).valid => st.valid)
    BY <2>3
  <2>6. e \in G
    BY <2>3, <2>4, <2>5
  <2> QED
    BY <2>2, <2>6
<1>2. ASSUME NEW t \in Seq(ConfigLine), NEW x \in ConfigLine, t \in G PROVE Append(t, x) \in G
  <2>1. PICK mid, new : mid = AfterLines(st, t) /\ new = AfterLine(x, mid)
    OBVIOUS
  <2>2. LoaderType(mid) /\ (mid.valid => st.valid) /\ (mid.valid => TextDecided(t, mid))
    BY <1>2, <2>1
  <2>3. AfterLines(st, Append(t, x)) = new
    BY <2>1, LastLine
  <2>4. LineEffect(x, mid, new)
    BY <2>1, <2>2, LineDoes
  <2>5. LoaderType(new) /\ (new.valid => mid.valid)
    BY <2>4 DEF LineEffect
  <2>6. ASSUME new.valid PROVE TextDecided(Append(t, x), new)
    <3>1. mid.valid
      BY <2>5, <2>6
    <3>2. TextDecided(t, mid)
      BY <2>2, <3>1
    <3>3. ASSUME NEW list \in Lists, NEW v PROVE Decided(Append(t, x), new.rules.list[list], list, v)
      <4>1. Decided(t, mid.rules.list[list], list, v)
        BY <3>2 DEF TextDecided
      <4>2. LoaderType(mid)
        BY <2>2
      <4> QED
        BY <2>4, <2>6, <4>1, <4>2, DecidedStep
    <3>4. ASSUME NEW id PROVE OverrideDecided(Append(t, x), new.rules.override, id)
      <4>1. OverrideDecided(t, mid.rules.override, id)
        BY <3>2 DEF TextDecided
      <4> QED
        BY <2>4, <2>6, <4>1, OverrideStep
    <3> QED
      BY <3>3, <3>4 DEF TextDecided
  <2>7. Append(t, x) \in Seq(ConfigLine)
    BY AppendIs
  <2>8. (new.valid => st.valid) /\ LoaderType(new)
    BY <2>2, <2>5
  <2> QED
    BY <2>3, <2>6, <2>7, <2>8
<1>3. Seq(ConfigLine) \subseteq G
  <2> HIDE DEF G
  <2> QED
    BY <1>1, <1>2, SeqInduct
<1> QED
  BY <1>3

\* A value no line is about is as the lines found it.
LEMMA TextLeaves ==
    ASSUME NEW st, LoaderType(st), NEW list \in Lists, NEW V
    PROVE  \A t \in Seq(ConfigLine) :
              /\ AfterLines(st, t).valid
              /\ \A i \in DOMAIN t : t[i].parts # <<>> /\ t[i].key \in {list, DisableKey[list]} =>
                                        Means(list, t[i]) \in V
              => Removed(AfterLines(st, t).rules.list[list], V) = Removed(st.rules.list[list], V)
<1> DEFINE Named(t) == \A i \in DOMAIN t : t[i].parts # <<>> /\ t[i].key \in {list, DisableKey[list]} =>
                                              Means(list, t[i]) \in V
           Left(s) == Removed(s.rules.list[list], V) = Removed(st.rules.list[list], V)
           G == {t \in Seq(ConfigLine) : AfterLines(st, t).valid /\ Named(t) => Left(AfterLines(st, t))}
<1>1. <<>> \in G
  <2>1. AfterLines(st, <<>>) = st
    BY NoLines
  <2>2. Left(st)
    OBVIOUS
  <2>3. <<>> \in Seq(ConfigLine)
    OBVIOUS
  <2> HIDE DEF Left, Named
  <2> QED
    BY <2>1, <2>2, <2>3
<1>2. ASSUME NEW t \in Seq(ConfigLine), NEW x \in ConfigLine, t \in G PROVE Append(t, x) \in G
  <2>1. PICK mid, new : mid = AfterLines(st, t) /\ new = AfterLine(x, mid)
    OBVIOUS
  <2>2. LoaderType(mid)
    BY <2>1, TextDecides
  <2>3. AfterLines(st, Append(t, x)) = new
    BY <2>1, LastLine
  <2>4. LineEffect(x, mid, new)
    BY <2>1, <2>2, LineDoes
  <2>5. Append(t, x) \in Seq(ConfigLine)
    BY AppendIs
  <2>6. ASSUME new.valid, Named(Append(t, x)) PROVE Left(new)
    <3>1. PICK n \in Nat : /\ DOMAIN t = 1 .. n /\ DOMAIN Append(t, x) = 1 .. n + 1
                           /\ Append(t, x)[n + 1] = x /\ \A i \in 1 .. n : Append(t, x)[i] = t[i]
      <4> HIDE DEF Left, Named, G
      <4>1. /\ Len(t) \in Nat /\ DOMAIN t = 1 .. Len(t) /\ DOMAIN Append(t, x) = 1 .. Len(t) + 1
            /\ Append(t, x)[Len(t) + 1] = x /\ \A i \in 1 .. Len(t) : Append(t, x)[i] = t[i]
        BY AppendIs
      <4> QED
        BY <4>1
    <3>2. Named(t)
      BY <2>6, <3>1
    <3>3. x.parts # <<>> /\ x.key \in {list, DisableKey[list]} => Means(list, x) \in V
      <4>1. n + 1 \in DOMAIN Append(t, x)
        BY <3>1
      <4> QED
        BY <2>6, <3>1, <4>1
    <3>4. mid.valid
      BY <2>4, <2>6 DEF LineEffect
    <3>5. Left(mid)
      <4> HIDE DEF Left, Named
      <4> QED
        BY <1>2, <2>1, <3>2, <3>4
    <3>6. ListEffect(x, mid, new, list)
      BY <2>4 DEF LineEffect
    <3>7. PICK old \in Seq(Entries) : old = mid.rules.list[list]
      BY <2>2 DEF LoaderType, RulesType
    <3>8. PICK s : s = new.rules.list[list]
      OBVIOUS
    <3>9. Removed(s, V) = Removed(old, V)
      <4>1. CASE x.parts = <<>> \/ x.key \notin {list, DisableKey[list]}
        BY <3>6, <3>7, <3>8, <4>1 DEF ListEffect
      <4>2. CASE x.parts # <<>> /\ x.key = list
        <5>1. LineEntry(list, x.parts) \in Entries /\ s = Append(old, LineEntry(list, x.parts))
          BY <2>6, <3>6, <3>7, <3>8, <4>2 DEF ListEffect
        <5>2. PICK e \in Entries : e = LineEntry(list, x.parts)
          BY <5>1
        <5>3. e.value \in V
          BY <3>3, <4>2, <5>2, MeansIs
        <5>4. Removed(Append(old, e), V) = Removed(old, V)
          BY <5>3, RemovedDrops
        <5> QED
          BY <5>1, <5>2, <5>4
      <4>3. CASE x.parts # <<>> /\ x.key = DisableKey[list]
        <5>1. PICK w : w = Sought(list, x.parts)
          OBVIOUS
        <5>2. w \in V
          BY <3>3, <4>3, <5>1, MeansIs
        <5>3. s = Removed(old, {w})
          BY <2>6, <3>6, <3>7, <3>8, <4>3, <5>1 DEF ListEffect
        <5>4. Removed(Removed(old, {w}), V) = Removed(old, V)
          BY <5>2, RemovedOnce
        <5> QED
          BY <5>3, <5>4
      <4> QED
        BY <4>1, <4>2, <4>3
    <3> QED
      BY <3>5, <3>7, <3>8, <3>9
  <2> HIDE DEF Left, Named
  <2> QED
    BY <2>3, <2>5, <2>6
<1>3. Seq(ConfigLine) \subseteq G
  <2> HIDE DEF G
  <2> QED
    BY <1>1, <1>2, SeqInduct
<1> QED
  BY <1>3

\* A sound text selects a profile.
LEMMA SelectedType ==
    ASSUME NEW t \in Seq(ConfigLine), ProfilesSound(t)
    PROVE  SelectedProfile(t) \in Profiles
<1> DEFINE named == {i \in DOMAIN t : IsProfileLine(t[i])}
<1>1. CASE named = {}
  BY <1>1 DEF SelectedProfile, Profiles
<1>2. CASE named # {}
  <2>1. Len(t) \in Nat /\ named \in SUBSET (1 .. Len(t))
    BY LenProperties
  <2>2. PICK m : m = Max(named)
    OBVIOUS
  <2>3. m \in named
    <3> HIDE DEF named
    <3> QED
      BY <1>2, <2>1, <2>2, LastPosition
  <2>4. PICK p \in Profiles : t[m].parts = <<p>>
    BY <2>3 DEF ProfilesSound
  <2>5. t[m].parts[1] = p
    BY <2>4
  <2> QED
    BY <1>2, <2>2, <2>5 DEF SelectedProfile
<1> QED
  BY <1>1, <1>2

\* The compiled rules are typed.
LEMMA DefaultsTyped ==
    ASSUME NEW v \in BOOLEAN, NEW new, new = [rules |-> init_default_rules, valid |-> v]
    PROVE  LoaderType(new)
<1>1. PICK l : l = init_default_rules.list
  OBVIOUS
<1>2. l \in [Lists -> Seq(Entries)] /\ \A list \in Lists : Len(l[list]) <= MAX_RULES
  BY <1>1, DefaultLists
<1>3. PICK a, b, c, d, e, W :
        a = "baseline" /\ b = {} /\ c = <<>> /\ d = 5 /\ e = 300 /\ W = WARN
  OBVIOUS
<1>4. a \in Profiles /\ W \in Severities /\ DOMAIN c = {}
  BY <1>3, SeveritiesAre DEF Profiles
<1>5. init_default_rules = RulesFrom(a, b, c, l, d, e, W, W)
  BY <1>1, <1>3, DefaultsLoaded
<1>6. new = Loader(a, b, c, l, d, e, W, W, v)
  BY <1>5 DEF Loader, RulesFrom
<1>7. LoaderType(Loader(a, b, c, l, d, e, W, W, v))
  BY <1>2, <1>4, LoaderTyped
<1> QED
  BY <1>6, <1>7

\* What the second pass starts from.
StartOf(p) == [rules |-> apply_profile(init_default_rules, SelectedProfile(p)), valid |-> TRUE]

\* A configuration that is loaded is typed, and an accepted one is what its lines make of
\* its profile.
LEMMA LoadedIs ==
    ASSUME NEW p \in Seq(ConfigLine), NEW t \in Seq(ConfigLine), NEW new, new = LoadFrom(p, t)
    PROVE  /\ LoaderType(new)
           /\ ProfilesSound(p) => LoaderType(StartOf(p)) /\ new.rules = AfterLines(StartOf(p), t).rules
           /\ new.valid => ProfilesSound(p) /\ AfterLines(StartOf(p), t).valid
<1>1. CASE ~ProfilesSound(p)
  <2>1. PICK v \in BOOLEAN : v = FALSE
    OBVIOUS
  <2>2. new = [rules |-> init_default_rules, valid |-> v]
    BY <1>1, <2>1 DEF LoadFrom
  <2>3. LoaderType(new) /\ new.valid = v
    BY <2>2, DefaultsTyped
  <2> QED
    BY <1>1, <2>1, <2>3
<1>2. CASE ProfilesSound(p)
  <2>1. SelectedProfile(p) \in Profiles
    BY <1>2, SelectedType
  <2>2. LoaderType(StartOf(p))
    BY <2>1, ProfileStart DEF StartOf
  <2>3. PICK st : st = AfterLines(StartOf(p), t)
    OBVIOUS
  <2>4. LoaderType(st)
    BY <2>2, <2>3, TextDecides
  <2>5. PICK r, v : st = [rules |-> r, valid |-> v]
    BY <2>4 DEF LoaderType
  <2>6. st.rules = r /\ st.valid = v /\ RulesType(r) /\ v \in BOOLEAN
    BY <2>4, <2>5 DEF LoaderType
  <2>7. new = [st EXCEPT !.valid = st.valid /\ ControlsKnown(st.rules)]
    BY <1>2, <2>3 DEF LoadFrom, StartOf
  <2>8. PICK w \in BOOLEAN : w = (v /\ ControlsKnown(r))
    OBVIOUS
  <2>9. new = [st EXCEPT !.valid = w]
    BY <2>6, <2>7, <2>8
  <2>10. new = [rules |-> r, valid |-> w]
    BY <2>5, <2>9
  <2>11. new.rules = r /\ new.valid = w
    BY <2>10
  <2>12. LoaderType(new)
    BY <2>6, <2>10, <2>11 DEF LoaderType
  <2>13. w => v
    BY <2>8
  <2> QED
    BY <1>2, <2>2, <2>3, <2>6, <2>11, <2>12, <2>13
<1> QED
  BY <1>1, <1>2

\* In an accepted configuration the text decides.
LEMMA LoadDecides ==
    ASSUME NEW p \in Seq(ConfigLine), NEW t \in Seq(ConfigLine), NEW new, new = LoadFrom(p, t), new.valid
    PROVE  TextDecided(t, new)
<1>1. PICK st : st = AfterLines(StartOf(p), t)
  OBVIOUS
<1>2. LoaderType(StartOf(p)) /\ new.rules = st.rules /\ st.valid
  BY <1>1, LoadedIs
<1>3. TextDecided(t, st)
  BY <1>1, <1>2, TextDecides
<1> QED
  BY <1>2, <1>3 DEF TextDecided

\* The lines of a text about a list are about values in V only.
NamesOnly(t, list, V) ==
    \A i \in DOMAIN t : t[i].parts # <<>> /\ t[i].key \in {list, DisableKey[list]} =>
                           Means(list, t[i]) \in V

\* And it leaves the values it is not about.
LEMMA LoadLeaves ==
    ASSUME NEW p \in Seq(ConfigLine), NEW t \in Seq(ConfigLine), NEW new, new = LoadFrom(p, t), new.valid,
           NEW list \in Lists, NEW V, NamesOnly(t, list, V)
    PROVE  Removed(new.rules.list[list], V) =
              Removed(apply_profile(init_default_rules, SelectedProfile(p)).list[list], V)
<1>1. PICK st : st = AfterLines(StartOf(p), t)
  OBVIOUS
<1>2. LoaderType(StartOf(p)) /\ new.rules = st.rules /\ st.valid
  BY <1>1, LoadedIs
<1>3. Removed(AfterLines(StartOf(p), t).rules.list[list], V) = Removed(StartOf(p).rules.list[list], V)
  BY <1>1, <1>2, TextLeaves DEF NamesOnly
<1>4. StartOf(p).rules = apply_profile(init_default_rules, SelectedProfile(p))
  BY DEF StartOf
<1> QED
  BY <1>1, <1>2, <1>3, <1>4

\* Rules of their type are a policy the evaluation can work with.
LEMMA TypedIsPolicy ==
    ASSUME NEW r, RulesType(r)
    PROVE  IsPolicy(Policy(r))
<1> DEFINE p == Policy(r)
<1>1. /\ r.profile \in Profiles /\ r.min_severity \in Severities
      /\ r.anon_exec_mmap_severity \in Severities
      /\ \A id \in DOMAIN r.override : r.override[id] \in Severities
      /\ r.list \in [Lists -> Seq(Entries)]
  BY DEF RulesType
<1>2. ASSUME NEW list \in Lists PROVE IsRuleList(Rules(r, list))
  <2>1. PICK s \in Seq(Entries) : s = r.list[list] /\ Len(s) \in Nat /\ DOMAIN s = 1 .. Len(s)
    <3>1. r.list[list] \in Seq(Entries)
      BY <1>1
    <3> QED
      BY <3>1, LenProperties
  <2>2. PICK q : q = [i \in 1 .. Len(s) |->
                        [hits |-> Hits(list, s[i].value), id |-> s[i].id, severity |-> s[i].severity]]
    OBVIOUS
  <2>3. Rules(r, list) = q
    BY <2>1, <2>2 DEF Rules
  <2>4. DOMAIN q = 1 .. Len(s) /\ Len(q) = Len(s)
    BY <2>1, <2>2
  <2>5. ASSUME NEW i \in 1 .. Len(s) PROVE q[i].severity \in Severities /\ q[i].id # NothingMatches.rule
    <3>1. s[i] \in Entries
      BY <2>1
    <3>2. s[i].severity \in Severities /\ s[i].id \in RuleIds
      BY <3>1 DEF Entries
    <3> QED
      BY <2>2, <3>2 DEF RuleIds
  <2> QED
    BY <2>1, <2>3, <2>4, <2>5 DEF IsRuleList
<1> QED
  BY <1>1, <1>2, ListsAre DEF Policy, IsPolicy, ListNames

-------------------------------------------------------------------------------
(* The same lines under two profiles.                                        *)

\* The idle threshold has a key of its own.
LEMMA IdleKeyDiffers ==
    \A list \in Lists : /\ list # "user_idle_threshold_seconds"
                        /\ DisableKey[list] # "user_idle_threshold_seconds"
<1>1. /\ DisableKey["suspicious_exec_exact"] = "disable_suspicious_exec_exact"
      /\ DisableKey["suspicious_exec_prefix"] = "disable_suspicious_exec_prefix"
      /\ DisableKey["sensitive_read"] = "disable_sensitive_read"
      /\ DisableKey["sensitive_write"] = "disable_sensitive_write"
      /\ DisableKey["suspicious_port"] = "disable_suspicious_port"
      /\ DisableKey["jit_allow_comm"] = "disable_jit_allow_comm"
      /\ DisableKey["flow_allow_transfer"] = "disable_flow_allow_transfer"
  BY DEF DisableKey
<1> QED
  BY <1>1, ListsAre DEF ListNames

\* What a line leaves of the profile and of the settings a profile and a flow look at.
SameControls(st, new) ==
    /\ new.rules.profile = st.rules.profile
    /\ new.rules.anon_exec_mmap_severity = st.rules.anon_exec_mmap_severity
    /\ new.rules.disabled = st.rules.disabled
    /\ new.rules.user_idle_threshold = st.rules.user_idle_threshold
DisabledBy(line, disabled) ==
    IF line.parts # <<>> /\ line.key = "disable_rule_id"
    THEN disabled \cup {line.parts[1]} ELSE disabled
IdleBy(line, idle) ==
    IF line.parts # <<>> /\ line.key = "user_idle_threshold_seconds"
    THEN Seconds[line.parts[1]] ELSE idle
ControlsAfter(line, st, new) ==
    /\ new.rules.profile = st.rules.profile
    /\ new.rules.anon_exec_mmap_severity = st.rules.anon_exec_mmap_severity
    /\ new.valid => /\ new.rules.disabled = DisabledBy(line, st.rules.disabled)
                    /\ new.rules.user_idle_threshold = IdleBy(line, st.rules.user_idle_threshold)

\* The parts of a loader state that they are.
LEMMA LoaderControls ==
    ASSUME NEW a, NEW b, NEW c, NEW l, NEW d, NEW e, NEW f, NEW g, NEW v
    PROVE  LET st == Loader(a, b, c, l, d, e, f, g, v) IN
           /\ st.rules.profile = a /\ st.rules.anon_exec_mmap_severity = g
           /\ st.rules.disabled = b /\ st.rules.user_idle_threshold = e
BY DEF Loader

\* Another list for one changes none of them.
LEMMA RelistedControls ==
    ASSUME NEW st, LoaderType(st), NEW list \in Lists, NEW s, NEW new, new = Relisted(st, list, s)
    PROVE  SameControls(st, new)
<1>1. PICK a, b, c, l, d, e, f, g, v :
          st = Loader(a, b, c, l, d, e, f, g, v) /\ l \in [Lists -> Seq(Entries)]
  BY LoaderParts
<1>2. PICK m : m = [l EXCEPT ![list] = s]
  OBVIOUS
<1>3. new = Loader(a, b, c, m, d, e, f, g, v)
  <2>1. st = Loader(a, b, c, l, d, e, f, g, v)
    BY <1>1
  <2> QED
    BY <1>2, <2>1 DEF Loader, Relisted
<1>4. st = Loader(a, b, c, l, d, e, f, g, v)
  BY <1>1
<1> QED
  BY <1>3, <1>4, LoaderControls DEF SameControls

\* A line of any other key but theirs leaves them.
LEMMA OthersKeep ==
    ASSUME NEW line, NEW st, NEW new, SameControls(st, new),
           line.parts = <<>> \/ line.key \notin {"disable_rule_id", "user_idle_threshold_seconds"}
    PROVE  ControlsAfter(line, st, new)
BY DEF SameControls, ControlsAfter, DisabledBy, IdleBy

\* So does a line that spoils the configuration.
LEMMA SpoiledKeeps ==
    ASSUME NEW line, NEW st, LoaderType(st), NEW new, new = Invalid(st)
    PROVE  ControlsAfter(line, st, new)
BY SpoilsOnly DEF ControlsAfter

\* A line that disables a rule id, overrides a severity or sets a number.
LEMMA DisableIdControls ==
    ASSUME NEW line, line.parts # <<>>, line.key = "disable_rule_id", NEW st, LoaderType(st),
           NEW new, new = AfterDisableId(st, line.parts)
    PROVE  ControlsAfter(line, st, new)
<1>1. CASE new = Invalid(st)
  BY <1>1, SpoiledKeeps
<1>2. CASE new # Invalid(st)
  <2>1. PICK a, b, c, l, d, e, f, g, v : st = Loader(a, b, c, l, d, e, f, g, v)
    BY LoaderParts
  <2>2. PICK h : h = b \cup {line.parts[1]}
    OBVIOUS
  <2>3. new = [st EXCEPT !.rules.disabled = st.rules.disabled \cup {line.parts[1]}]
    BY <1>2 DEF AfterDisableId
  <2>4. st.rules.disabled = b
    BY <2>1, LoaderControls
  <2>5. new = [st EXCEPT !.rules.disabled = h]
    BY <2>2, <2>3, <2>4
  <2>6. new = Loader(a, h, c, l, d, e, f, g, v)
    BY <2>1, <2>5 DEF Loader
  <2>7. /\ new.rules.profile = a /\ new.rules.anon_exec_mmap_severity = g
        /\ new.rules.disabled = h /\ new.rules.user_idle_threshold = e
    BY <2>6, LoaderControls
  <2>8. /\ st.rules.profile = a /\ st.rules.anon_exec_mmap_severity = g
        /\ st.rules.user_idle_threshold = e
    BY <2>1, LoaderControls
  <2> QED
    BY <2>2, <2>4, <2>7, <2>8 DEF ControlsAfter, DisabledBy, IdleBy
<1> QED
  BY <1>1, <1>2

\* An override.
LEMMA OverrideControls ==
    ASSUME NEW parts, NEW st, LoaderType(st), NEW new, new = AfterOverride(st, parts), new # Invalid(st)
    PROVE  SameControls(st, new)
<1>1. PICK a, b, c, l, d, e, f, g, v : st = Loader(a, b, c, l, d, e, f, g, v)
  BY LoaderParts
<1>2. PICK h : h = Overridden(st.rules.override, parts)
  OBVIOUS
<1>3. new = [st EXCEPT !.rules.override = Overridden(st.rules.override, parts)]
  BY DEF AfterOverride, Overridden
<1>4. new = [st EXCEPT !.rules.override = h]
  BY <1>2, <1>3
<1>5. new = Loader(a, b, h, l, d, e, f, g, v)
  BY <1>1, <1>4 DEF Loader
<1> QED
  BY <1>1, <1>5, LoaderControls DEF SameControls

\* A setting.
LEMMA SettingControls ==
    ASSUME NEW line, line.parts # <<>>, line.key # "disable_rule_id", NEW st, LoaderType(st),
           NEW new, new = AfterSetting(st, line.key, line.parts)
    PROVE  ControlsAfter(line, st, new)
<1>1. CASE new = Invalid(st)
  BY <1>1, SpoiledKeeps
<1>2. CASE new # Invalid(st)
  <2>1. PICK a, b, c, l, d, e, f, g, v : st = Loader(a, b, c, l, d, e, f, g, v)
    BY LoaderParts
  <2>2. PICK key, parts : key = line.key /\ parts = line.parts
    OBVIOUS
  <2>3. new = AfterSetting(st, key, parts)
    BY <2>2
  <2>4. /\ st.rules.profile = a /\ st.rules.anon_exec_mmap_severity = g
        /\ st.rules.disabled = b /\ st.rules.user_idle_threshold = e
    BY <2>1, LoaderControls
  <2>5. ASSUME NEW h, NEW i, NEW k, new = Loader(a, b, c, l, h, i, k, g, v),
               i = IdleBy(line, e)
        PROVE  ControlsAfter(line, st, new)
    <3>1. /\ new.rules.profile = a /\ new.rules.anon_exec_mmap_severity = g
          /\ new.rules.disabled = b /\ new.rules.user_idle_threshold = i
      BY <2>5, LoaderControls
    <3> QED
      BY <2>4, <2>5, <3>1 DEF ControlsAfter, DisabledBy
  <2>6. CASE key = "min_severity" /\ Len(parts) = 1 /\ parts[1] \in DOMAIN SeverityOf
    <3>1. new = [st EXCEPT !.rules.min_severity = SeverityOf[parts[1]]]
      BY <2>3, <2>6 DEF AfterSetting
    <3>2. PICK k : k = SeverityOf[parts[1]]
      OBVIOUS
    <3>3. new = [st EXCEPT !.rules.min_severity = k]
      BY <3>1, <3>2
    <3>4. new = Loader(a, b, c, l, d, e, k, g, v)
      BY <2>1, <3>3 DEF Loader
    <3>5. e = IdleBy(line, e)
      BY <2>2, <2>6 DEF IdleBy
    <3> QED
      BY <2>5, <3>4, <3>5
  <2>7. CASE key = "dedup_window_seconds" /\ Len(parts) = 1 /\ parts[1] \in DOMAIN Seconds
    <3>1. new = [st EXCEPT !.rules.dedup_window = Seconds[parts[1]]]
      BY <2>3, <2>7 DEF AfterSetting
    <3>2. PICK k : k = Seconds[parts[1]]
      OBVIOUS
    <3>3. new = [st EXCEPT !.rules.dedup_window = k]
      BY <3>1, <3>2
    <3>4. new = Loader(a, b, c, l, k, e, f, g, v)
      BY <2>1, <3>3 DEF Loader
    <3>5. e = IdleBy(line, e)
      BY <2>2, <2>7 DEF IdleBy
    <3> QED
      BY <2>5, <3>4, <3>5
  <2>8. CASE key = "user_idle_threshold_seconds" /\ Len(parts) = 1 /\ parts[1] \in DOMAIN Seconds
    <3>1. new = [st EXCEPT !.rules.user_idle_threshold = Seconds[parts[1]]]
      BY <2>3, <2>8 DEF AfterSetting
    <3>2. PICK k : k = Seconds[parts[1]]
      OBVIOUS
    <3>3. new = [st EXCEPT !.rules.user_idle_threshold = k]
      BY <3>1, <3>2
    <3>4. new = Loader(a, b, c, l, d, k, f, g, v)
      BY <2>1, <3>3 DEF Loader
    <3>5. k = IdleBy(line, e)
      BY <2>2, <2>8, <3>2 DEF IdleBy
    <3> QED
      BY <2>5, <3>4, <3>5
  <2>9. CASE /\ ~(key = "min_severity" /\ Len(parts) = 1 /\ parts[1] \in DOMAIN SeverityOf)
             /\ ~(key = "dedup_window_seconds" /\ Len(parts) = 1 /\ parts[1] \in DOMAIN Seconds)
             /\ ~(key = "user_idle_threshold_seconds" /\ Len(parts) = 1 /\ parts[1] \in DOMAIN Seconds)
    BY <1>2, <2>3, <2>9 DEF AfterSetting
  <2> QED
    BY <2>6, <2>7, <2>8, <2>9
<1> QED
  BY <1>1, <1>2

\* What any line does to them.
LEMMA LineControls ==
    ASSUME NEW st, LoaderType(st), NEW line, NEW new, new = AfterLine(line, st)
    PROVE  ControlsAfter(line, st, new)
<1>1. CASE IsProfileLine(line)
  <2>1. new = st /\ line.key = "profile"
    BY <1>1, LineIs DEF IsProfileLine
  <2> QED
    BY <2>1, OthersKeep DEF SameControls
<1>2. CASE line.parts = <<>>
  <2>1. new = st \/ new = Invalid(st)
    BY <1>2, LineIs
  <2> QED
    BY <1>2, <2>1, OthersKeep, SpoiledKeeps DEF SameControls
<1>3. ASSUME NEW list \in Lists, line.parts # <<>>, line.key \in {list, DisableKey[list]}
      PROVE  ControlsAfter(line, st, new)
  <2>1. line.key \notin {"disable_rule_id", "user_idle_threshold_seconds"}
    BY <1>3, KeysDiffer, IdleKeyDiffers
  <2>2. CASE new = Invalid(st)
    BY <2>2, SpoiledKeeps
  <2>3. CASE new # Invalid(st)
    <3>1. \E s : new = Relisted(st, list, s)
      <4>1. CASE line.key = list
        <5>1. new = AfterAdd(st, list, Added(list, line.parts))
          BY <1>3, <4>1, LineIs
        <5>2. PICK rule : rule = Added(list, line.parts)
          OBVIOUS
        <5>3. PICK s : s = Append(st.rules.list[list], RuleEntry(list, rule.value, rule.id, rule.severity))
          OBVIOUS
        <5>4. new = Relisted(st, list, s)
          BY <2>3, <5>1, <5>2, <5>3 DEF AfterAdd, Relisted
        <5> QED
          BY <5>4
      <4>2. CASE line.key = DisableKey[list]
        <5>1. new = AfterDisable(st, list, line.parts)
          BY <1>3, <4>2, LineIs
        <5>2. PICK s : s = Removed(st.rules.list[list], {Sought(list, line.parts)})
          OBVIOUS
        <5>3. new = Relisted(st, list, s)
          BY <2>3, <5>1, <5>2 DEF AfterDisable, Relisted
        <5> QED
          BY <5>3
      <4> QED
        BY <1>3, <4>1, <4>2
    <3> QED
      BY <2>1, <3>1, RelistedControls, OthersKeep
  <2> QED
    BY <2>2, <2>3
<1>4. CASE line.parts # <<>> /\ line.key = "disable_rule_id"
  BY <1>4, LineIs, DisableIdControls
<1>5. CASE line.parts # <<>> /\ line.key = "rule_severity"
  <2>1. new = AfterOverride(st, line.parts)
    BY <1>5, LineIs
  <2> QED
    BY <1>5, <2>1, OverrideControls, OthersKeep, SpoiledKeeps
<1>6. CASE line.parts # <<>> /\ line.key # "disable_rule_id"
           /\ new = AfterSetting(st, line.key, line.parts)
  BY <1>6, SettingControls
<1> QED
  <2>1. \/ IsProfileLine(line) \/ line.parts = <<>>
        \/ \E list \in Lists : line.key \in {list, DisableKey[list]}
        \/ line.key \in {"disable_rule_id", "rule_severity"}
        \/ new = AfterSetting(st, line.key, line.parts)
    BY LineIs
  <2> QED
    BY <1>1, <1>2, <1>3, <1>4, <1>5, <1>6, <2>1

\* The values of a list.
ValuesOf(s) == {s[i].value : i \in DOMAIN s}

\* One more entry brings its value.
LEMMA ValuesAppended ==
    ASSUME NEW T, NEW s \in Seq(T), NEW x \in T
    PROVE  ValuesOf(Append(s, x)) = ValuesOf(s) \cup {x.value}
<1>1. PICK u : \E n \in Nat : /\ u = Append(s, x) /\ DOMAIN s = 1 .. n /\ DOMAIN u = 1 .. n + 1
                              /\ u[n + 1] = x /\ \A i \in 1 .. n : u[i] = s[i]
  <2>1. /\ Len(s) \in Nat /\ DOMAIN s = 1 .. Len(s) /\ DOMAIN Append(s, x) = 1 .. Len(s) + 1
        /\ Append(s, x)[Len(s) + 1] = x /\ \A i \in 1 .. Len(s) : Append(s, x)[i] = s[i]
    BY AppendIs
  <2> QED
    BY <2>1
<1>2. PICK n \in Nat : /\ DOMAIN s = 1 .. n /\ DOMAIN u = 1 .. n + 1
                       /\ u[n + 1] = x /\ \A i \in 1 .. n : u[i] = s[i]
  BY <1>1
<1>3. n + 1 \in 1 .. n + 1 /\ \A i \in 1 .. n + 1 : i = n + 1 \/ i \in 1 .. n
  OBVIOUS
<1>4. \A i \in 1 .. n : i \in 1 .. n + 1
  OBVIOUS
<1>5. ASSUME NEW y \in ValuesOf(u) PROVE y \in ValuesOf(s) \cup {x.value}
  BY <1>2, <1>3, <1>5 DEF ValuesOf
<1>6. ASSUME NEW y \in ValuesOf(s) PROVE y \in ValuesOf(u)
  <2>1. PICK i \in 1 .. n : y = s[i].value
    BY <1>2, <1>6 DEF ValuesOf
  <2>2. i \in DOMAIN u /\ u[i].value = y
    BY <1>2, <1>4, <2>1
  <2> QED
    BY <2>2 DEF ValuesOf
<1>7. x.value \in ValuesOf(u)
  BY <1>2, <1>3 DEF ValuesOf
<1> QED
  BY <1>1, <1>5, <1>6, <1>7

\* A removal takes its values and no others.
LEMMA ValuesRemoved ==
    ASSUME NEW T, NEW V
    PROVE  \A s \in Seq(T) : ValuesOf(Removed(s, V)) = ValuesOf(s) \ V
<1> DEFINE G == {s \in Seq(T) : ValuesOf(Removed(s, V)) = ValuesOf(s) \ V}
<1>1. <<>> \in G
  <2>1. Removed(<<>>, V) = <<>> /\ <<>> \in Seq(T) /\ DOMAIN <<>> = {}
    BY RemovedFromNone
  <2>2. ValuesOf(<<>>) = {}
    BY <2>1 DEF ValuesOf
  <2> QED
    BY <2>1, <2>2
<1>2. ASSUME NEW s \in Seq(T), NEW x \in T, s \in G PROVE Append(s, x) \in G
  <2>1. PICK r \in Seq(T) : r = Removed(s, V)
    BY RemovedType
  <2>2. ValuesOf(r) = ValuesOf(s) \ V
    BY <1>2, <2>1
  <2>3. Append(s, x) \in Seq(T) /\ ValuesOf(Append(s, x)) = ValuesOf(s) \cup {x.value}
    BY AppendIs, ValuesAppended
  <2>4. CASE x.value \in V
    <3>1. Removed(Append(s, x), V) = r
      BY <2>1, <2>4, RemovedDrops
    <3> QED
      BY <2>2, <2>3, <2>4, <3>1
  <2>5. CASE x.value \notin V
    <3>1. Removed(Append(s, x), V) = Append(r, x)
      BY <2>1, <2>5, RemovedKeeps
    <3>2. ValuesOf(Append(r, x)) = ValuesOf(r) \cup {x.value}
      BY ValuesAppended
    <3> QED
      BY <2>2, <2>3, <2>5, <3>1, <3>2
  <2> QED
    BY <2>4, <2>5
<1>3. Seq(T) \subseteq G
  <2> HIDE DEF G
  <2> QED
    BY <1>1, <1>2, SeqInduct
<1> QED
  BY <1>3

\* Removals may be made in either order.
LEMMA RemovedEither ==
    ASSUME NEW T, NEW V, NEW X
    PROVE  \A s \in Seq(T) : Removed(Removed(s, V), X) = Removed(Removed(s, X), V)
<1> DEFINE G == {s \in Seq(T) : Removed(Removed(s, V), X) = Removed(Removed(s, X), V)}
<1>1. <<>> \in G
  <2>1. Removed(<<>>, V) = <<>> /\ Removed(<<>>, X) = <<>> /\ <<>> \in Seq(T)
    BY RemovedFromNone
  <2> QED
    BY <2>1
<1>2. ASSUME NEW s \in Seq(T), NEW x \in T, s \in G PROVE Append(s, x) \in G
  <2>1. PICK r \in Seq(T), q \in Seq(T) : r = Removed(s, V) /\ q = Removed(s, X)
    BY RemovedType
  <2>2. Removed(r, X) = Removed(q, V)
    BY <1>2, <2>1
  <2>3. Append(s, x) \in Seq(T)
    BY AppendIs
  <2>4. IF x.value \in V THEN Removed(Append(s, x), V) = r ELSE Removed(Append(s, x), V) = Append(r, x)
    BY <2>1, RemovedDrops, RemovedKeeps
  <2>5. IF x.value \in X THEN Removed(Append(s, x), X) = q ELSE Removed(Append(s, x), X) = Append(q, x)
    BY <2>1, RemovedDrops, RemovedKeeps
  <2>6. IF x.value \in X THEN Removed(Append(r, x), X) = Removed(r, X)
        ELSE Removed(Append(r, x), X) = Append(Removed(r, X), x)
    BY RemovedDrops, RemovedKeeps
  <2>7. IF x.value \in V THEN Removed(Append(q, x), V) = Removed(q, V)
        ELSE Removed(Append(q, x), V) = Append(Removed(q, V), x)
    BY RemovedDrops, RemovedKeeps
  <2>8. Removed(Removed(Append(s, x), V), X) = Removed(Removed(Append(s, x), X), V)
    BY <2>2, <2>4, <2>5, <2>6, <2>7
  <2> QED
    BY <2>3, <2>8
<1>3. Seq(T) \subseteq G
  <2> HIDE DEF G
  <2> QED
    BY <1>1, <1>2, SeqInduct
<1> QED
  BY <1>3

\* The rules a list of entries stands for.
RulesOn(list, s) ==
    [i \in DOMAIN s |->
        [hits |-> Hits(list, s[i].value), id |-> s[i].id, severity |-> s[i].severity]]

\* The scan asks the last entry first.
LEMMA ScanAppended ==
    ASSUME NEW T, NEW s \in Seq(T), NEW e \in T, NEW list, NEW p, NEW x
    PROVE  LastAllowed(p, RulesOn(list, Append(s, e)), x) =
              IF x \in Hits(list, e.value) /\ ~rule_id_disabled(p, e.id)
              THEN Controlled(p, e.severity, e.id, 0)
              ELSE LastAllowed(p, RulesOn(list, s), x)
<1>1. PICK u : \E n \in Nat : /\ u = Append(s, e) /\ DOMAIN s = 1 .. n /\ DOMAIN u = 1 .. n + 1
                              /\ u[n + 1] = e /\ \A i \in 1 .. n : u[i] = s[i]
  <2>1. /\ Len(s) \in Nat /\ DOMAIN s = 1 .. Len(s) /\ DOMAIN Append(s, e) = 1 .. Len(s) + 1
        /\ Append(s, e)[Len(s) + 1] = e /\ \A i \in 1 .. Len(s) : Append(s, e)[i] = s[i]
    BY AppendIs
  <2> QED
    BY <2>1
<1>2. PICK n \in Nat : /\ DOMAIN s = 1 .. n /\ DOMAIN u = 1 .. n + 1
                       /\ u[n + 1] = e /\ \A i \in 1 .. n : u[i] = s[i]
  BY <1>1
<1>3. PICK a, b : a = RulesOn(list, s) /\ b = RulesOn(list, u)
  OBVIOUS
<1>4. /\ DOMAIN a = 1 .. n
      /\ \A i \in 1 .. n : /\ a[i].hits = Hits(list, s[i].value) /\ a[i].id = s[i].id
                           /\ a[i].severity = s[i].severity
  BY <1>2, <1>3 DEF RulesOn
<1>5. /\ DOMAIN b = 1 .. n + 1
      /\ \A i \in 1 .. n + 1 : /\ b[i].hits = Hits(list, u[i].value) /\ b[i].id = u[i].id
                               /\ b[i].severity = u[i].severity
  BY <1>2, <1>3 DEF RulesOn
<1>6. PICK A, B : A = Hitting(p, a, x) /\ B = Hitting(p, b, x)
  OBVIOUS
<1>7. A \in SUBSET (1 .. n) /\ B \in SUBSET (1 .. n + 1)
  BY <1>4, <1>5, <1>6 DEF Hitting
<1>8. n + 1 \in 1 .. n + 1 /\ \A i \in 1 .. n : i \in 1 .. n + 1 /\ i < n + 1
  OBVIOUS
<1>9. \A i \in 1 .. n : i \in B <=> i \in A
  BY <1>2, <1>4, <1>5, <1>6, <1>8 DEF Hitting
<1>10. n + 1 \in B <=> x \in Hits(list, e.value) /\ ~rule_id_disabled(p, e.id)
  BY <1>2, <1>5, <1>6, <1>8 DEF Hitting
<1>11. /\ LastAllowed(p, a, x) = IF A = {} THEN NothingMatches
                                 ELSE Controlled(p, a[Max(A)].severity, a[Max(A)].id, 0)
       /\ LastAllowed(p, b, x) = IF B = {} THEN NothingMatches
                                 ELSE Controlled(p, b[Max(B)].severity, b[Max(B)].id, 0)
  BY <1>6 DEF LastAllowed, Hitting
<1>12. CASE n + 1 \in B
  <2>1. PICK m : m = Max(B)
    OBVIOUS
  <2>2. m \in B /\ \A i \in B : i <= m
    <3>1. n + 1 \in Nat /\ B # {}
      BY <1>12
    <3> QED
      BY <1>7, <2>1, <3>1, LastPosition
  <2>3. m = n + 1
    BY <1>7, <1>12, <2>2
  <2>4. b[m].severity = e.severity /\ b[m].id = e.id
    BY <1>2, <1>5, <1>8, <2>3
  <2> QED
    BY <1>1, <1>3, <1>10, <1>11, <1>12, <2>1, <2>4
<1>13. CASE n + 1 \notin B
  <2>1. A = B
    <3>1. \A i \in 1 .. n + 1 : i = n + 1 \/ i \in 1 .. n
      OBVIOUS
    <3>2. B \subseteq A
      BY <1>7, <1>9, <1>13, <3>1
    <3>3. A \subseteq B
      BY <1>7, <1>9
    <3> QED
      BY <3>2, <3>3
  <2>2. CASE A = {}
    BY <1>1, <1>3, <1>10, <1>11, <1>13, <2>1, <2>2
  <2>3. CASE A # {}
    <3>1. PICK m : m = Max(A)
      OBVIOUS
    <3>2. m \in 1 .. n
      BY <1>7, <2>3, <3>1, LastPosition
    <3>3. b[m].severity = a[m].severity /\ b[m].id = a[m].id
      BY <1>2, <1>4, <1>5, <1>8, <3>2
    <3> QED
      BY <1>1, <1>3, <1>10, <1>11, <1>13, <2>1, <2>3, <3>1, <3>3
  <2> QED
    BY <2>2, <2>3
<1> QED
  BY <1>12, <1>13

\* It passes over what does not hit.
LEMMA ScanRemoved ==
    ASSUME NEW T, NEW X, NEW list, NEW p, NEW x, \A v \in X : x \notin Hits(list, v)
    PROVE  \A s \in Seq(T) :
              LastAllowed(p, RulesOn(list, Removed(s, X)), x) = LastAllowed(p, RulesOn(list, s), x)
<1> DEFINE Scan(s) == LastAllowed(p, RulesOn(list, s), x)
           G == {s \in Seq(T) : Scan(Removed(s, X)) = Scan(s)}
<1>1. <<>> \in G
  <2>1. Removed(<<>>, X) = <<>> /\ <<>> \in Seq(T)
    BY RemovedFromNone
  <2> HIDE DEF Scan
  <2> QED
    BY <2>1
<1>2. ASSUME NEW s \in Seq(T), NEW e \in T, s \in G PROVE Append(s, e) \in G
  <2>1. PICK r \in Seq(T) : r = Removed(s, X)
    BY RemovedType
  <2>2. Append(s, e) \in Seq(T)
    BY AppendIs
  <2>3. \A q \in Seq(T) : Scan(Append(q, e)) =
            IF x \in Hits(list, e.value) /\ ~rule_id_disabled(p, e.id)
            THEN Controlled(p, e.severity, e.id, 0) ELSE Scan(q)
    BY ScanAppended
  <2> HIDE DEF Scan
  <2>4. Scan(r) = Scan(s)
    BY <1>2, <2>1
  <2>5. CASE e.value \in X
    <3>1. Removed(Append(s, e), X) = r
      BY <2>1, <2>5, RemovedDrops
    <3>2. x \notin Hits(list, e.value)
      BY <2>5
    <3> QED
      BY <2>2, <2>3, <2>4, <3>1, <3>2
  <2>6. CASE e.value \notin X
    <3>1. Removed(Append(s, e), X) = Append(r, e)
      BY <2>1, <2>6, RemovedKeeps
    <3> QED
      BY <2>2, <2>3, <2>4, <3>1
  <2> QED
    BY <2>5, <2>6
<1>3. Seq(T) \subseteq G
  <2> HIDE DEF G
  <2> QED
    BY <1>1, <1>2, SeqInduct
<1> QED
  BY <1>3

\* Rules b ask for at least what rules a ask for: fewer programs are exempt from the memory
\* rules, the list of starts is the same but for the values X, and so is all the rest that
\* the lines of a text work on.
Ranked(X, a, b) ==
    /\ b.disabled = a.disabled /\ b.override = a.override
    /\ b.user_idle_threshold = a.user_idle_threshold
    /\ \A list \in Lists \ {"jit_allow_comm", "suspicious_exec_exact"} : b.list[list] = a.list[list]
    /\ ValuesOf(b.list["jit_allow_comm"]) \subseteq ValuesOf(a.list["jit_allow_comm"])
    /\ Removed(b.list["suspicious_exec_exact"], X) = Removed(a.list["suspicious_exec_exact"], X)

\* A line keeps that.
LEMMA RankedStep ==
    ASSUME NEW X, NEW a, LoaderType(a), NEW b, LoaderType(b), NEW line \in ConfigLine,
           NEW new, NEW other, LineEffect(line, a, new), LineEffect(line, b, other),
           ControlsAfter(line, a, new), ControlsAfter(line, b, other), new.valid, other.valid,
           Ranked(X, a.rules, b.rules)
    PROVE  Ranked(X, new.rules, other.rules)
<1> DEFINE jit == "jit_allow_comm"
           exec == "suspicious_exec_exact"
<1>1. jit \in Lists /\ exec \in Lists
  BY ListsAre DEF ListNames
<1>2. /\ other.rules.disabled = new.rules.disabled
      /\ other.rules.user_idle_threshold = new.rules.user_idle_threshold
  BY DEF Ranked, ControlsAfter
<1>3. other.rules.override = new.rules.override
  <2>1. OverridesEffect(line, a, new) /\ OverridesEffect(line, b, other)
    BY DEF LineEffect
  <2>2. a.rules.override = b.rules.override
    BY DEF Ranked
  <2> QED
    BY <2>1, <2>2 DEF OverridesEffect
<1>4. ASSUME NEW list \in Lists
      PROVE  \E s, t, p, q :
                /\ s \in Seq(Entries) /\ t \in Seq(Entries)
                /\ s = a.rules.list[list] /\ t = b.rules.list[list]
                /\ p = new.rules.list[list] /\ q = other.rules.list[list]
                /\ \/ p = s /\ q = t
                   \/ \E e \in Entries : p = Append(s, e) /\ q = Append(t, e)
                   \/ \E w : p = Removed(s, {w}) /\ q = Removed(t, {w})
  <2>1. PICK s \in Seq(Entries), t \in Seq(Entries) :
            s = a.rules.list[list] /\ t = b.rules.list[list]
    BY DEF LoaderType, RulesType
  <2>2. PICK p, q : p = new.rules.list[list] /\ q = other.rules.list[list]
    OBVIOUS
  <2>3. ListEffect(line, a, new, list) /\ ListEffect(line, b, other, list)
    BY DEF LineEffect
  <2>4. CASE line.parts = <<>> \/ line.key \notin {list, DisableKey[list]}
    <3>1. p = s /\ q = t
      BY <2>1, <2>2, <2>3, <2>4 DEF ListEffect
    <3> QED
      BY <2>1, <2>2, <3>1
  <2>5. CASE line.parts # <<>> /\ line.key = list
    <3>1. PICK e \in Entries : e = LineEntry(list, line.parts)
      BY <2>3, <2>5 DEF ListEffect
    <3>2. p = Append(s, e) /\ q = Append(t, e)
      BY <2>1, <2>2, <2>3, <2>5, <3>1 DEF ListEffect
    <3> QED
      BY <2>1, <2>2, <3>2
  <2>6. CASE line.parts # <<>> /\ line.key = DisableKey[list]
    <3>1. PICK w : w = Sought(list, line.parts)
      OBVIOUS
    <3>2. p = Removed(s, {w}) /\ q = Removed(t, {w})
      BY <2>1, <2>2, <2>3, <2>6, <3>1 DEF ListEffect
    <3> QED
      BY <2>1, <2>2, <3>2
  <2> QED
    BY <2>4, <2>5, <2>6
<1>5. ASSUME NEW list \in Lists \ {jit, exec} PROVE other.rules.list[list] = new.rules.list[list]
  <2>1. a.rules.list[list] = b.rules.list[list] /\ list \in Lists
    BY DEF Ranked
  <2>2. PICK s, t, p, q :
            /\ s \in Seq(Entries) /\ t \in Seq(Entries)
            /\ s = a.rules.list[list] /\ t = b.rules.list[list]
            /\ p = new.rules.list[list] /\ q = other.rules.list[list]
            /\ \/ p = s /\ q = t
               \/ \E e \in Entries : p = Append(s, e) /\ q = Append(t, e)
               \/ \E w : p = Removed(s, {w}) /\ q = Removed(t, {w})
    BY <1>4, <2>1
  <2>3. s = t
    BY <2>1, <2>2
  <2>4. p = q
    BY <2>2, <2>3
  <2> QED
    BY <2>2, <2>4
<1>6. ValuesOf(other.rules.list[jit]) \subseteq ValuesOf(new.rules.list[jit])
  <2>1. PICK s, t, p, q :
            /\ s \in Seq(Entries) /\ t \in Seq(Entries)
            /\ s = a.rules.list[jit] /\ t = b.rules.list[jit]
            /\ p = new.rules.list[jit] /\ q = other.rules.list[jit]
            /\ \/ p = s /\ q = t
               \/ \E e \in Entries : p = Append(s, e) /\ q = Append(t, e)
               \/ \E w : p = Removed(s, {w}) /\ q = Removed(t, {w})
    BY <1>1, <1>4
  <2>2. s \in Seq(Entries) /\ t \in Seq(Entries)
    BY <2>1
  <2>3. ValuesOf(t) \subseteq ValuesOf(s)
    BY <2>1 DEF Ranked
  <2>4. ASSUME NEW e \in Entries, p = Append(s, e), q = Append(t, e)
        PROVE  ValuesOf(q) \subseteq ValuesOf(p)
    BY <2>3, <2>4, <2>2, ValuesAppended
  <2>5. ASSUME NEW w, p = Removed(s, {w}), q = Removed(t, {w})
        PROVE  ValuesOf(q) \subseteq ValuesOf(p)
    BY <2>3, <2>5, <2>2, ValuesRemoved
  <2>6. ValuesOf(q) \subseteq ValuesOf(p)
    BY <2>1, <2>3, <2>4, <2>5
  <2> QED
    BY <2>1, <2>6
<1>7. Removed(other.rules.list[exec], X) = Removed(new.rules.list[exec], X)
  <2>1. PICK s, t, p, q :
            /\ s \in Seq(Entries) /\ t \in Seq(Entries)
            /\ s = a.rules.list[exec] /\ t = b.rules.list[exec]
            /\ p = new.rules.list[exec] /\ q = other.rules.list[exec]
            /\ \/ p = s /\ q = t
               \/ \E e \in Entries : p = Append(s, e) /\ q = Append(t, e)
               \/ \E w : p = Removed(s, {w}) /\ q = Removed(t, {w})
    BY <1>1, <1>4
  <2>2. s \in Seq(Entries) /\ t \in Seq(Entries)
    BY <2>1
  <2>3. Removed(t, X) = Removed(s, X)
    BY <2>1 DEF Ranked
  <2>4. ASSUME NEW e \in Entries, p = Append(s, e), q = Append(t, e)
        PROVE  Removed(q, X) = Removed(p, X)
    <3>1. CASE e.value \in X
      BY <2>3, <2>4, <2>2, <3>1, RemovedDrops
    <3>2. CASE e.value \notin X
      <4>1. Removed(Append(s, e), X) = Append(Removed(s, X), e)
        BY <2>2, <3>2, RemovedKeeps
      <4>2. Removed(Append(t, e), X) = Append(Removed(t, X), e)
        BY <2>2, <3>2, RemovedKeeps
      <4> QED
        BY <2>3, <2>4, <4>1, <4>2
    <3> QED
      BY <3>1, <3>2
  <2>5. ASSUME NEW w, p = Removed(s, {w}), q = Removed(t, {w})
        PROVE  Removed(q, X) = Removed(p, X)
    <3>1. PICK W : W = {w}
      OBVIOUS
    <3>2. Removed(Removed(s, W), X) = Removed(Removed(s, X), W)
      BY <2>2, RemovedEither
    <3>3. Removed(Removed(t, W), X) = Removed(Removed(t, X), W)
      BY <2>2, RemovedEither
    <3> QED
      BY <2>3, <2>5, <3>1, <3>2, <3>3
  <2>6. Removed(q, X) = Removed(p, X)
    BY <2>1, <2>3, <2>4, <2>5
  <2> QED
    BY <2>1, <2>6
<1> QED
  BY <1>2, <1>3, <1>5, <1>6, <1>7 DEF Ranked

\* So does a text, which leaves the profile and its severity alone.
LEMMA TextRanks ==
    ASSUME NEW X, NEW a, LoaderType(a), NEW b, LoaderType(b), Ranked(X, a.rules, b.rules)
    PROVE  \A t \in Seq(ConfigLine) :
              /\ AfterLines(a, t).valid /\ AfterLines(b, t).valid
              => Ranked(X, AfterLines(a, t).rules, AfterLines(b, t).rules)
<1> DEFINE Fits(s, u) == s.valid /\ u.valid => Ranked(X, s.rules, u.rules)
           G == {t \in Seq(ConfigLine) : Fits(AfterLines(a, t), AfterLines(b, t))}
<1>1. <<>> \in G
  <2>1. AfterLines(a, <<>>) = a /\ AfterLines(b, <<>>) = b /\ <<>> \in Seq(ConfigLine)
    BY NoLines
  <2>2. Fits(a, b)
    OBVIOUS
  <2> HIDE DEF Fits
  <2> QED
    BY <2>1, <2>2
<1>2. ASSUME NEW t \in Seq(ConfigLine), NEW x \in ConfigLine, t \in G PROVE Append(t, x) \in G
  <2>1. PICK s, u, new, other :
            /\ s = AfterLines(a, t) /\ u = AfterLines(b, t)
            /\ new = AfterLine(x, s) /\ other = AfterLine(x, u)
    OBVIOUS
  <2>2. LoaderType(s) /\ LoaderType(u)
    BY <2>1, TextDecides
  <2>3. AfterLines(a, Append(t, x)) = new /\ AfterLines(b, Append(t, x)) = other
    BY <2>1, LastLine
  <2>4. LineEffect(x, s, new) /\ LineEffect(x, u, other)
    BY <2>1, <2>2, LineDoes
  <2>5. ControlsAfter(x, s, new) /\ ControlsAfter(x, u, other)
    BY <2>1, <2>2, LineControls
  <2>6. (new.valid => s.valid) /\ (other.valid => u.valid)
    BY <2>4 DEF LineEffect
  <2>7. Fits(s, u)
    <3> HIDE DEF Fits
    <3> QED
      BY <1>2, <2>1
  <2>8. ASSUME new.valid, other.valid PROVE Ranked(X, new.rules, other.rules)
    <3>1. Ranked(X, s.rules, u.rules)
      BY <2>6, <2>7, <2>8
    <3> QED
      BY <2>2, <2>4, <2>5, <2>8, <3>1, RankedStep
  <2>9. Fits(new, other)
    BY <2>8
  <2>10. Append(t, x) \in Seq(ConfigLine)
    BY AppendIs
  <2> HIDE DEF Fits
  <2> QED
    BY <2>3, <2>9, <2>10
<1>3. Seq(ConfigLine) \subseteq G
  <2> HIDE DEF G
  <2> QED
    BY <1>1, <1>2, SeqInduct
<1> QED
  BY <1>3

\* A text leaves the profile alone, and the severity the profile chooses.
LEMMA TextKeeps ==
    ASSUME NEW a, LoaderType(a)
    PROVE  \A t \in Seq(ConfigLine) :
              /\ AfterLines(a, t).rules.profile = a.rules.profile
              /\ AfterLines(a, t).rules.anon_exec_mmap_severity = a.rules.anon_exec_mmap_severity
<1> DEFINE Kept(s) == /\ s.rules.profile = a.rules.profile
                      /\ s.rules.anon_exec_mmap_severity = a.rules.anon_exec_mmap_severity
           G == {t \in Seq(ConfigLine) : Kept(AfterLines(a, t))}
<1>1. <<>> \in G
  <2>1. AfterLines(a, <<>>) = a /\ <<>> \in Seq(ConfigLine)
    BY NoLines
  <2>2. Kept(a)
    OBVIOUS
  <2> HIDE DEF Kept
  <2> QED
    BY <2>1, <2>2
<1>2. ASSUME NEW t \in Seq(ConfigLine), NEW x \in ConfigLine, t \in G PROVE Append(t, x) \in G
  <2>1. PICK s, new : s = AfterLines(a, t) /\ new = AfterLine(x, s)
    OBVIOUS
  <2>2. LoaderType(s)
    BY <2>1, TextDecides
  <2>3. AfterLines(a, Append(t, x)) = new
    BY <2>1, LastLine
  <2>4. ControlsAfter(x, s, new)
    BY <2>1, <2>2, LineControls
  <2>5. Kept(s)
    <3> HIDE DEF Kept
    <3> QED
      BY <1>2, <2>1
  <2>6. Kept(new)
    BY <2>4, <2>5 DEF ControlsAfter
  <2>7. Append(t, x) \in Seq(ConfigLine)
    BY AppendIs
  <2> HIDE DEF Kept
  <2> QED
    BY <2>3, <2>6, <2>7
<1>3. Seq(ConfigLine) \subseteq G
  <2> HIDE DEF G
  <2> QED
    BY <1>1, <1>2, SeqInduct
<1> QED
  BY <1>3

\* Profile q is above p, but for the starts of what has a value in X.
Ladder(p, q, X) ==
    \/ p = "developer-workstation" /\ q = "baseline" /\ X = {}
    \/ p = "baseline" /\ q = "server" /\ X = {}
    \/ p = "baseline" /\ q = "high-signal" /\ X = {<<w>> : w \in {"bash", "sh"}}

\* It is a profile.
LEMMA LadderProfiles ==
    ASSUME NEW p, NEW q, NEW X, Ladder(p, q, X)
    PROVE  p \in Profiles /\ q \in Profiles
BY DEF Ladder, Profiles

\* What the profiles make of the compiled lists is ranked.
LEMMA ListsRank ==
    ASSUME NEW p, NEW q, NEW X, Ladder(p, q, X)
    PROVE  /\ \A list \in Lists \ {"jit_allow_comm", "suspicious_exec_exact"} :
                 ListsOf(q)[list] = ListsOf(p)[list]
           /\ ValuesOf(ListsOf(q)["jit_allow_comm"]) \subseteq ValuesOf(ListsOf(p)["jit_allow_comm"])
           /\ Removed(ListsOf(q)["suspicious_exec_exact"], X)
                 = Removed(ListsOf(p)["suspicious_exec_exact"], X)
<1> DEFINE jit == "jit_allow_comm"
           exec == "suspicious_exec_exact"
<1>1. jit \in Lists /\ exec \in Lists
  BY ListsAre DEF ListNames
<1>2. p \in {"baseline", "developer-workstation"}
  BY DEF Ladder
<1>3. \A list \in Lists : ListsOf(p)[list] = init_default_rules.list[list]
  BY <1>2, NothingLeftOut DEF LeftOut
<1>4. \A list \in Lists \ {jit, exec} : ListsOf(q)[list] = init_default_rules.list[list]
  BY NothingLeftOut DEF LeftOut
<1>5. ValuesOf(ListsOf(q)[jit]) \subseteq ValuesOf(ListsOf(p)[jit])
  <2>1. PICK s, V : s = init_default_rules.list[jit] /\ V = {<<w>> : w \in LeftOut(q, jit)}
    OBVIOUS
  <2>2. s \in Seq(Entries)
    BY <1>1, <2>1, DefaultLists
  <2>3. ListsOf(q)[jit] = Removed(s, V)
    BY <1>1, <2>1 DEF ListsOf
  <2>4. ValuesOf(Removed(s, V)) = ValuesOf(s) \ V
    BY <2>2, ValuesRemoved
  <2> QED
    BY <1>1, <1>3, <2>1, <2>3, <2>4
<1>6. Removed(ListsOf(q)[exec], X) = Removed(ListsOf(p)[exec], X)
  <2>1. PICK s : s = init_default_rules.list[exec]
    OBVIOUS
  <2>2. s \in Seq(Entries)
    BY <1>1, <2>1, DefaultLists
  <2>3. ListsOf(p)[exec] = s
    BY <1>1, <1>3, <2>1
  <2>4. CASE q # "high-signal"
    <3>1. ListsOf(q)[exec] = s
      BY <1>1, <2>1, <2>4, NothingLeftOut DEF LeftOut
    <3> QED
      BY <2>3, <3>1
  <2>5. CASE q = "high-signal"
    <3>1. X = {<<w>> : w \in {"bash", "sh"}} /\ LeftOut(q, exec) = {"bash", "sh"}
      BY <2>5 DEF Ladder, LeftOut
    <3>2. ListsOf(q)[exec] = Removed(s, X)
      BY <1>1, <2>1, <3>1 DEF ListsOf
    <3>3. PICK r : r = Removed(s, X)
      OBVIOUS
    <3>4. r \in Seq(Entries) /\ \A i \in DOMAIN r : r[i].value \notin X
      BY <2>2, <3>3, RemovedType
    <3>5. Removed(r, X) = r
      BY <3>4, RemovedType
    <3> QED
      BY <2>3, <3>2, <3>3, <3>5
  <2> QED
    BY <2>4, <2>5
<1> QED
  BY <1>1, <1>3, <1>4, <1>5, <1>6

\* And so is what the lines start from.
LEMMA StartsRank ==
    ASSUME NEW p, NEW q, NEW X, Ladder(p, q, X)
    PROVE  /\ Ranked(X, apply_profile(init_default_rules, p), apply_profile(init_default_rules, q))
           /\ apply_profile(init_default_rules, p).profile = p
           /\ apply_profile(init_default_rules, q).profile = q
           /\ apply_profile(init_default_rules, p).anon_exec_mmap_severity
                 <= apply_profile(init_default_rules, q).anon_exec_mmap_severity
<1>1. PICK b, c, d, e, W :
          b = {} /\ c = <<>> /\ d = 5 /\ e = 300 /\ W = WARN
  OBVIOUS
<1>2. PICK i, k : /\ i = IF p = "developer-workstation" THEN INFO ELSE WARN
                  /\ k = IF q = "developer-workstation" THEN INFO ELSE WARN
  OBVIOUS
<1>3. PICK l, m : l = ListsOf(p) /\ m = ListsOf(q)
  OBVIOUS
<1>4. PICK r, t : r = RulesFrom(p, b, c, l, d, e, W, i) /\ t = RulesFrom(q, b, c, m, d, e, W, k)
  OBVIOUS
<1>5. apply_profile(init_default_rules, p) = r /\ apply_profile(init_default_rules, q) = t
  BY <1>1, <1>2, <1>3, <1>4, LadderProfiles, ProfileIs
<1>6. /\ r.profile = p /\ r.disabled = b /\ r.override = c /\ r.list = l
      /\ r.user_idle_threshold = e /\ r.anon_exec_mmap_severity = i
  BY <1>4 DEF RulesFrom
<1>7. /\ t.profile = q /\ t.disabled = b /\ t.override = c /\ t.list = m
      /\ t.user_idle_threshold = e /\ t.anon_exec_mmap_severity = k
  BY <1>4 DEF RulesFrom
<1>8. i <= k
  BY <1>2 DEF Ladder, INFO, WARN
<1>9. Ranked(X, r, t)
  BY <1>3, <1>6, <1>7, ListsRank DEF Ranked
<1> QED
  BY <1>5, <1>6, <1>7, <1>8, <1>9

\* The defaults of the flows are ranked as the profiles are.
LEMMA FlowDefaultsRank ==
    ASSUME NEW p, NEW q, NEW X, Ladder(p.profile, q.profile, X), NEW rule \in FlowRules
    PROVE  /\ default_flow_rule_severity(p, rule) \in Severities
           /\ default_flow_rule_severity(q, rule) \in Severities
           /\ default_flow_rule_severity(p, rule) <= default_flow_rule_severity(q, rule)
<1>1. CASE rule \in {FLOW_SENSITIVE_READ, FLOW_SHELL_DOWNLOADER}
  <2>1. default_flow_rule_severity(p, rule) = CRITICAL /\ default_flow_rule_severity(q, rule) = CRITICAL
    BY <1>1 DEF default_flow_rule_severity, FLOW_SENSITIVE_READ, FLOW_SHELL_DOWNLOADER, FLOW_NO_TTY
  <2> QED
    BY <2>1 DEF Severities, INFO, CRITICAL
<1>2. CASE rule \notin {FLOW_SENSITIVE_READ, FLOW_SHELL_DOWNLOADER}
  <2>1. ASSUME NEW r, r.profile \in {"server", "high-signal"}
        PROVE  default_flow_rule_severity(r, rule) = CRITICAL
    BY <1>2, <2>1 DEF default_flow_rule_severity
  <2>2. ASSUME NEW r, r.profile = "baseline" PROVE default_flow_rule_severity(r, rule) = WARN
    BY <1>2, <2>2 DEF default_flow_rule_severity
  <2>3. ASSUME NEW r, r.profile = "developer-workstation"
        PROVE  default_flow_rule_severity(r, rule) = IF rule = FLOW_NO_TTY THEN INFO ELSE WARN
    BY <1>2, <2>3 DEF default_flow_rule_severity
  <2> QED
    BY <2>1, <2>2, <2>3 DEF Ladder, Severities, INFO, WARN, CRITICAL
<1> QED
  BY <1>1, <1>2

\* Ranked rules make a stricter policy.
LEMMA RankedIsStricter ==
    ASSUME NEW X, NEW a, RulesType(a), NEW b, RulesType(b), Ranked(X, a, b),
           Ladder(a.profile, b.profile, X), a.anon_exec_mmap_severity <= b.anon_exec_mmap_severity,
           NEW e, e.type = "EXEC" => \A v \in X : e.target \notin Hits("suspicious_exec_exact", v)
    PROVE  Stricter(Policy(a), Policy(b), e)
<1>1. \A list \in Lists : a.list[list] \in Seq(Entries) /\ b.list[list] \in Seq(Entries)
  BY DEF RulesType
<1>2. /\ Rules(a, "suspicious_exec_exact") = RulesOn("suspicious_exec_exact", a.list["suspicious_exec_exact"])
      /\ Rules(b, "suspicious_exec_exact") = RulesOn("suspicious_exec_exact", b.list["suspicious_exec_exact"])
  BY DEF Rules, RulesOn
<1>3. PICK p, q : p = Policy(a) /\ q = Policy(b)
  OBVIOUS
<1>4. /\ p.profile = a.profile /\ p.disabled = a.disabled /\ p.override = a.override
      /\ p.exec_exact = Rules(a, "suspicious_exec_exact")
      /\ p.exec_prefix = Rules(a, "suspicious_exec_prefix")
      /\ p.sensitive_read = Rules(a, "sensitive_read") /\ p.sensitive_write = Rules(a, "sensitive_write")
      /\ p.suspicious_ports = Rules(a, "suspicious_port")
      /\ p.jit_allow = Values(a, "jit_allow_comm")
      /\ p.flow_allow_transfer = Values(a, "flow_allow_transfer")
      /\ p.anon_exec_mmap_severity = a.anon_exec_mmap_severity
      /\ p.user_idle_threshold = a.user_idle_threshold
  BY <1>3 DEF Policy
<1>5. /\ q.profile = b.profile /\ q.disabled = b.disabled /\ q.override = b.override
      /\ q.exec_exact = Rules(b, "suspicious_exec_exact")
      /\ q.exec_prefix = Rules(b, "suspicious_exec_prefix")
      /\ q.sensitive_read = Rules(b, "sensitive_read") /\ q.sensitive_write = Rules(b, "sensitive_write")
      /\ q.suspicious_ports = Rules(b, "suspicious_port")
      /\ q.jit_allow = Values(b, "jit_allow_comm")
      /\ q.flow_allow_transfer = Values(b, "flow_allow_transfer")
      /\ q.anon_exec_mmap_severity = b.anon_exec_mmap_severity
      /\ q.user_idle_threshold = b.user_idle_threshold
  BY <1>3 DEF Policy
<1>6. ASSUME NEW list \in Lists \ {"jit_allow_comm", "suspicious_exec_exact"}
      PROVE  Rules(a, list) = Rules(b, list) /\ Values(a, list) = Values(b, list)
  <2>1. a.list[list] = b.list[list]
    BY DEF Ranked
  <2> QED
    BY <2>1 DEF Rules, Values
<1>7. {"suspicious_exec_prefix", "sensitive_read", "sensitive_write", "suspicious_port",
       "flow_allow_transfer"} \subseteq Lists \ {"jit_allow_comm", "suspicious_exec_exact"}
  BY ListsAre DEF ListNames
<1>8. /\ q.exec_prefix = p.exec_prefix /\ q.sensitive_read = p.sensitive_read
      /\ q.sensitive_write = p.sensitive_write /\ q.suspicious_ports = p.suspicious_ports
      /\ q.flow_allow_transfer = p.flow_allow_transfer
  BY <1>4, <1>5, <1>6, <1>7
<1>9. q.jit_allow \subseteq p.jit_allow
  <2>1. PICK s, t : s = a.list["jit_allow_comm"] /\ t = b.list["jit_allow_comm"]
    OBVIOUS
  <2>2. ValuesOf(t) \subseteq ValuesOf(s)
    BY <2>1 DEF Ranked
  <2>3. ASSUME NEW x \in q.jit_allow PROVE x \in p.jit_allow
    <3>1. PICK i \in DOMAIN t : x \in Hits("jit_allow_comm", t[i].value)
      BY <1>5, <2>1, <2>3 DEF Values
    <3>2. t[i].value \in ValuesOf(s)
      BY <2>2, <3>1 DEF ValuesOf
    <3>3. PICK k \in DOMAIN s : s[k].value = t[i].value
      BY <3>2 DEF ValuesOf
    <3> QED
      BY <1>4, <2>1, <3>1, <3>3 DEF Values
  <2> QED
    BY <2>3
<1>10. \A rule \in FlowRules :
          /\ default_flow_rule_severity(p, rule) \in Severities
          /\ default_flow_rule_severity(q, rule) \in Severities
          /\ default_flow_rule_severity(p, rule) <= default_flow_rule_severity(q, rule)
  BY <1>4, <1>5, FlowDefaultsRank
<1>11. q.disabled = p.disabled /\ q.override = p.override
  BY <1>4, <1>5 DEF Ranked
<1>12. ASSUME e.type = "EXEC"
       PROVE  LastAllowed(q, q.exec_exact, e.target) = LastAllowed(p, p.exec_exact, e.target)
  <2>1. PICK s, t : s = a.list["suspicious_exec_exact"] /\ t = b.list["suspicious_exec_exact"]
    OBVIOUS
  <2>2. s \in Seq(Entries) /\ t \in Seq(Entries)
    BY <1>1, <2>1, ListsAre DEF ListNames
  <2>3. PICK list, x : list = "suspicious_exec_exact" /\ x = e.target
    OBVIOUS
  <2>4. \A v \in X : x \notin Hits(list, v)
    BY <1>12, <2>3
  <2>5. /\ LastAllowed(p, RulesOn(list, Removed(s, X)), x) = LastAllowed(p, RulesOn(list, s), x)
        /\ LastAllowed(p, RulesOn(list, Removed(t, X)), x) = LastAllowed(p, RulesOn(list, t), x)
    BY <2>2, <2>4, ScanRemoved
  <2>6. Removed(t, X) = Removed(s, X)
    BY <2>1 DEF Ranked
  <2>7. LastAllowed(p, RulesOn(list, t), x) = LastAllowed(p, RulesOn(list, s), x)
    BY <2>5, <2>6
  <2>8. \A rules_, y : LastAllowed(q, rules_, y) = LastAllowed(p, rules_, y)
    BY <1>11 DEF LastAllowed, Controlled, rule_id_disabled, effective_rule_severity
  <2> QED
    BY <1>2, <1>4, <1>5, <2>1, <2>3, <2>7, <2>8
<1>13. q.user_idle_threshold = p.user_idle_threshold
  BY <1>4, <1>5 DEF Ranked
<1>14. p.anon_exec_mmap_severity <= q.anon_exec_mmap_severity
  BY <1>4, <1>5
<1>15. Stricter(p, q, e)
  BY <1>8, <1>9, <1>10, <1>11, <1>12, <1>13, <1>14 DEF Stricter
<1> QED
  BY <1>3, <1>15

\* Loading a text under a profile line.
LEMMA LoadUnder ==
    ASSUME NEW name \in Profiles, NEW t \in Seq(ConfigLine),
           NEW start, start = [rules |-> apply_profile(init_default_rules, name), valid |-> TRUE],
           NEW new, new = LoadFrom(<<[key |-> "profile", parts |-> <<name>>]>>, t)
    PROVE  /\ LoaderType(start) /\ start.rules = apply_profile(init_default_rules, name)
           /\ LoaderType(AfterLines(start, t)) /\ new.rules = AfterLines(start, t).rules
           /\ new.valid => AfterLines(start, t).valid
<1>1. PICK line : line = [key |-> "profile", parts |-> <<name>>]
  OBVIOUS
<1>2. PICK one : one = <<line>> /\ DOMAIN one = {1} /\ one[1] = line
  <2>1. DOMAIN <<line>> = 1 .. 1 /\ 1 .. 1 = {1} /\ <<line>>[1] = line
    OBVIOUS
  <2> QED
    BY <2>1
<1>3. IsProfileLine(line) /\ line.parts = <<name>> /\ line.parts[1] = name
  BY <1>1 DEF IsProfileLine
<1>4. ProfilesSound(one)
  BY <1>2, <1>3 DEF ProfilesSound
<1>5. SelectedProfile(one) = name
  <2>1. PICK named : named = {i \in DOMAIN one : IsProfileLine(one[i])}
    OBVIOUS
  <2>2. named = {1}
    BY <1>2, <1>3, <2>1
  <2>3. named \in SUBSET (1 .. 1) /\ named # {} /\ 1 \in Nat
    BY <2>2
  <2>4. Max(named) = 1
    BY <2>2, <2>3, LastPosition
  <2> QED
    BY <1>2, <1>3, <2>1, <2>2, <2>4 DEF SelectedProfile
<1>6. LoaderType(start)
  BY ProfileStart
<1>7. PICK st : st = AfterLines(start, t)
  OBVIOUS
<1>8. LoaderType(st)
  BY <1>6, <1>7, TextDecides
<1>9. PICK r, v : st = [rules |-> r, valid |-> v] /\ v \in BOOLEAN
  BY <1>8 DEF LoaderType
<1>10. st.rules = r /\ st.valid = v
  BY <1>9
<1>11. new = [st EXCEPT !.valid = st.valid /\ ControlsKnown(st.rules)]
  BY <1>1, <1>2, <1>4, <1>5, <1>7 DEF LoadFrom
<1>12. PICK w \in BOOLEAN : w = (v /\ ControlsKnown(r))
  OBVIOUS
<1>13. new = [st EXCEPT !.valid = w]
  BY <1>10, <1>11, <1>12
<1>14. new = [rules |-> r, valid |-> w]
  BY <1>9, <1>13
<1>15. new.rules = r /\ new.valid = w
  BY <1>14
<1>16. w => v
  BY <1>12
<1> QED
  BY <1>6, <1>7, <1>8, <1>10, <1>15, <1>16

\* Under a profile further up the same lines report no event as less severe.
LEMMA LoadRanks ==
    ASSUME NEW p, NEW q, NEW X, Ladder(p, q, X), NEW t \in Seq(ConfigLine),
           NEW a, a = LoadFrom(<<[key |-> "profile", parts |-> <<p>>]>>, t), a.valid,
           NEW b, b = LoadFrom(<<[key |-> "profile", parts |-> <<q>>]>>, t), b.valid,
           NEW e, IsEvent(e), NEW c, NEW f,
           e.type = "EXEC" => \A v \in X : e.target \notin Hits("suspicious_exec_exact", v)
    PROVE  evaluate_event(Policy(a.rules), e, c, f).severity
              <= evaluate_event(Policy(b.rules), e, c, f).severity
<1>1. p \in Profiles /\ q \in Profiles
  BY LadderProfiles
<1>2. PICK s, u : /\ s = [rules |-> apply_profile(init_default_rules, p), valid |-> TRUE]
                  /\ u = [rules |-> apply_profile(init_default_rules, q), valid |-> TRUE]
  OBVIOUS
<1>3. PICK y, z : y = AfterLines(s, t) /\ z = AfterLines(u, t)
  OBVIOUS
<1>4. /\ LoaderType(s) /\ s.rules = apply_profile(init_default_rules, p)
      /\ LoaderType(y) /\ a.rules = y.rules /\ y.valid
  BY <1>1, <1>2, <1>3, LoadUnder
<1>5. /\ LoaderType(u) /\ u.rules = apply_profile(init_default_rules, q)
      /\ LoaderType(z) /\ b.rules = z.rules /\ z.valid
  BY <1>1, <1>2, <1>3, LoadUnder
<1>6. /\ Ranked(X, s.rules, u.rules) /\ s.rules.profile = p /\ u.rules.profile = q
      /\ s.rules.anon_exec_mmap_severity <= u.rules.anon_exec_mmap_severity
  BY <1>4, <1>5, StartsRank
<1>7. Ranked(X, y.rules, z.rules)
  BY <1>3, <1>4, <1>5, <1>6, TextRanks
<1>8. /\ y.rules.profile = p /\ z.rules.profile = q
      /\ y.rules.anon_exec_mmap_severity <= z.rules.anon_exec_mmap_severity
  BY <1>3, <1>4, <1>5, <1>6, TextKeeps
<1>9. RulesType(y.rules) /\ RulesType(z.rules)
  BY <1>4, <1>5 DEF LoaderType
<1>10. PICK i, k : i = Policy(y.rules) /\ k = Policy(z.rules)
  OBVIOUS
<1>11. IsPolicy(i) /\ IsPolicy(k)
  BY <1>9, <1>10, TypedIsPolicy
<1>12. Stricter(i, k, e)
  BY <1>7, <1>8, <1>9, <1>10, RankedIsStricter
<1>13. evaluate_event(i, e, c, f).severity <= evaluate_event(k, e, c, f).severity
  BY <1>11, <1>12, StricterReports
<1> QED
  BY <1>4, <1>5, <1>10, <1>13

-------------------------------------------------------------------------------
(* The first pass, and texts that are loaded alike.                          *)

\* The lines the first pass reads, and those of them it accepts.
ProfileLines == {x \in ConfigLine : IsProfileLine(x)}
NamesProfile(x) == \E p \in Profiles : x.parts = <<p>>

\* One more line, as the first pass sees it.
LEMMA FirstPassLaw ==
    ASSUME NEW t \in Seq(ConfigLine), NEW x \in ConfigLine
    PROVE  /\ ProfilesSound(Append(t, x)) <=> ProfilesSound(t) /\ (IsProfileLine(x) => NamesProfile(x))
           /\ IsProfileLine(x) => SelectedProfile(Append(t, x)) = x.parts[1]
           /\ ~IsProfileLine(x) => SelectedProfile(Append(t, x)) = SelectedProfile(t)
<1>1. PICK u : \E n \in Nat : /\ u = Append(t, x) /\ n = Len(t)
                              /\ DOMAIN t = 1 .. n /\ DOMAIN u = 1 .. n + 1 /\ u[n + 1] = x
                              /\ \A i \in 1 .. n : u[i] = t[i]
  <2>1. /\ Len(t) \in Nat /\ DOMAIN t = 1 .. Len(t) /\ DOMAIN Append(t, x) = 1 .. Len(t) + 1
        /\ Append(t, x)[Len(t) + 1] = x /\ \A i \in 1 .. Len(t) : Append(t, x)[i] = t[i]
    BY AppendIs
  <2> QED
    BY <2>1
<1>2. PICK n \in Nat : /\ DOMAIN t = 1 .. n /\ DOMAIN u = 1 .. n + 1 /\ u[n + 1] = x
                       /\ \A i \in 1 .. n : u[i] = t[i]
  BY <1>1
<1>3. n + 1 \in 1 .. n + 1 /\ \A i \in 1 .. n + 1 : i = n + 1 \/ i \in 1 .. n
  OBVIOUS
<1>4. \A i \in 1 .. n : i \in 1 .. n + 1
  OBVIOUS
<1>5. ProfilesSound(u) <=> ProfilesSound(t) /\ (IsProfileLine(x) => NamesProfile(x))
  <2>1. ProfilesSound(u) <=> \A i \in 1 .. n + 1 : IsProfileLine(u[i]) => NamesProfile(u[i])
    BY <1>2 DEF ProfilesSound, NamesProfile
  <2>2. ProfilesSound(t) <=> \A i \in 1 .. n : IsProfileLine(t[i]) => NamesProfile(t[i])
    BY <1>2 DEF ProfilesSound, NamesProfile
  <2> QED
    BY <1>2, <1>3, <1>4, <2>1, <2>2
<1> DEFINE named(s) == {i \in DOMAIN s : IsProfileLine(s[i])}
<1>6. ASSUME IsProfileLine(x) PROVE SelectedProfile(u) = x.parts[1]
  <2>1. n + 1 \in named(u) /\ named(u) \in SUBSET (1 .. n + 1)
    BY <1>2, <1>6
  <2>2. PICK m : m = Max(named(u))
    OBVIOUS
  <2>3. m \in named(u) /\ \A i \in named(u) : i <= m
    <3> HIDE DEF named
    <3>1. n + 1 \in Nat /\ named(u) # {}
      BY <2>1
    <3> QED
      BY <2>1, <2>2, <3>1, LastPosition
  <2>4. m = n + 1
    <3> HIDE DEF named
    <3>1. m \in 1 .. n + 1 /\ n + 1 <= m
      BY <2>1, <2>3
    <3> QED
      BY <3>1
  <2>5. named(u) # {}
    BY <2>1
  <2> QED
    BY <1>2, <2>2, <2>4, <2>5 DEF SelectedProfile
<1>7. ASSUME ~IsProfileLine(x) PROVE SelectedProfile(u) = SelectedProfile(t)
  <2>1. named(u) = named(t)
    BY <1>2, <1>3, <1>4, <1>7
  <2>2. CASE named(t) = {}
    BY <2>1, <2>2 DEF SelectedProfile
  <2>3. CASE named(t) # {}
    <3>1. PICK m : m = Max(named(t))
      OBVIOUS
    <3>2. named(t) \in SUBSET (1 .. n)
      BY <1>2
    <3>3. m \in named(t)
      <4> HIDE DEF named
      <4> QED
        BY <2>3, <3>1, <3>2, LastPosition
    <3>4. u[m] = t[m]
      BY <1>2, <3>3
    <3> QED
      BY <2>1, <2>3, <3>1, <3>4 DEF SelectedProfile
  <2> QED
    BY <2>2, <2>3
<1> QED
  BY <1>1, <1>5, <1>6, <1>7

\* The first pass reads the profile lines only.
LEMMA FirstPassReads ==
    \A t \in Seq(ConfigLine) :
        /\ ProfilesSound(t) <=> ProfilesSound(Those(t, ProfileLines))
        /\ SelectedProfile(t) = SelectedProfile(Those(t, ProfileLines))
<1> DEFINE G == {t \in Seq(ConfigLine) :
                    /\ ProfilesSound(t) <=> ProfilesSound(Those(t, ProfileLines))
                    /\ SelectedProfile(t) = SelectedProfile(Those(t, ProfileLines))}
<1>1. <<>> \in G
  <2>1. Those(<<>>, ProfileLines) = <<>> /\ <<>> \in Seq(ConfigLine)
    BY ThoseLaw
  <2> QED
    BY <2>1
<1>2. ASSUME NEW t \in Seq(ConfigLine), NEW x \in ConfigLine, t \in G PROVE Append(t, x) \in G
  <2>1. PICK p \in Seq(ConfigLine) : p = Those(t, ProfileLines)
    <3>1. Those(t, ProfileLines) \in Seq(ConfigLine \cap ProfileLines)
      BY ThoseType
    <3>2. Those(t, ProfileLines) \in Seq(ConfigLine)
      BY <3>1, SeqMonotonic
    <3> QED
      BY <3>2
  <2>2. (ProfilesSound(t) <=> ProfilesSound(p)) /\ SelectedProfile(t) = SelectedProfile(p)
    BY <1>2, <2>1
  <2>3. Append(t, x) \in Seq(ConfigLine)
    BY AppendIs
  <2>4. CASE IsProfileLine(x)
    <3>1. Those(Append(t, x), ProfileLines) = Append(p, x)
      <4>1. x \in ProfileLines
        BY <2>4 DEF ProfileLines
      <4>2. Those(Append(t, x), ProfileLines) = Append(Those(t, ProfileLines), x)
        BY <4>1, ThoseAdds, Zenon
      <4> QED
        BY <2>1, <4>2
    <3>2. /\ ProfilesSound(Append(t, x)) <=> ProfilesSound(t) /\ NamesProfile(x)
          /\ SelectedProfile(Append(t, x)) = x.parts[1]
      BY <2>4, FirstPassLaw
    <3>3. /\ ProfilesSound(Append(p, x)) <=> ProfilesSound(p) /\ NamesProfile(x)
          /\ SelectedProfile(Append(p, x)) = x.parts[1]
      BY <2>4, FirstPassLaw
    <3> QED
      BY <2>2, <2>3, <3>1, <3>2, <3>3
  <2>5. CASE ~IsProfileLine(x)
    <3>1. Those(Append(t, x), ProfileLines) = p
      <4>1. x \notin ProfileLines
        BY <2>5 DEF ProfileLines
      <4> QED
        BY <2>1, <4>1, ThoseLaw
    <3>2. /\ ProfilesSound(Append(t, x)) <=> ProfilesSound(t)
          /\ SelectedProfile(Append(t, x)) = SelectedProfile(t)
      BY <2>5, FirstPassLaw
    <3> QED
      BY <2>2, <2>3, <3>1, <3>2
  <2> QED
    BY <2>4, <2>5
<1>3. Seq(ConfigLine) \subseteq G
  <2> HIDE DEF G
  <2> QED
    BY <1>1, <1>2, SeqInduct
<1> QED
  BY <1>3

\* The second pass reads the other lines only.
LEMMA SecondPassReads ==
    ASSUME NEW st
    PROVE  \A t \in Seq(ConfigLine) : AfterLines(st, t) = AfterLines(st, Those(t, ConfigLine \ ProfileLines))
<1> DEFINE O == ConfigLine \ ProfileLines
           G == {t \in Seq(ConfigLine) : AfterLines(st, t) = AfterLines(st, Those(t, O))}
<1>1. <<>> \in G
  <2>1. Those(<<>>, O) = <<>> /\ <<>> \in Seq(ConfigLine)
    BY ThoseLaw
  <2> HIDE DEF O
  <2> QED
    BY <2>1
<1>2. ASSUME NEW t \in Seq(ConfigLine), NEW x \in ConfigLine, t \in G PROVE Append(t, x) \in G
  <2>1. PICK p \in Seq(ConfigLine) : p = Those(t, O)
    <3> HIDE DEF O
    <3>1. Those(t, O) \in Seq(ConfigLine \cap O)
      BY ThoseType
    <3>2. Those(t, O) \in Seq(ConfigLine)
      BY <3>1, SeqMonotonic
    <3> QED
      BY <3>2
  <2>2. AfterLines(st, t) = AfterLines(st, p)
    BY <1>2, <2>1
  <2>3. Append(t, x) \in Seq(ConfigLine)
    BY AppendIs
  <2>4. AfterLines(st, Append(t, x)) = AfterLine(x, AfterLines(st, t))
    BY LastLine
  <2>5. CASE IsProfileLine(x)
    <3>1. x \notin O
      BY <2>5 DEF ProfileLines
    <3> HIDE DEF O
    <3>2. Those(Append(t, x), O) = p
      BY <2>1, <3>1, ThoseLaw
    <3>3. AfterLine(x, AfterLines(st, t)) = AfterLines(st, t)
      BY <2>5, LineIs
    <3> QED
      BY <2>2, <2>3, <2>4, <3>2, <3>3
  <2>6. CASE ~IsProfileLine(x)
    <3>1. x \in O
      BY <2>6 DEF ProfileLines
    <3> HIDE DEF O
    <3>2. Those(Append(t, x), O) = Append(p, x)
      <4>1. Those(Append(t, x), O) = Append(Those(t, O), x)
        BY <3>1, ThoseAdds, Zenon
      <4> QED
        BY <2>1, <4>1
    <3>3. AfterLines(st, Append(p, x)) = AfterLine(x, AfterLines(st, p))
      BY LastLine
    <3> QED
      BY <2>2, <2>3, <2>4, <3>2, <3>3
  <2> QED
    BY <2>5, <2>6
<1>3. Seq(ConfigLine) \subseteq G
  <2> HIDE DEF G
  <2> QED
    BY <1>1, <1>2, SeqInduct
<1> QED
  BY <1>3

\* Texts with the same profile lines and the same other lines are loaded alike.
LEMMA LoadedAlike ==
    ASSUME NEW t \in Seq(ConfigLine), NEW u \in Seq(ConfigLine),
           Those(u, ProfileLines) = Those(t, ProfileLines),
           Those(u, ConfigLine \ ProfileLines) = Those(t, ConfigLine \ ProfileLines)
    PROVE  LoadFrom(u, u) = LoadFrom(t, t)
<1>1. (ProfilesSound(u) <=> ProfilesSound(t)) /\ SelectedProfile(u) = SelectedProfile(t)
  BY FirstPassReads
<1>2. \A st : AfterLines(st, u) = AfterLines(st, t)
  BY SecondPassReads
<1> QED
  BY <1>1, <1>2 DEF LoadFrom

\* The elements of a sequence in two parts.
LEMMA ThoseConcat ==
    ASSUME NEW T, NEW S, NEW s \in Seq(T)
    PROVE  \A t \in Seq(T) : Those(s \o t, S) = Those(s, S) \o Those(t, S)
<1> DEFINE G == {t \in Seq(T) : Those(s \o t, S) = Those(s, S) \o Those(t, S)}
<1>1. Those(s, S) \in Seq(T)
  <2>1. Those(s, S) \in Seq(T \cap S)
    BY ThoseType
  <2> QED
    BY <2>1, SeqMonotonic
<1>2. <<>> \in G
  <2>1. s \o <<>> = s /\ Those(s, S) \o <<>> = Those(s, S) /\ <<>> \in Seq(T)
    BY <1>1, ConcatEmptySeq
  <2>2. Those(<<>>, S) = <<>>
    BY ThoseLaw
  <2> QED
    BY <2>1, <2>2
<1>3. ASSUME NEW t \in Seq(T), NEW x \in T, t \in G PROVE Append(t, x) \in G
  <2>1. PICK p \in Seq(T) : p = Those(s, S)
    BY <1>1
  <2>2. PICK q \in Seq(T) : q = Those(t, S)
    <3>1. Those(t, S) \in Seq(T \cap S)
      BY ThoseType
    <3>2. Those(t, S) \in Seq(T)
      BY <3>1, SeqMonotonic
    <3> QED
      BY <3>2
  <2>3. PICK u \in Seq(T) : u = s \o t
    BY ConcatProperties
  <2>4. Those(u, S) = p \o q
    BY <1>3, <2>1, <2>2, <2>3
  <2>5. s \o Append(t, x) = Append(u, x)
    BY <2>3, ConcatAppend
  <2>6. Append(t, x) \in Seq(T)
    BY AppendIs
  <2>7. CASE x \in S
    <3>1. Those(Append(u, x), S) = Append(p \o q, x)
      <4>1. Those(Append(u, x), S) = Append(Those(u, S), x)
        BY <2>7, ThoseAdds, Zenon
      <4> QED
        BY <2>4, <4>1
    <3>2. Those(Append(t, x), S) = Append(q, x)
      <4>1. Those(Append(t, x), S) = Append(Those(t, S), x)
        BY <2>7, ThoseAdds, Zenon
      <4> QED
        BY <2>2, <4>1
    <3>3. p \o Append(q, x) = Append(p \o q, x)
      BY ConcatAppend
    <3> QED
      BY <2>1, <2>5, <2>6, <3>1, <3>2, <3>3
  <2>8. CASE x \notin S
    <3>1. Those(Append(u, x), S) = p \o q
      BY <2>4, <2>8, ThoseLaw
    <3>2. Those(Append(t, x), S) = q
      BY <2>2, <2>8, ThoseLaw
    <3> QED
      BY <2>1, <2>5, <2>6, <3>1, <3>2
  <2> QED
    BY <2>7, <2>8
<1>4. Seq(T) \subseteq G
  <2> HIDE DEF G
  <2> QED
    BY <1>2, <1>3, SeqInduct
<1> QED
  BY <1>4

\* There is none where there is none.
LEMMA ThoseNone ==
    ASSUME NEW T, NEW S
    PROVE  \A s \in Seq(T) : (\A i \in DOMAIN s : s[i] \notin S) => Those(s, S) = <<>>
<1> SUFFICES ASSUME NEW s \in Seq(T), \A i \in DOMAIN s : s[i] \notin S PROVE Those(s, S) = <<>>
  OBVIOUS
<1>1. \A i \in DOMAIN s : s[i] \in S <=> s[i] \in {}
  OBVIOUS
<1>2. Those(s, S) = Those(s, {})
  BY <1>1, ThoseSame
<1>3. PICK r : r = Those(s, {})
  OBVIOUS
<1>4. r \in Seq(T \cap {})
  BY <1>3, ThoseType
<1>5. ASSUME r # <<>> PROVE FALSE
  <2>1. Len(r) \in Nat \ {0} /\ r[1] \in T \cap {}
    BY <1>4, <1>5, EmptySeq, LenProperties
  <2> QED
    BY <2>1
<1> QED
  BY <1>2, <1>3, <1>5

-------------------------------------------------------------------------------
(* A line said twice.                                                        *)

\* A line that disables, other than of a port, does nothing the second time.
LEMMA DisabledOnce ==
    ASSUME NEW st, LoaderType(st), NEW list \in Lists, list # "suspicious_port", NEW parts,
           NEW new, new = AfterDisable(st, list, parts)
    PROVE  AfterDisable(new, list, parts) = new
<1>1. PICK a, b, c, l, d, e, f, g, v :
          st = Loader(a, b, c, l, d, e, f, g, v) /\ l \in [Lists -> Seq(Entries)]
  BY LoaderParts
<1>2. PICK w : w = Sought(list, parts)
  OBVIOUS
<1>3. PICK old, o : old \in Seq(Entries) /\ old = l[list] /\ o = Removed(old, {w})
  BY <1>1
<1>4. Removed(o, {w}) = o
  <2>1. w \in {w}
    OBVIOUS
  <2> QED
    BY <1>3, <2>1, RemovedOnce
<1>5. PICK m : m = [l EXCEPT ![list] = o]
  OBVIOUS
<1>6. m[list] = o /\ [m EXCEPT ![list] = o] = m
  BY <1>1, <1>5
<1>7. \A s : AfterDisable(s, list, parts) = [s EXCEPT !.rules.list[list] = Removed(s.rules.list[list], {w})]
  BY <1>2 DEF AfterDisable, RemovalFails
<1>8. st.rules.list = l
  BY <1>1, LoaderFields
<1>9. new = [st EXCEPT !.rules.list[list] = o]
  BY <1>3, <1>7, <1>8
<1>10. new = Loader(a, b, c, m, d, e, f, g, v)
  <2>1. st = Loader(a, b, c, l, d, e, f, g, v)
    BY <1>1
  <2> QED
    BY <1>5, <1>9, <2>1 DEF Loader
<1>11. new.rules.list = m
  BY <1>10, LoaderFields
<1>12. AfterDisable(new, list, parts) = [new EXCEPT !.rules.list[list] = o]
  <2>1. AfterDisable(new, list, parts) = [new EXCEPT !.rules.list[list] = Removed(new.rules.list[list], {w})]
    BY <1>7, Zenon
  <2>2. Removed(new.rules.list[list], {w}) = o
    BY <1>4, <1>6, <1>11
  <2> QED
    BY <2>1, <2>2, Zenon
<1>13. [new EXCEPT !.rules.list[list] = o] = Loader(a, b, c, m, d, e, f, g, v)
  BY <1>6, <1>10 DEF Loader
<1> QED
  BY <1>10, <1>12, <1>13

\* Nor does a line that disables a rule id.
LEMMA IdDisabledOnce ==
    ASSUME NEW st, LoaderType(st), NEW parts, NEW new, new = AfterDisableId(st, parts)
    PROVE  AfterDisableId(new, parts) = new
<1>1. PICK a, b, c, l, d, e, f, g, v : st = Loader(a, b, c, l, d, e, f, g, v)
  BY LoaderParts
<1>2. st.rules.disabled = b
  BY <1>1, LoaderFields
<1> DEFINE Fits(s) == IsRuleId(parts) /\ (\/ parts[1] \in s.rules.disabled
                                          \/ Cardinality(s.rules.disabled) < MAX_RULES)
<1>3. CASE Fits(st)
  <2>1. PICK h : h = b \cup {parts[1]}
    OBVIOUS
  <2>2. new = [st EXCEPT !.rules.disabled = h]
    BY <1>2, <1>3, <2>1 DEF AfterDisableId
  <2>3. new = Loader(a, h, c, l, d, e, f, g, v)
    BY <1>1, <2>2 DEF Loader
  <2>4. new.rules.disabled = h
    BY <2>3, LoaderFields
  <2>5. Fits(new) /\ h \cup {parts[1]} = h
    BY <1>3, <2>1, <2>4
  <2>6. AfterDisableId(new, parts) = [new EXCEPT !.rules.disabled = h]
    BY <2>4, <2>5 DEF AfterDisableId
  <2>7. [new EXCEPT !.rules.disabled = h] = Loader(a, h, c, l, d, e, f, g, v)
    BY <2>3 DEF Loader
  <2> QED
    BY <2>3, <2>6, <2>7
<1>4. CASE ~Fits(st)
  <2>1. PICK x : x = FALSE
    OBVIOUS
  <2>2. \A s : Invalid(s) = [s EXCEPT !.valid = x]
    BY <2>1 DEF Invalid
  <2>3. new = [st EXCEPT !.valid = x]
    BY <1>4, <2>2 DEF AfterDisableId
  <2>4. new = Loader(a, b, c, l, d, e, f, g, x)
    BY <1>1, <2>3 DEF Loader
  <2>5. new.rules.disabled = b
    BY <2>4, LoaderFields
  <2>6. ~Fits(new)
    BY <1>2, <1>4, <2>5
  <2>7. AfterDisableId(new, parts) = [new EXCEPT !.valid = x]
    BY <2>2, <2>6 DEF AfterDisableId
  <2>8. [new EXCEPT !.valid = x] = Loader(a, b, c, l, d, e, f, g, x)
    BY <2>4 DEF Loader
  <2> QED
    BY <2>4, <2>7, <2>8
<1> QED
  BY <1>3, <1>4

\* A port cannot be disabled twice.
LEMMA PortDisabledTwice ==
    ASSUME NEW st, LoaderType(st), NEW parts,
           NEW new, new = AfterDisable(st, "suspicious_port", parts)
    PROVE  AfterDisable(new, "suspicious_port", parts).valid = FALSE
<1> DEFINE list == "suspicious_port"
           again == AfterDisable(new, list, parts)
<1>1. list \in Lists
  BY KeysDiffer
<1>2. LoaderType(new) /\ (new = Invalid(st) \/ new.rules.list[list] = Removed(st.rules.list[list], {Sought(list, parts)}))
  <2>1. \/ new = Invalid(st)
        \/ /\ OtherListsKept(st, new, list)
           /\ new.rules.list[list] = Removed(st.rules.list[list], {Sought(list, parts)})
    BY <1>1, DisableEffect
  <2> QED
    BY <2>1, SpoilsOnly DEF OtherListsKept
<1>3. CASE RemovalFails(list, new.rules.list[list], parts)
  <2>1. again = Invalid(new)
    BY <1>3 DEF AfterDisable
  <2>2. Invalid(new).valid = FALSE
    BY <1>2, SpoilsOnly, Zenon
  <2> QED
    BY <2>1, <2>2
<1>4. CASE ~RemovalFails(list, new.rules.list[list], parts)
  <2>1. PICK s, w : s = st.rules.list[list] /\ w = Sought(list, parts)
    OBVIOUS
  <2>2. s \in Seq(Entries)
    BY <1>1, <2>1 DEF LoaderType, RulesType
  <2>3. \A i \in DOMAIN Removed(s, {w}) : Removed(s, {w})[i].value \notin {w}
    BY <2>2, RemovedType
  <2>4. IsPort(parts) /\ \E i \in DOMAIN new.rules.list[list] : new.rules.list[list][i].value = w
    BY <1>4, <2>1 DEF RemovalFails
  <2>5. new.rules.list[list] # Removed(s, {w})
    BY <2>3, <2>4
  <2>6. new = Invalid(st)
    BY <1>2, <2>1, <2>5
  <2>7. new.valid = FALSE
    BY <2>6, SpoilsOnly
  <2>8. again = Invalid(new) \/ (OtherListsKept(new, again, list))
    BY <1>1, <1>2, DisableEffect
  <2>9. again.valid = FALSE
    BY <1>2, <2>7, <2>8, SpoilsOnly DEF OtherListsKept
  <2> QED
    BY <2>9
<1> QED
  BY <1>3, <1>4

\* The text t is around its line x, and u is t with that line twice.
Twice(t, u, x, pre, rest) ==
    t = Append(pre, x) \o rest /\ u = Append(Append(pre, x), x) \o rest

\* A line said twice.
LEMMA LineTwice ==
    ASSUME NEW T, NEW t \in Seq(T), NEW i \in DOMAIN t, NEW u, u = InsertAt(t, i, t[i])
    PROVE  \E pre \in Seq(T) : \E rest \in Seq(T) : Twice(t, u, t[i], pre, rest)
<1>1. PICK n \in Nat : n = Len(t) /\ i \in 1 .. n /\ \A k \in 1 .. n : t[k] \in T
  BY LenProperties
<1>2. PICK x \in T : x = t[i]
  BY <1>1
<1>3. PICK pre : pre = SubSeq(t, 1, i - 1)
  OBVIOUS
<1>4. PICK rest : rest = SubSeq(t, i + 1, n)
  OBVIOUS
<1>5. PICK post : post = SubSeq(t, i, n)
  OBVIOUS
<1>6. pre \in Seq(T) /\ rest \in Seq(T)
  <2>1. /\ 1 \in Int /\ i - 1 \in Int /\ i + 1 \in Int /\ n \in Int
        /\ \A k \in 1 .. i - 1 : t[k] \in T
        /\ \A k \in i + 1 .. n : t[k] \in T
    BY <1>1
  <2>2. pre \in Seq(T)
    BY <1>3, <2>1, SubSeqProperties
  <2>3. rest \in Seq(T)
    BY <1>4, <2>1, SubSeqProperties
  <2> QED
    BY <2>2, <2>3
<1>7. post = <<x>> \o rest
  <2>1. i \in 1 .. Len(t)
    BY <1>1
  <2>2. n \in i .. Len(t)
    BY <1>1
  <2>3. SubSeq(t, i, n) = <<t[i]>> \o SubSeq(t, i + 1, n)
    BY <2>1, <2>2, SubSeqRecursiveFirst, Zenon
  <2> QED
    BY <1>2, <1>4, <1>5, <2>3
<1>8. t = pre \o post
  <2>1. SubSeq(t, 1, n) = t
    BY <1>1, SubSeqFull
  <2>2. 1 \in 1 .. Len(t) + 1 /\ i - 1 \in (1 - 1) .. Len(t)
    BY <1>1
  <2>3. n \in (i - 1) .. Len(t)
    BY <1>1
  <2>4. SubSeq(t, 1, i - 1) \o SubSeq(t, (i - 1) + 1, n) = SubSeq(t, 1, n)
    BY <2>2, <2>3, ConcatAdjacentSubSeq, Zenon
  <2>5. (i - 1) + 1 = i
    BY <1>1
  <2> QED
    BY <1>3, <1>5, <2>1, <2>4, <2>5
<1>9. PICK one \in Seq(T) : one = <<x>> /\ \A s \in Seq(T) : Append(s, x) = s \o one
  <2>1. <<x>> \in Seq(T)
    OBVIOUS
  <2>2. \A s \in Seq(T) : Append(s, x) = s \o <<x>>
    BY AppendIsConcat
  <2> QED
    BY <2>1, <2>2
<1>10. PICK p1 \in Seq(T) : p1 = Append(pre, x) /\ p1 = pre \o one
  <2>1. Append(pre, x) \in Seq(T)
    BY <1>6, AppendIs
  <2> QED
    BY <1>6, <1>9, <2>1
<1>11. PICK a \in Seq(T), b \in Seq(T) : a = pre /\ b = rest
  BY <1>6
<1>12. t = p1 \o rest
  <2>1. (pre \o one) \o rest = pre \o (one \o rest)
    <3>1. Associates(a, one, b)
      BY Reassociated, Zenon
    <3> QED
      BY <1>11, <3>1 DEF Associates
  <2> QED
    BY <1>7, <1>8, <1>9, <1>10, <2>1
<1>13. InsertAt(t, i, x) = Append(p1, x) \o rest
  <2>1. InsertAt(t, i, x) = (pre \o one) \o (one \o rest)
    BY <1>1, <1>3, <1>5, <1>7, <1>9 DEF InsertAt
  <2>2. (p1 \o one) \o rest = p1 \o (one \o rest)
    <3>1. Associates(p1, one, b)
      BY Reassociated, Zenon
    <3> QED
      BY <1>11, <3>1 DEF Associates
  <2>3. Append(p1, x) = p1 \o one
    BY <1>9
  <2> QED
    BY <1>10, <2>1, <2>2, <2>3
<1>14. Twice(t, u, t[i], pre, rest)
  BY <1>2, <1>10, <1>12, <1>13 DEF Twice
<1> QED
  BY <1>6, <1>14

\* A line that is no profile line does not change the first pass, once or twice.
LEMMA FirstPassOnce ==
    ASSUME NEW pre \in Seq(ConfigLine), NEW x \in ConfigLine, NEW rest \in Seq(ConfigLine),
           ~IsProfileLine(x),
           NEW t, NEW u, Twice(t, u, x, pre, rest)
    PROVE  (ProfilesSound(u) <=> ProfilesSound(t)) /\ SelectedProfile(u) = SelectedProfile(t)
<1>1. x \notin ProfileLines
  BY DEF ProfileLines
<1>2. PICK p1 \in Seq(ConfigLine) : p1 = Append(pre, x)
  BY AppendIs
<1>3. PICK p2 \in Seq(ConfigLine) : p2 = Append(p1, x)
  BY AppendIs
<1>4. Those(p1, ProfileLines) = Those(pre, ProfileLines)
  BY <1>1, <1>2, ThoseLaw
<1>5. Those(p2, ProfileLines) = Those(p1, ProfileLines)
  BY <1>1, <1>3, ThoseLaw
<1>6. t = p1 \o rest /\ u = p2 \o rest
  BY <1>2, <1>3 DEF Twice
<1>7. Those(t, ProfileLines) = Those(p1, ProfileLines) \o Those(rest, ProfileLines)
  BY <1>6, ThoseConcat
<1>8. Those(u, ProfileLines) = Those(p2, ProfileLines) \o Those(rest, ProfileLines)
  BY <1>6, ThoseConcat
<1>9. t \in Seq(ConfigLine) /\ u \in Seq(ConfigLine)
  BY <1>6, ConcatProperties
<1>10. Those(t, ProfileLines) = Those(u, ProfileLines)
  BY <1>5, <1>7, <1>8
<1> QED
  BY <1>9, <1>10, FirstPassReads

\* DisablingTwice, of one line.
LEMMA TwiceIs ==
    ASSUME NEW t \in Seq(ConfigLine), NEW i \in DOMAIN t, t[i].parts # <<>>,
           NEW u, u = InsertAt(t, i, t[i])
    PROVE  /\ t[i].key = "disable_suspicious_port" => LoadFrom(u, u).valid = FALSE
           /\ t[i].key # "disable_suspicious_port"
              /\ t[i].key \in {DisableKey[list] : list \in Lists} \cup {"disable_rule_id"}
              => LoadFrom(u, u) = LoadFrom(t, t)
<1>1. PICK x \in ConfigLine : x = t[i]
  BY LenProperties
<1>2. PICK pre \in Seq(ConfigLine) : \E rest \in Seq(ConfigLine) : Twice(t, u, x, pre, rest)
  <2>1. \E pre \in Seq(ConfigLine) : \E rest \in Seq(ConfigLine) : Twice(t, u, t[i], pre, rest)
    BY LineTwice
  <2> QED
    BY <1>1, <2>1
<1>3. PICK rest \in Seq(ConfigLine) : Twice(t, u, x, pre, rest)
  BY <1>2
<1>4. PICK p1 \in Seq(ConfigLine) : p1 = Append(pre, x)
  BY AppendIs
<1>5. PICK p2 \in Seq(ConfigLine) : p2 = Append(p1, x)
  BY AppendIs
<1>6. t = p1 \o rest /\ u = p2 \o rest /\ u \in Seq(ConfigLine)
  <2>1. t = p1 \o rest /\ u = p2 \o rest
    BY <1>3, <1>4, <1>5 DEF Twice
  <2>2. p2 \o rest \in Seq(ConfigLine)
    BY ConcatProperties
  <2> QED
    BY <2>1, <2>2
<1>7. ASSUME NEW st
      PROVE  /\ AfterLines(st, t) = AfterLines(AfterLine(x, AfterLines(st, pre)), rest)
             /\ AfterLines(st, u) = AfterLines(AfterLine(x, AfterLine(x, AfterLines(st, pre))), rest)
  <2>1. /\ AfterLines(st, p1 \o rest) = AfterLines(AfterLines(st, p1), rest)
        /\ AfterLines(st, p2 \o rest) = AfterLines(AfterLines(st, p2), rest)
    BY LinesOf
  <2>2. AfterLines(st, t) = AfterLines(AfterLines(st, p1), rest)
    BY <1>6, <2>1
  <2>3. AfterLines(st, u) = AfterLines(AfterLines(st, p2), rest)
    BY <1>6, <2>1
  <2>4. AfterLines(st, p1) = AfterLine(x, AfterLines(st, pre))
    BY <1>4, LastLine
  <2>5. AfterLines(st, p2) = AfterLine(x, AfterLines(st, p1))
    BY <1>5, LastLine
  <2> QED
    BY <2>2, <2>3, <2>4, <2>5
<1>8. ASSUME x.key = "disable_suspicious_port" PROVE LoadFrom(u, u).valid = FALSE
  <2>1. PICK new : new = LoadFrom(u, u)
    OBVIOUS
  <2>2. LoaderType(new) /\ (ProfilesSound(u) => LoaderType(StartOf(u)))
        /\ (new.valid => ProfilesSound(u) /\ AfterLines(StartOf(u), u).valid)
    BY <1>6, <2>1, LoadedIs
  <2>3. ASSUME new.valid PROVE FALSE
    <3>1. PICK mid : mid = AfterLines(StartOf(u), pre)
      OBVIOUS
    <3>2. LoaderType(StartOf(u))
      BY <2>2, <2>3
    <3>3. LoaderType(mid)
      BY <3>1, <3>2, TextDecides
    <3>4. PICK once, twice : once = AfterLine(x, mid) /\ twice = AfterLine(x, once)
      OBVIOUS
    <3>5. \A s : AfterLine(x, s) = AfterDisable(s, "suspicious_port", x.parts)
      BY <1>1, <1>8, KeysDiffer, LineIs
    <3>6. once = AfterDisable(mid, "suspicious_port", x.parts)
          /\ twice = AfterDisable(once, "suspicious_port", x.parts)
      BY <3>4, <3>5
    <3>7. twice.valid = FALSE
      BY <3>3, <3>6, PortDisabledTwice
    <3>8. LoaderType(once)
      BY <3>3, <3>4, LineDoes DEF LineEffect
    <3>9. LoaderType(twice)
      BY <3>4, <3>8, LineDoes DEF LineEffect
    <3>10. AfterLines(twice, rest).valid => twice.valid
      BY <3>9, TextDecides
    <3>11. AfterLines(StartOf(u), u) = AfterLines(twice, rest)
      BY <1>7, <3>1, <3>4
    <3> QED
      BY <2>2, <2>3, <3>7, <3>10, <3>11
  <2>4. new.valid \in BOOLEAN
    BY <2>2 DEF LoaderType
  <2> QED
    BY <2>1, <2>3, <2>4
<1>9. ASSUME x.key # "disable_suspicious_port",
             x.key \in {DisableKey[list] : list \in Lists} \cup {"disable_rule_id"}
      PROVE  LoadFrom(u, u) = LoadFrom(t, t)
  <2>1. ~IsProfileLine(x)
    BY <1>9, KeysDiffer DEF IsProfileLine
  <2>2. (ProfilesSound(u) <=> ProfilesSound(t)) /\ SelectedProfile(u) = SelectedProfile(t)
    BY <1>3, <2>1, FirstPassOnce
  <2>3. ASSUME ProfilesSound(t) PROVE AfterLines(StartOf(t), u) = AfterLines(StartOf(t), t)
    <3>1. PICK mid : mid = AfterLines(StartOf(t), pre)
      OBVIOUS
    <3>2. LoaderType(StartOf(t))
      <4>1. t \in Seq(ConfigLine)
        OBVIOUS
      <4> QED
        BY <2>3, <4>1, LoadedIs
    <3>3. LoaderType(mid)
      BY <3>1, <3>2, TextDecides
    <3>4. PICK once : once = AfterLine(x, mid)
      OBVIOUS
    <3>5. AfterLine(x, once) = once
      <4>1. CASE x.key = "disable_rule_id"
        <5>1. \A s : AfterLine(x, s) = AfterDisableId(s, x.parts)
          BY <1>1, <4>1, LineIs
        <5>2. once = AfterDisableId(mid, x.parts)
          BY <3>4, <5>1
        <5> QED
          BY <3>3, <5>1, <5>2, IdDisabledOnce
      <4>2. ASSUME NEW list \in Lists, x.key = DisableKey[list] PROVE AfterLine(x, once) = once
        <5>1. \A s : AfterLine(x, s) = AfterDisable(s, list, x.parts)
          BY <1>1, <4>2, LineIs
        <5>2. once = AfterDisable(mid, list, x.parts)
          BY <3>4, <5>1
        <5>3. list # "suspicious_port"
          BY <1>9, <4>2, KeysDiffer
        <5>4. AfterDisable(once, list, x.parts) = once
          BY <3>3, <5>2, <5>3, DisabledOnce
        <5> QED
          BY <5>1, <5>4
      <4> QED
        BY <1>9, <4>1, <4>2
    <3> QED
      BY <1>7, <3>1, <3>4, <3>5
  <2> QED
    BY <2>2, <2>3 DEF LoadFrom, StartOf
<1> QED
  BY <1>1, <1>8, <1>9

-------------------------------------------------------------------------------
(* The invariant.                                                            *)

\* Between the opens of one start-up only an edit in place parts what the daemon read
\* from what it reads next, and nothing parts it from the file if nobody touched that.
ReadInv ==
    /\ read = [profile |-> read.profile, rules |-> read.rules, hash |-> read.hash]
    /\ phase \in {"profile", "rules"} => opened # Missing
    /\ phase = "profile" => read = Unread /\ (changes = {} => opened = path)
    /\ phase = "rules" =>
          /\ read.rules = Missing
          /\ "edit" \notin changes => read.profile = opened
          /\ changes = {} => opened = path
    /\ read.rules # Missing /\ "edit" \notin changes => read.profile = read.rules
    /\ phase = "hashing" /\ changes = {} => read.rules = path
    /\ phase = "attaching" /\ changes = {} => read.hash = read.rules

\* What the ring holds.
Records == [e : CallEvents \cup {OwnOpen}, ready : BOOLEAN, due : BOOLEAN]

\* No reservation stands before a record that is due.
Reached(s) == \A i \in DOMAIN s : s[i].due => \A k \in 1 .. i : s[k].ready

\* A record a signal has met within the poll's reach is in the ring only while the daemon
\* polls, and stays in reach.
DueInv ==
    /\ ring \in Seq(Records)
    /\ ~Polling => \A i \in DOMAIN ring : ~ring[i].due
    /\ Reached(ring)

\* Every text the file has or the daemon read is one of Edits.
FileInv ==
    /\ path \in DOMAIN Edits /\ opened \in DOMAIN Edits
    /\ read.profile \in DOMAIN Edits /\ read.rules \in DOMAIN Edits
    /\ changes \subseteq {"edit", "replace"}
    /\ detached => opened # Missing

\* The rules are what the two texts make of them, or the compiled ones.
LoadInv ==
    /\ phase = "rules" => read.profile # Missing
    /\ read.rules = Missing => rules = init_default_rules
    /\ read.rules # Missing =>
          read.profile # Missing /\ [rules |-> rules, valid |-> valid] = LoadFrom(read.profile, read.rules)
    /\ phase = "hashing" /\ read.rules # Missing => valid

\* The ring is there while the sensor is attached; a signal leaves its mark until then.
PhaseInv ==
    /\ phase \in {"down", "profile", "rules", "rejected", "hashing", "attaching", "leaving",
                  "testing", "waiting", "draining"}
    /\ Len(ring) <= RingSlots /\ (ring # <<>> => Attached)
    /\ stop => Attached \/ phase = "attaching"

\* The inductive invariant.
IInv == ReadInv /\ DueInv /\ FileInv /\ LoadInv /\ PhaseInv

-------------------------------------------------------------------------------
(* The file.                                                                 *)

\* The steps in which the daemon reads its configuration, or gives up, keep ReadInv.
LEMMA StartUpReads ==
    ASSUME ReadInv, Start \/ ReadProfile \/ ReadRules \/ HashConfig
    PROVE  ReadInv'
<1>1. CASE Start
  <2>1. read' = Unread /\ opened' = path /\ changes' = {} /\ path' = path
        /\ phase' = IF path = Missing THEN "hashing" ELSE "profile"
    BY <1>1 DEF Start
  <2> QED
    BY <2>1 DEF ReadInv, Unread
<1>2. CASE ReadProfile
  <2>1. /\ phase = "profile" /\ read' = [read EXCEPT !.profile = opened]
        /\ phase' \in {"rules", "rejected"}
        /\ opened' = opened /\ path' = path /\ changes' = changes
    BY <1>2 DEF ReadProfile, fileVars
  <2>2. read' = [profile |-> opened, rules |-> Missing, hash |-> Missing]
    BY <2>1 DEF ReadInv, Unread
  <2> QED
    BY <2>1, <2>2 DEF ReadInv
<1>3. CASE ReadRules
  <2>1. /\ phase = "rules" /\ read' = [read EXCEPT !.rules = opened]
        /\ phase' \in {"hashing", "rejected"}
        /\ path' = path /\ changes' = changes
    BY <1>3 DEF ReadRules, SecondPass
  <2>2. read' = [profile |-> read.profile, rules |-> opened, hash |-> read.hash]
    BY <2>1 DEF ReadInv
  <2> QED
    BY <2>1, <2>2 DEF ReadInv
<1>4. CASE HashConfig
  <2>1. /\ phase = "hashing" /\ read' = [read EXCEPT !.hash = path] /\ phase' = "attaching"
        /\ opened' = opened /\ path' = path /\ changes' = changes
    BY <1>4 DEF HashConfig, Hashed, fileVars
  <2>2. read' = [profile |-> read.profile, rules |-> read.rules, hash |-> path]
    BY <2>1 DEF ReadInv
  <2> QED
    BY <2>1, <2>2 DEF ReadInv
<1> QED
  BY <1>1, <1>2, <1>3, <1>4

\* Whoever edits the file leaves a mark, and an edit in place is told from a replacement.
LEMMA EditsMark ==
    ASSUME ReadInv, NEW t, EditInPlace(t) \/ Replace(t)
    PROVE  ReadInv'
<1>1. read' = read /\ phase' = phase
  BY DEF EditInPlace, Replace, loadVars
<1>2. changes' # {}
  BY DEF EditInPlace, Replace
<1>3. opened' = opened \/ opened' # Missing
  BY DEF EditInPlace, Replace
<1>4. "edit" \notin changes' => "edit" \notin changes /\ opened' = opened
  BY DEF EditInPlace, Replace
<1> QED
  BY <1>1, <1>2, <1>3, <1>4 DEF ReadInv

\* The end of the process leaves what it read, for the record only.
LEMMA GoneReadsNothing ==
    ASSUME ReadInv, Gone
    PROVE  ReadInv'
<1>1. phase' = "down" /\ read' = read /\ changes' = changes
  BY DEF Gone, loadVars
<1> QED
  BY <1>1 DEF ReadInv

\* A step after the start-up, or one that leaves the daemon where it is, reads nothing.
LEMMA OthersReadNothing ==
    ASSUME ReadInv, UNCHANGED <<path, opened, changes, read>>,
           phase' = phase \/ phase' \notin {"profile", "rules", "hashing", "attaching"}
    PROVE  ReadInv'
<1>1. path' = path /\ opened' = opened /\ changes' = changes /\ read' = read
  OBVIOUS
<1> QED
  BY <1>1 DEF ReadInv

-------------------------------------------------------------------------------
(* The ring.                                                                 *)

\* Pushing a record into the ring adds one that no signal has met, at its end.
LEMMA PushIs ==
    ASSUME NEW s \in Seq(Records), NEW e \in CallEvents \cup {OwnOpen}, NEW ready \in BOOLEAN
    PROVE  /\ Pushed(s, e, ready) \in Seq(Records)
           /\ (\A i \in DOMAIN s : ~s[i].due)
                 => \A i \in DOMAIN Pushed(s, e, ready) : ~Pushed(s, e, ready)[i].due
           /\ Reached(s) => Reached(Pushed(s, e, ready))
<1> DEFINE r == [e |-> e, ready |-> ready, due |-> FALSE]
<1>1. r \in Records /\ ~r.due
  BY DEF Records
<1>2. CASE Len(s) < RingSlots
  <2> HIDE DEF r
  <2> DEFINE u == Append(s, r)
  <2>1. Pushed(s, e, ready) = u
    BY <1>2 DEF Pushed, r
  <2>2. /\ u \in Seq(Records) /\ Len(s) \in Nat /\ DOMAIN s = 1 .. Len(s)
        /\ DOMAIN u = 1 .. Len(s) + 1 /\ u[Len(s) + 1] = r
        /\ \A i \in 1 .. Len(s) : u[i] = s[i]
    BY <1>1, AppendIs, LenProperties
  <2> HIDE DEF u
  <2>3. \A i \in DOMAIN u : u[i].due => i \in DOMAIN s /\ u[i] = s[i]
    <3> SUFFICES ASSUME NEW i \in DOMAIN u, u[i].due PROVE i \in DOMAIN s /\ u[i] = s[i]
      OBVIOUS
    <3>1. i # Len(s) + 1
      BY <1>1, <2>2
    <3> QED
      BY <2>2, <3>1
  <2>4. Reached(s) => Reached(u)
    <3> SUFFICES ASSUME Reached(s), NEW i \in DOMAIN u, u[i].due, NEW k \in 1 .. i
                 PROVE  u[k].ready
      BY DEF Reached
    <3>1. i \in DOMAIN s /\ s[i].due
      BY <2>3
    <3>2. s[k].ready
      BY <3>1 DEF Reached
    <3>3. k \in 1 .. Len(s)
      BY <2>2, <3>1
    <3> QED
      BY <2>2, <3>2, <3>3
  <2> QED
    BY <2>1, <2>2, <2>3, <2>4
<1>3. CASE ~(Len(s) < RingSlots)
  BY <1>3 DEF Pushed
<1> QED
  BY <1>2, <1>3

\* Taking the oldest record leaves the others as they are.
LEMMA TailIsReached ==
    ASSUME NEW s \in Seq(Records), s # <<>>
    PROVE  Tail(s) \in Seq(Records) /\ (Reached(s) => Reached(Tail(s)))
<1> DEFINE u == Tail(s)
<1>1. /\ u \in Seq(Records) /\ Len(s) \in Nat /\ Len(u) = Len(s) - 1 /\ Len(u) \in Nat
      /\ DOMAIN s = 1 .. Len(s) /\ DOMAIN u = 1 .. Len(u)
      /\ \A i \in 1 .. Len(u) : u[i] = s[i + 1]
  BY HeadTailProperties, LenProperties
<1> HIDE DEF u
<1>2. ASSUME Reached(s), NEW i \in DOMAIN u, u[i].due, NEW k \in 1 .. i PROVE u[k].ready
  <2>1. /\ i \in Nat /\ k \in Nat /\ k \in 1 .. Len(u) /\ i + 1 \in DOMAIN s
        /\ k + 1 \in 1 .. i + 1
    BY <1>1, <1>2
  <2>2. u[i] = s[i + 1] /\ u[k] = s[k + 1]
    BY <1>1, <1>2, <2>1
  <2> QED
    BY <1>2, <2>1, <2>2 DEF Reached
<1>3. Reached(s) => Reached(u)
  BY <1>2 DEF Reached
<1> QED
  BY <1>1, <1>3 DEF u

\* A record that is submitted leaves its fellows as they are.
LEMMA SubmitIs ==
    ASSUME NEW s \in Seq(Records), NEW j \in DOMAIN s
    PROVE  LET u == [s EXCEPT ![j].ready = TRUE] IN
           /\ u \in Seq(Records) /\ Len(u) = Len(s) /\ DOMAIN u = DOMAIN s
           /\ \A i \in DOMAIN s : (u[i].due <=> s[i].due) /\ (s[i].ready => u[i].ready)
<1> DEFINE r == [s[j] EXCEPT !.ready = TRUE]
           u == [s EXCEPT ![j] = r]
<1>1. /\ s[j] \in Records /\ \A i \in DOMAIN s : s[i] \in Records
      /\ DOMAIN s = 1 .. Len(s) /\ j \in 1 .. Len(s)
  BY LenProperties
<1>2. r \in Records /\ r.ready /\ r.due = s[j].due
  BY <1>1 DEF Records
<1> HIDE DEF r
<1>3. u \in Seq(Records) /\ Len(u) = Len(s) /\ DOMAIN u = DOMAIN s
  BY <1>1, <1>2, ExceptSeq
<1>4. \A i \in DOMAIN s : u[i] = IF i = j THEN r ELSE s[i]
  OBVIOUS
<1>5. \A i \in DOMAIN s : (u[i].due <=> s[i].due) /\ (s[i].ready => u[i].ready)
  BY <1>2, <1>4
<1>6. [s EXCEPT ![j].ready = TRUE] = u
  BY DEF r
<1> QED
  BY <1>3, <1>5, <1>6

\* A signal marks what the poll is going to hand out.
LEMMA SignalIs ==
    ASSUME NEW s \in Seq(Records)
    PROVE  LET u == [i \in DOMAIN s |-> [s[i] EXCEPT !.due = @ \/ InReach(i)]] IN
           u \in Seq(Records) /\ Len(u) = Len(s)
<1> DEFINE u == [i \in DOMAIN s |-> [s[i] EXCEPT !.due = @ \/ InReach(i)]]
<1>1. DOMAIN s = 1 .. Len(s) /\ Len(s) \in Nat /\ \A i \in 1 .. Len(s) : s[i] \in Records
  BY LenProperties
<1>2. \A i \in 1 .. Len(s) : [s[i] EXCEPT !.due = @ \/ InReach(i)] \in Records
  <2> SUFFICES ASSUME NEW i \in 1 .. Len(s)
               PROVE  [s[i] EXCEPT !.due = @ \/ InReach(i)] \in Records
    OBVIOUS
  <2>1. s[i] \in Records /\ (s[i].due \/ InReach(i)) \in BOOLEAN
    BY <1>1
  <2> QED
    BY <2>1, Zenon DEF Records
<1>3. u = [i \in 1 .. Len(s) |-> [s[i] EXCEPT !.due = @ \/ InReach(i)]]
  BY <1>1
<1>4. u \in Seq(Records) /\ Len(u) = Len(s)
  BY <1>1, <1>2, <1>3
<1> QED
  BY <1>4

\* A step keeps the ring's promise.
LEMMA RingKept ==
    ASSUME DueInv, Next \/ UNCHANGED vars
    PROVE  DueInv'
<1>1. ring \in Seq(Records) /\ DOMAIN ring = 1 .. Len(ring) /\ Len(ring) \in Nat /\ Reached(ring)
  BY LenProperties DEF DueInv
<1>2. CASE Gone
  BY <1>2 DEF Gone, DueInv, Reached
<1>3. CASE Handle
  <2>1. phase' = "draining" /\ ring # <<>>
    BY <1>3 DEF Handle, HeadBusy
  <2>2. Tail(ring) \in Seq(Records) /\ Reached(Tail(ring))
    BY <1>1, <2>1, TailIsReached
  <2>3. ring' = Tail(ring) \/ ring' = Pushed(Tail(ring), OwnOpen, TRUE)
    BY <1>3 DEF Handle
  <2>4. ring' \in Seq(Records) /\ Reached(ring')
    BY <2>2, <2>3, PushIs
  <2> QED
    BY <2>1, <2>4 DEF DueInv, Polling
<1>4. ASSUME NEW e \in CallEvents, Reserve(e) PROVE DueInv'
  <2>1. phase' = phase /\ ring' = Pushed(ring, e, FALSE)
    BY <1>4 DEF Reserve
  <2> QED
    BY <1>1, <2>1, PushIs DEF DueInv, Polling
<1>5. CASE Signal /\ ~Gone
  <2>1. /\ phase' = phase
        /\ ring' = [i \in DOMAIN ring |-> [ring[i] EXCEPT !.due = @ \/ InReach(i)]]
    BY <1>5 DEF Signal
  <2>2. ring' \in Seq(Records) /\ DOMAIN ring' = DOMAIN ring
    BY <1>1, <2>1, SignalIs
  <2>3. ASSUME NEW i \in DOMAIN ring
        PROVE  ring'[i].ready = ring[i].ready /\ (ring'[i].due <=> ring[i].due \/ InReach(i))
    <3>1. ring[i] \in Records
      BY <1>1
    <3>2. ring'[i] = [ring[i] EXCEPT !.due = @ \/ InReach(i)]
      BY <2>1
    <3> QED
      BY <3>1, <3>2 DEF Records
  <2>4. ~Polling => \A i \in DOMAIN ring : ~ring'[i].due
    BY <2>3 DEF DueInv, InReach
  <2>5. Reached(ring')
    <3> SUFFICES ASSUME NEW i \in DOMAIN ring, ring'[i].due, NEW k \in 1 .. i
                 PROVE  ring'[k].ready
      BY <2>2 DEF Reached
    <3>1. ring[k].ready
      BY <1>1, <2>3 DEF Reached, InReach
    <3>2. k \in DOMAIN ring
      BY <1>1
    <3> QED
      BY <2>3, <3>1, <3>2
  <2> QED
    BY <2>1, <2>2, <2>4, <2>5 DEF DueInv, Polling
<1>6. ASSUME NEW j \in DOMAIN ring, Submit(j) PROVE DueInv'
  <2>1. phase' = phase /\ ring' = [ring EXCEPT ![j].ready = TRUE]
    BY <1>6 DEF Submit
  <2>2. /\ ring' \in Seq(Records) /\ DOMAIN ring' = DOMAIN ring
        /\ \A i \in DOMAIN ring : (ring'[i].due <=> ring[i].due) /\ (ring[i].ready => ring'[i].ready)
    BY <1>1, <2>1, SubmitIs
  <2>3. Reached(ring')
    <3> SUFFICES ASSUME NEW i \in DOMAIN ring, ring'[i].due, NEW k \in 1 .. i
                 PROVE  ring'[k].ready
      BY <2>2 DEF Reached
    <3>1. ring[k].ready /\ k \in DOMAIN ring
      BY <1>1, <2>2 DEF Reached
    <3> QED
      BY <2>2, <3>1
  <2> QED
    BY <2>1, <2>2, <2>3 DEF DueInv, Polling
<1>7. ASSUME ring' = ring, ~Polling' => ~Polling \/ HeadBusy PROVE DueInv'
  <2>1. HeadBusy => \A i \in DOMAIN ring : ~ring[i].due
    <3> SUFFICES ASSUME HeadBusy, NEW i \in DOMAIN ring, ring[i].due PROVE FALSE
      OBVIOUS
    <3>1. 1 \in 1 .. i /\ ring # <<>>
      BY <1>1
    <3> QED
      BY <1>1, <3>1 DEF Reached, HeadBusy
  <2> QED
    BY <1>1, <1>7, <2>1 DEF DueInv
<1>8. CASE TimeOut \/ PollReturns
  BY <1>7, <1>8 DEF TimeOut, PollReturns, TimesOut, PollIsDone
<1>9. CASE Start \/ ReadProfile \/ ReadRules \/ HashConfig \/ Attach \/ TestStop \/ Wake
  BY <1>7, <1>9 DEF Start, ReadProfile, ReadRules, HashConfig, Attach, TestStop, Wake, Polling
<1>10. ASSUME NEW t, EditInPlace(t) \/ Replace(t) PROVE DueInv'
  BY <1>7, <1>10 DEF EditInPlace, Replace, Polling
<1>11. CASE UNCHANGED vars
  BY <1>7, <1>11 DEF vars, Polling
<1> QED
  BY <1>2, <1>3, <1>4, <1>5, <1>6, <1>8, <1>9, <1>10, <1>11
     DEF Next, Daemon, World, Reject, AttachFails, Leave, Kill

-------------------------------------------------------------------------------
(* The texts, the rules and the phases.                                      *)

\* A text is missing or a sequence of lines.
LEMMA TextsAre == \A t \in DOMAIN Edits : t = Missing \/ t \in Seq(ConfigLine)
BY SessionAssumption DEF ConfigLine

\* Edits make texts of texts.
LEMMA FileKept ==
    ASSUME FileInv, ReadInv, Next \/ UNCHANGED vars
    PROVE  FileInv'
<1>1. Missing \in DOMAIN Edits /\ \A t \in DOMAIN Edits : Edits[t] \subseteq DOMAIN Edits
  BY SessionAssumption
<1>2. CASE Gone
  BY <1>1, <1>2 DEF Gone, FileInv, loadVars
<1>3. CASE Start
  BY <1>1, <1>3 DEF Start, FileInv, Unread
<1>4. CASE ReadProfile
  <2>1. read' = [profile |-> opened, rules |-> read.rules, hash |-> read.hash]
    BY <1>4 DEF ReadProfile, ReadInv
  <2> QED
    BY <1>4, <2>1 DEF ReadProfile, FileInv, fileVars
<1>5. CASE ReadRules
  <2>1. read' = [profile |-> read.profile, rules |-> opened, hash |-> read.hash]
    BY <1>5 DEF ReadRules, ReadInv, SecondPass
  <2>2. opened' = Missing /\ detached' = FALSE /\ path' = path /\ changes' = changes
    BY <1>5 DEF ReadRules
  <2> QED
    BY <1>1, <2>1, <2>2 DEF FileInv
<1>6. CASE HashConfig
  <2>1. read' = [profile |-> read.profile, rules |-> read.rules, hash |-> path]
    BY <1>6 DEF HashConfig, ReadInv, Hashed
  <2> QED
    BY <1>6, <2>1 DEF HashConfig, FileInv, fileVars
<1>7. ASSUME NEW t \in Edits[path], EditInPlace(t) \/ Replace(t) PROVE FileInv'
  <2>1. t \in DOMAIN Edits
    BY <1>1 DEF FileInv
  <2>2. CASE EditInPlace(t)
    <3>1. /\ path' = t /\ t # Missing /\ changes' = changes \cup {"edit"} /\ read' = read
          /\ opened' = IF opened = Missing \/ detached THEN opened ELSE t
          /\ detached' = detached
      BY <2>2 DEF EditInPlace, loadVars
    <3>2. detached' => opened' # Missing
      BY <3>1 DEF FileInv
    <3>3. opened' \in DOMAIN Edits
      BY <2>1, <3>1 DEF FileInv
    <3> QED
      BY <2>1, <3>1, <3>2, <3>3 DEF FileInv
  <2>3. CASE Replace(t)
    <3>1. /\ path' = t /\ changes' = changes \cup {"replace"} /\ read' = read
          /\ opened' = opened
      BY <2>3 DEF Replace, loadVars
    <3>2. detached' => opened' # Missing
      BY <2>3 DEF Replace
    <3> QED
      BY <2>1, <3>1, <3>2 DEF FileInv
  <2> QED
    BY <1>7, <2>2, <2>3
<1>8. CASE UNCHANGED <<fileVars, read>>
  BY <1>8 DEF fileVars, FileInv
<1>9. CASE Attach \/ TestStop \/ Wake \/ TimeOut \/ PollReturns \/ Handle \/ UNCHANGED vars
  BY <1>8, <1>9 DEF Attach, TestStop, Wake, TimeOut, PollReturns, Handle, loadVars, vars, fileVars
<1>10. CASE \/ (Signal /\ ~Gone)
            \/ \E e \in CallEvents : Reserve(e)
            \/ \E i \in DOMAIN ring : Submit(i)
  BY <1>8, <1>10 DEF Signal, Reserve, Submit, loadVars
<1> QED
  BY <1>2, <1>3, <1>4, <1>5, <1>6, <1>7, <1>9, <1>10
     DEF Next, Daemon, World, Reject, AttachFails, Leave, Kill

\* The rules change with the texts only.
LEMMA LoadKept ==
    ASSUME LoadInv, FileInv, ReadInv, Next \/ UNCHANGED vars
    PROVE  LoadInv'
<1>1. CASE rules' = rules /\ valid' = valid /\ read' = read /\ phase' \notin {"rules", "hashing"}
  BY <1>1 DEF LoadInv
<1>2. CASE rules' = rules /\ valid' = valid /\ read' = read /\ phase' = phase
  BY <1>2 DEF LoadInv
<1>3. CASE Gone
  BY <1>1, <1>3 DEF Gone, loadVars
<1>4. CASE Start
  BY <1>4 DEF Start, LoadInv, Unread
<1>5. CASE ReadProfile
  <2>1. read' = [profile |-> opened, rules |-> Missing, hash |-> Missing]
    BY <1>5 DEF ReadProfile, ReadInv, Unread
  <2>2. opened # Missing /\ rules = init_default_rules
    BY <1>5 DEF ReadProfile, ReadInv, LoadInv, Unread
  <2> QED
    BY <1>5, <2>1, <2>2 DEF ReadProfile, LoadInv
<1>6. CASE ReadRules
  <2>1. PICK st : st = LoadFrom(read.profile, opened)
    OBVIOUS
  <2>2. /\ phase = "rules" /\ rules' = st.rules /\ valid' = st.valid
        /\ phase' = IF st.valid THEN "hashing" ELSE "rejected"
        /\ read' = [read EXCEPT !.rules = opened]
    BY <1>6, <2>1 DEF ReadRules, SecondPass
  <2>3. read' = [profile |-> read.profile, rules |-> opened, hash |-> read.hash]
    BY <2>2 DEF ReadInv
  <2>4. opened # Missing /\ read.profile # Missing
    BY <2>2 DEF ReadInv, LoadInv
  <2>5. read.profile \in Seq(ConfigLine) /\ opened \in Seq(ConfigLine)
    BY <2>4, TextsAre DEF FileInv
  <2>6. LoaderType(st)
    BY <2>1, <2>5, LoadedIs
  <2>7. [rules |-> rules', valid |-> valid'] = st
    BY <2>2, <2>6 DEF LoaderType
  <2>8. read'.profile = read.profile /\ read'.rules = opened
    BY <2>3
  <2>9. phase' # "rules" /\ (phase' = "hashing" => valid')
    BY <2>2
  <2> QED
    BY <2>1, <2>4, <2>7, <2>8, <2>9 DEF LoadInv
<1>7. CASE HashConfig
  <2>1. read' = [profile |-> read.profile, rules |-> read.rules, hash |-> path]
    BY <1>7 DEF HashConfig, ReadInv, Hashed
  <2> QED
    BY <1>7, <2>1 DEF HashConfig, LoadInv
<1>8. CASE Attach \/ TestStop \/ Wake \/ TimeOut \/ PollReturns \/ Handle
  <2>1. rules' = rules /\ valid' = valid /\ read' = read
    BY <1>8 DEF Attach, TestStop, Wake, TimeOut, PollReturns, Handle, loadVars
  <2>2. phase' \notin {"rules", "hashing"}
    BY <1>8 DEF Attach, TestStop, Wake, TimeOut, PollReturns, Handle
  <2> QED
    BY <1>1, <2>1, <2>2
<1>9. CASE \/ (Signal /\ ~Gone)
           \/ \E e \in CallEvents : Reserve(e)
           \/ \E i \in DOMAIN ring : Submit(i)
           \/ UNCHANGED vars
  BY <1>2, <1>9 DEF Signal, Reserve, Submit, vars, loadVars
<1>10. ASSUME NEW t, EditInPlace(t) \/ Replace(t) PROVE LoadInv'
  BY <1>2, <1>10 DEF EditInPlace, Replace, loadVars
<1> QED
  BY <1>3, <1>4, <1>5, <1>6, <1>7, <1>8, <1>9, <1>10
     DEF Next, Daemon, World, Reject, AttachFails, Leave, Kill

\* A record that is pushed is added, or finds the ring full.
LEMMA PushFits ==
    ASSUME NEW s \in Seq(Records), NEW e \in CallEvents \cup {OwnOpen}, NEW ready \in BOOLEAN,
           Len(s) <= RingSlots
    PROVE  Len(Pushed(s, e, ready)) <= RingSlots
<1> DEFINE r == [e |-> e, ready |-> ready, due |-> FALSE]
<1>1. r \in Records
  BY DEF Records
<1>2. Len(Append(s, r)) = Len(s) + 1 /\ Len(s) \in Nat
  <2> HIDE DEF r
  <2> QED
    BY <1>1, AppendIs
<1> QED
  BY <1>2, SessionAssumption DEF Pushed

\* The ring comes and goes with the sensor.
LEMMA PhaseKept ==
    ASSUME PhaseInv, DueInv, Next \/ UNCHANGED vars
    PROVE  PhaseInv'
<1>1. CASE Gone
  <2>1. phase' = "down" /\ ring' = <<>> /\ stop' = FALSE
    BY <1>1 DEF Gone
  <2> QED
    BY <2>1, SessionAssumption DEF PhaseInv
<1>2. CASE Start \/ ReadProfile \/ ReadRules \/ HashConfig
  <2>1. ring' = ring /\ stop' = stop /\ phase \in {"down", "profile", "rules", "hashing"}
    BY <1>2 DEF Start, ReadProfile, ReadRules, HashConfig
  <2>2. phase' \in {"profile", "rules", "rejected", "hashing", "attaching"}
    BY <1>2 DEF Start, ReadProfile, ReadRules, HashConfig
  <2>3. ring = <<>> /\ ~stop
    BY <2>1 DEF PhaseInv, Attached, Polling
  <2> QED
    BY <2>1, <2>2, <2>3 DEF PhaseInv
<1>3. CASE Attach \/ TestStop \/ Wake \/ TimeOut \/ PollReturns
  <2>1. ring' = ring /\ phase' \in {"testing", "leaving", "waiting", "draining"}
    BY <1>3 DEF Attach, TestStop, Wake, TimeOut, PollReturns
  <2> QED
    BY <2>1 DEF PhaseInv, Attached, Polling
<1>4. CASE Handle
  <2>1. phase' = phase /\ phase = "draining" /\ ring # <<>>
    BY <1>4 DEF Handle, HeadBusy
  <2>2. ring' = Tail(ring) \/ ring' = Pushed(Tail(ring), OwnOpen, TRUE)
    BY <1>4 DEF Handle
  <2>3. Tail(ring) \in Seq(Records) /\ Len(Tail(ring)) <= RingSlots
    <3>1. ring \in Seq(Records) /\ Len(ring) <= RingSlots
      BY DEF PhaseInv, DueInv
    <3>2. Tail(ring) \in Seq(Records) /\ Len(Tail(ring)) = Len(ring) - 1 /\ Len(ring) \in Nat
      BY <2>1, <3>1, HeadTailProperties, LenProperties
    <3> QED
      BY <3>1, <3>2, SessionAssumption
  <2>4. Len(ring') <= RingSlots
    BY <2>2, <2>3, PushFits
  <2> QED
    BY <2>1, <2>4 DEF PhaseInv, Attached, Polling
<1>5. ASSUME NEW e \in CallEvents, Reserve(e) PROVE PhaseInv'
  <2>1. phase' = phase /\ stop' = stop /\ Attached /\ ring' = Pushed(ring, e, FALSE)
    BY <1>5 DEF Reserve
  <2>2. Len(ring') <= RingSlots
    BY <2>1, PushFits DEF PhaseInv, DueInv
  <2> QED
    BY <2>1, <2>2 DEF PhaseInv, Attached, Polling
<1>6. CASE Signal /\ ~Gone
  <2>1. /\ phase' = phase /\ phase \notin {"down", "profile", "rules", "rejected", "hashing"}
        /\ ring' = [i \in DOMAIN ring |-> [ring[i] EXCEPT !.due = @ \/ InReach(i)]]
    BY <1>6 DEF Signal
  <2>2. Attached \/ phase = "attaching"
    BY <2>1 DEF PhaseInv, Attached, Polling
  <2>3. Len(ring') <= RingSlots /\ (ring' # <<>> => ring # <<>>)
    <3>1. ring \in Seq(Records) /\ Len(ring) <= RingSlots
      BY DEF PhaseInv, DueInv
    <3>2. ring' \in Seq(Records) /\ Len(ring') = Len(ring)
      BY <2>1, <3>1, SignalIs
    <3> QED
      BY <3>1, <3>2, EmptySeq
  <2> QED
    BY <2>1, <2>2, <2>3 DEF PhaseInv, Attached, Polling
<1>7. ASSUME NEW i \in DOMAIN ring, Submit(i) PROVE PhaseInv'
  <2>1. phase' = phase /\ stop' = stop /\ ring' = [ring EXCEPT ![i].ready = TRUE]
    BY <1>7 DEF Submit
  <2>2. ring \in Seq(Records) /\ Len(ring) <= RingSlots /\ Attached
    <3>1. ring # <<>>
      OBVIOUS
    <3> QED
      BY <3>1 DEF PhaseInv, DueInv
  <2>3. Len(ring') = Len(ring)
    BY <2>1, <2>2, SubmitIs
  <2> QED
    BY <2>1, <2>2, <2>3 DEF PhaseInv, Attached, Polling
<1>8. CASE UNCHANGED vars \/ \E t : EditInPlace(t) \/ Replace(t)
  <2>1. phase' = phase /\ ring' = ring /\ stop' = stop
    BY <1>8 DEF vars, EditInPlace, Replace
  <2> QED
    BY <2>1 DEF PhaseInv, Attached, Polling
<1> QED
  BY <1>1, <1>2, <1>3, <1>4, <1>5, <1>6, <1>8, <1>7
     DEF Next, Daemon, World, Reject, AttachFails, Leave, Kill

-------------------------------------------------------------------------------
(* What the invariant says of the rules in force.                            *)

\* The rules in force are typed.
LEMMA RulesInForce == ASSUME FileInv, LoadInv PROVE RulesType(rules)
<1>1. CASE read.rules = Missing
  <2>1. PICK v, st : v \in BOOLEAN /\ v = TRUE /\ st = [rules |-> rules, valid |-> v]
    OBVIOUS
  <2>2. LoaderType(st)
    BY <1>1, <2>1, DefaultsTyped DEF LoadInv
  <2> QED
    BY <2>1, <2>2 DEF LoaderType
<1>2. CASE read.rules # Missing
  <2>1. read.profile \in Seq(ConfigLine) /\ read.rules \in Seq(ConfigLine)
    BY <1>2, TextsAre DEF FileInv, LoadInv
  <2>2. PICK st : st = [rules |-> rules, valid |-> valid] /\ st = LoadFrom(read.profile, read.rules)
    BY <1>2 DEF LoadInv
  <2>3. LoaderType(st)
    BY <2>1, <2>2, LoadedIs
  <2> QED
    BY <2>2, <2>3 DEF LoaderType
<1> QED
  BY <1>1, <1>2

\* The last line about a value, as the property tells it.
DecidedSo(t, s, list, v) ==
    LET m == Max(LinesAbout(t, list, v))
        with == {k \in DOMAIN s : s[k].value = v}
    IN IF t[m].key # list THEN with = {}
       ELSE with # {} /\ s[Max(with)] = LineEntry(list, t[m].parts)

\* And as the lemmas tell it.
LEMMA DecidedIs ==
    ASSUME NEW t \in Seq(ConfigLine), NEW list \in Lists, NEW s \in Seq(Entries), NEW v,
           Decided(t, s, list, v), LinesAbout(t, list, v) # {}
    PROVE  DecidedSo(t, s, list, v)
<1> DEFINE A == LinesAbout(t, list, v)
           with == {k \in DOMAIN s : s[k].value = v}
<1>1. PICK m : m = Max(A)
  OBVIOUS
<1>2. m \in A /\ \A k \in A : k <= m
  <2>1. Len(t) \in Nat /\ DOMAIN t = 1 .. Len(t)
    BY LenProperties
  <2>2. A \in SUBSET (1 .. Len(t))
    BY <2>1 DEF LinesAbout
  <2> HIDE DEF A
  <2>3. A # {}
    BY DEF A
  <2> QED
    BY <1>1, <2>1, <2>2, <2>3, LastPosition
<1>3. IF t[m].key # list THEN \A k \in DOMAIN s : s[k].value # v
      ELSE LastWith(s, v, LineEntry(list, t[m].parts))
  BY <1>2 DEF Decided
<1>4. CASE t[m].key # list
  BY <1>1, <1>3, <1>4 DEF DecidedSo
<1>5. CASE t[m].key = list
  <2>1. PICK e : e = LineEntry(list, t[m].parts)
    OBVIOUS
  <2>2. e.value = v
    BY <1>2, <1>5, <2>1, MeansIs DEF LinesAbout
  <2>3. PICK k \in DOMAIN s : s[k] = e /\ \A j \in DOMAIN s : j > k => s[j].value # v
    BY <1>3, <1>5, <2>1 DEF LastWith
  <2>4. Len(s) \in Nat /\ DOMAIN s = 1 .. Len(s)
    BY LenProperties
  <2>5. k \in with /\ with \in SUBSET (1 .. Len(s))
    BY <2>2, <2>3, <2>4
  <2>6. \A j \in with : ~(j > k)
    BY <2>3
  <2>7. PICK x : x = Max(with)
    OBVIOUS
  <2>8. x \in with /\ \A j \in with : j <= x
    <3> HIDE DEF with
    <3> QED
      BY <2>4, <2>5, <2>7, LastPosition
  <2>9. x = k
    <3> HIDE DEF with
    <3> QED
      BY <2>4, <2>5, <2>6, <2>8
  <2> QED
    BY <1>1, <1>5, <2>1, <2>3, <2>5, <2>7, <2>9 DEF DecidedSo
<1> QED
  BY <1>4, <1>5

\* The last line about a rule id, as the property tells it.
LEMMA OverrideIs ==
    ASSUME NEW t \in Seq(ConfigLine), NEW override, NEW id, OverrideDecided(t, override, id),
           LinesOverriding(t, id) # {}
    PROVE  override[id] = SeverityOf[t[Max(LinesOverriding(t, id))].parts[2]]
<1> DEFINE A == LinesOverriding(t, id)
<1>1. PICK m : m = Max(A)
  OBVIOUS
<1>2. Len(t) \in Nat /\ DOMAIN t = 1 .. Len(t)
  BY LenProperties
<1>3. A \in SUBSET (1 .. Len(t)) /\ A # {}
  BY <1>2 DEF LinesOverriding
<1>4. m \in A /\ \A k \in A : k <= m
  <2> HIDE DEF A
  <2> QED
    BY <1>1, <1>2, <1>3, LastPosition
<1> QED
  BY <1>1, <1>4 DEF OverrideDecided

\* Every variable has its shape: the lists are within MAX_RULES because the rules in
\* force are typed.
LEMMA InvTypes == IInv => TypeOK
<1> SUFFICES ASSUME IInv PROVE TypeOK
  OBVIOUS
<1>1. \A list \in Lists : Len(rules.list[list]) <= MAX_RULES
  BY RulesInForce DEF IInv, RulesType
<1> QED
  BY <1>1 DEF IInv, FileInv, PhaseInv, TypeOK

\* The last line about a value decides: LoadDecides and LoadLeaves, of the text read.
LEMMA InvDecides == IInv => LastLineDecides
<1> SUFFICES ASSUME IInv, phase = "hashing", Loaded PROVE LastLineDecides
  BY DEF LastLineDecides
<1> DEFINE text == read.rules
           start == apply_profile(init_default_rules, SelectedProfile(read.profile))
<1>1. read.profile \in Seq(ConfigLine) /\ text \in Seq(ConfigLine)
  BY TextsAre DEF IInv, FileInv, LoadInv, Loaded
<1>2. PICK new : new = LoadFrom(read.profile, text) /\ new = [rules |-> rules, valid |-> valid] /\ valid
  BY DEF IInv, LoadInv, Loaded
<1>3. new.rules = rules /\ new.valid
  BY <1>2
<1>4. TextDecided(text, new)
  BY <1>1, <1>2, <1>3, LoadDecides
<1>5. RulesType(rules)
  BY RulesInForce DEF IInv
<1>6. ASSUME NEW list \in Lists, NEW i \in Naming(list)
      PROVE  LET v == Means(list, text[i])
                 with == {k \in DOMAIN rules.list[list] : rules.list[list][k].value = v}
                 line == text[Max(About(list, v))]
             IN IF line.key # list THEN with = {}
                ELSE /\ with # {}
                     /\ list \in DetectionLists =>
                            LET entry == rules.list[list][Max(with)]
                                rule == split_rule_value(list, line.parts)
                            IN entry.id = rule.id /\ entry.severity = rule.severity
  <2>1. PICK v : v = Means(list, text[i])
    OBVIOUS
  <2>2. PICK s \in Seq(Entries) : s = rules.list[list]
    BY <1>5 DEF RulesType
  <2>3. About(list, v) = LinesAbout(text, list, v)
    BY DEF About, Naming, LinesAbout
  <2>4. i \in LinesAbout(text, list, v)
    BY <2>1 DEF Naming, LinesAbout
  <2>5. Decided(text, s, list, v)
    BY <1>3, <1>4, <2>2 DEF TextDecided
  <2>6. PICK m, with : m = Max(LinesAbout(text, list, v)) /\ with = {k \in DOMAIN s : s[k].value = v}
    OBVIOUS
  <2>7. IF text[m].key # list THEN with = {}
        ELSE with # {} /\ s[Max(with)] = LineEntry(list, text[m].parts)
    <3>1. LinesAbout(text, list, v) # {}
      BY <2>4
    <3>2. PICK t \in Seq(ConfigLine) : t = text
      BY <1>1
    <3>3. LinesAbout(t, list, v) # {} /\ Decided(t, s, list, v)
      BY <2>5, <3>1, <3>2
    <3> HIDE DEF text
    <3>4. DecidedSo(t, s, list, v)
      BY <3>3, DecidedIs, Zenon
    <3> QED
      BY <2>6, <3>2, <3>4 DEF DecidedSo
  <2>8. list \in DetectionLists =>
           /\ LineEntry(list, text[m].parts).id = split_rule_value(list, text[m].parts).id
           /\ LineEntry(list, text[m].parts).severity = split_rule_value(list, text[m].parts).severity
    BY DEF LineEntry, RuleEntry, Added
  <2> QED
    BY <2>1, <2>2, <2>3, <2>6, <2>7, <2>8
<1>7. ASSUME NEW list \in Lists
      PROVE  Removed(rules.list[list], {Means(list, text[i]) : i \in Naming(list)}) =
             Removed(start.list[list], {Means(list, text[i]) : i \in Naming(list)})
  <2>1. PICK V : V = {Means(list, text[i]) : i \in Naming(list)}
    OBVIOUS
  <2>2. \A i \in DOMAIN text : text[i].parts # <<>> /\ text[i].key \in {list, DisableKey[list]} =>
                                  Means(list, text[i]) \in V
    BY <2>1 DEF Naming
  <2>3. Removed(new.rules.list[list], V) = Removed(start.list[list], V)
    <3>1. PICK p \in Seq(ConfigLine), t \in Seq(ConfigLine) : p = read.profile /\ t = text
      BY <1>1
    <3>2. new = LoadFrom(p, t) /\ new.valid
      BY <1>2, <1>3, <3>1
    <3>3. NamesOnly(t, list, V)
      BY <2>2, <3>1 DEF NamesOnly
    <3>4. Removed(new.rules.list[list], V) =
             Removed(apply_profile(init_default_rules, SelectedProfile(p)).list[list], V)
      BY <3>2, <3>3, LoadLeaves
    <3> QED
      BY <3>1, <3>4
  <2> QED
    BY <1>3, <2>1, <2>3
<1> DEFINE Overriding == {i \in DOMAIN text : text[i].key = "rule_severity" /\ text[i].parts # <<>>}
<1>8. ASSUME NEW i \in Overriding
      PROVE  LET same == {k \in Overriding : text[k].parts[1] = text[i].parts[1]}
             IN rules.override[text[i].parts[1]] = SeverityOf[text[Max(same)].parts[2]]
  <2>1. PICK id : id = text[i].parts[1]
    OBVIOUS
  <2>2. {k \in Overriding : text[k].parts[1] = id} = LinesOverriding(text, id)
    BY DEF LinesOverriding
  <2>3. LinesOverriding(text, id) # {}
    BY <2>1 DEF LinesOverriding
  <2>4. OverrideDecided(text, rules.override, id)
    BY <1>3, <1>4 DEF TextDecided
  <2>5. rules.override[id] = SeverityOf[text[Max(LinesOverriding(text, id))].parts[2]]
    <3> HIDE DEF text
    <3> QED
      BY <1>1, <2>3, <2>4, OverrideIs
  <2> QED
    BY <2>1, <2>2, <2>5
<1> QED
  BY <1>6, <1>7, <1>8 DEF LastLineDecides

\* Where the profile line stands makes no difference: both texts have the same profile
\* lines and the same other lines.
LEMMA InvProfile == IInv => ProfileBeforeLines
<1> SUFFICES ASSUME IInv, phase \in {"hashing", "rejected"}, LoadedWhole PROVE ProfileBeforeLines
  BY DEF ProfileBeforeLines
<1>1. PICK t : t = read.rules
  OBVIOUS
<1>2. t \in Seq(ConfigLine) /\ LoadFrom(t, t) = [rules |-> rules, valid |-> valid]
  <2>1. read.rules # Missing /\ read.profile = t
    BY <1>1 DEF LoadedWhole, Loaded
  <2>2. t \in Seq(ConfigLine)
    BY <1>1, <2>1, TextsAre DEF IInv, FileInv
  <2> QED
    BY <1>1, <2>1, <2>2 DEF IInv, LoadInv
<1> DEFINE PL == ProfileLines
           OL == ConfigLine \ ProfileLines
           named == {line \in ToSet(t) : IsProfileLine(line)}
<1>3. DOMAIN t = 1 .. Len(t) /\ \A i \in DOMAIN t : t[i] \in ConfigLine /\ t[i] \in ToSet(t)
  BY <1>2, LenProperties DEF ToSet
<1>4. PICK p : p = Those(t, PL)
  OBVIOUS
<1>5. PICK o : o = Those(t, OL)
  OBVIOUS
<1>6. Those(t, named) = p
  <2>1. \A i \in DOMAIN t : t[i] \in named <=> t[i] \in PL
    BY <1>3 DEF ProfileLines
  <2> HIDE DEF named, PL
  <2> QED
    BY <1>2, <1>4, <2>1, ThoseSame
<1>7. Those(t, ToSet(t) \ named) = o
  <2>1. \A i \in DOMAIN t : t[i] \in ToSet(t) \ named <=> t[i] \in OL
    BY <1>3 DEF ProfileLines
  <2>2. PICK R : R = ToSet(t) \ named
    OBVIOUS
  <2> HIDE DEF named, OL
  <2>3. \A i \in DOMAIN t : t[i] \in R <=> t[i] \in OL
    BY <2>1, <2>2
  <2>4. Those(t, R) = Those(t, OL)
    BY <1>2, <2>3, ThoseSame
  <2> QED
    BY <1>5, <2>2, <2>4
<1>8. p \in Seq(ConfigLine) /\ \A i \in DOMAIN p : p[i] \in PL /\ p[i] \notin OL
  <2>1. p \in Seq(ConfigLine \cap PL)
    BY <1>2, <1>4, ThoseType
  <2>2. p \in Seq(ConfigLine)
    BY <2>1, SeqMonotonic
  <2>3. \A i \in DOMAIN p : p[i] \in ConfigLine \cap PL
    BY <2>1, LenProperties
  <2> QED
    BY <2>2, <2>3
<1>9. o \in Seq(ConfigLine) /\ \A i \in DOMAIN o : o[i] \in OL /\ o[i] \notin PL
  <2>1. o \in Seq(ConfigLine \cap OL)
    <3> HIDE DEF OL
    <3> QED
      BY <1>2, <1>5, ThoseType
  <2>2. o \in Seq(ConfigLine)
    BY <2>1, SeqMonotonic
  <2>3. \A i \in DOMAIN o : o[i] \in ConfigLine \cap OL
    <3> HIDE DEF OL
    <3> QED
      BY <2>1, LenProperties
  <2> QED
    BY <2>2, <2>3
<1> HIDE DEF PL, OL, named
<1>10. Those(p, PL) = p /\ Those(o, OL) = o
  BY <1>8, <1>9, ThoseAll
<1>11. Those(p, OL) = <<>> /\ Those(o, PL) = <<>>
  BY <1>8, <1>9, ThoseNone
<1>12. ASSUME NEW u \in Seq(ConfigLine), Those(u, PL) = p, Those(u, OL) = o
       PROVE  LoadFrom(u, u) = LoadFrom(t, t)
  BY <1>2, <1>4, <1>5, <1>12, LoadedAlike DEF PL, OL
<1>13. p \o <<>> = p /\ <<>> \o p = p /\ o \o <<>> = o /\ <<>> \o o = o
  BY <1>8, <1>9, ConcatEmptySeq
<1>14. LoadFrom(p \o o, p \o o) = LoadFrom(t, t)
  <2>1. PICK u \in Seq(ConfigLine) : u = p \o o
    BY <1>8, <1>9, ConcatProperties
  <2>2. Those(u, PL) = Those(p, PL) \o Those(o, PL) /\ Those(u, OL) = Those(p, OL) \o Those(o, OL)
    BY <1>8, <1>9, <2>1, ThoseConcat
  <2>3. Those(u, PL) = p \o <<>> /\ Those(u, OL) = <<>> \o o
    BY <1>10, <1>11, <2>2, Zenon
  <2>4. Those(u, PL) = p /\ Those(u, OL) = o
    BY <1>13, <2>3, Zenon
  <2> QED
    BY <1>12, <2>1, <2>4
<1>15. LoadFrom(o \o p, o \o p) = LoadFrom(t, t)
  <2>1. PICK u \in Seq(ConfigLine) : u = o \o p
    BY <1>8, <1>9, ConcatProperties
  <2>2. Those(u, PL) = Those(o, PL) \o Those(p, PL) /\ Those(u, OL) = Those(o, OL) \o Those(p, OL)
    BY <1>8, <1>9, <2>1, ThoseConcat
  <2>3. Those(u, PL) = <<>> \o p /\ Those(u, OL) = o \o <<>>
    BY <1>10, <1>11, <2>2, Zenon
  <2>4. Those(u, PL) = p /\ Those(u, OL) = o
    BY <1>13, <2>3, Zenon
  <2> QED
    BY <1>12, <2>1, <2>4
<1> QED
  BY <1>1, <1>2, <1>6, <1>7, <1>14, <1>15 DEF ProfileBeforeLines, named

\* The profiles rank: LoadRanks, of the text read.
LEMMA InvRank == IInv => ProfilesRank
<1> SUFFICES ASSUME IInv, phase = "hashing", Loaded PROVE ProfilesRank
  BY DEF ProfilesRank
<1>1. PICK t : t = read.rules
  OBVIOUS
<1>2. t \in Seq(ConfigLine)
  BY <1>1, TextsAre DEF Loaded, IInv, FileInv
<1> DEFINE Under(name) == LoadFrom(<<[key |-> "profile", parts |-> <<name>>]>>, t)
           load == [name \in Profiles |-> Under(name)]
           policy == [name \in Profiles |-> Policy(load[name].rules)]
           NotAbove(name, stricter, s) ==
               (load[name].valid /\ load[stricter].valid) =>
                   evaluate_event(policy[name], s.e, s.c, s.f).severity
                       <= evaluate_event(policy[stricter], s.e, s.c, s.f).severity
           StartsShell(e) ==
               e.type = "EXEC" /\ \E shell \in {"bash", "sh"} :
                                       e.target \in Hits("suspicious_exec_exact", <<shell>>)
<1>3. ASSUME NEW p, NEW q, NEW X, Ladder(p, q, X), NEW s \in Situations,
             s.e.type = "EXEC" => \A v \in X : s.e.target \notin Hits("suspicious_exec_exact", v)
      PROVE  NotAbove(p, q, s)
  <2>1. PICK a, b : a = Under(p) /\ b = Under(q)
    OBVIOUS
  <2>2. p \in Profiles /\ q \in Profiles
    BY <1>3, LadderProfiles
  <2>3. load[p] = a /\ load[q] = b /\ policy[p] = Policy(a.rules) /\ policy[q] = Policy(b.rules)
    BY <2>1, <2>2
  <2>4. PICK e, c, f : e = s.e /\ c = s.c /\ f = s.f
    OBVIOUS
  <2>5. IsEvent(e)
    BY <2>4, SessionAssumption
  <2>6. ASSUME a.valid, b.valid
        PROVE  evaluate_event(Policy(a.rules), e, c, f).severity
                  <= evaluate_event(Policy(b.rules), e, c, f).severity
    BY <1>2, <1>3, <2>1, <2>4, <2>5, <2>6, LoadRanks
  <2> HIDE DEF Under, load, policy
  <2> QED
    BY <2>3, <2>4, <2>6
<1>4. ASSUME NEW s \in Situations
      PROVE  /\ NotAbove("developer-workstation", "baseline", s)
             /\ NotAbove("baseline", "server", s)
             /\ ~StartsShell(s.e) => NotAbove("baseline", "high-signal", s)
  <2>1. PICK X : X = {}
    OBVIOUS
  <2>2. Ladder("developer-workstation", "baseline", X) /\ Ladder("baseline", "server", X)
    BY <2>1 DEF Ladder
  <2>3. PICK Y : Y = {<<w>> : w \in {"bash", "sh"}}
    OBVIOUS
  <2>4. Ladder("baseline", "high-signal", Y)
    BY <2>3 DEF Ladder
  <2>5. ASSUME ~StartsShell(s.e), s.e.type = "EXEC"
        PROVE  \A v \in Y : s.e.target \notin Hits("suspicious_exec_exact", v)
    BY <2>3, <2>5
  <2> HIDE DEF NotAbove, StartsShell
  <2> QED
    BY <1>3, <2>1, <2>2, <2>4, <2>5
<1> QED
  BY <1>1, <1>4 DEF ProfilesRank

\* Saying that something is disabled a second time: TwiceIs, of the text read.
LEMMA InvTwice == IInv => DisablingTwice
<1> SUFFICES ASSUME IInv, phase \in {"hashing", "rejected"}, LoadedWhole PROVE DisablingTwice
  BY DEF DisablingTwice
<1>1. PICK t : t = read.rules
  OBVIOUS
<1>2. t \in Seq(ConfigLine) /\ LoadFrom(t, t) = [rules |-> rules, valid |-> valid]
  <2>1. read.rules # Missing /\ read.profile = t
    BY <1>1 DEF LoadedWhole, Loaded
  <2>2. t \in Seq(ConfigLine)
    BY <1>1, <2>1, TextsAre DEF IInv, FileInv
  <2> QED
    BY <1>1, <2>1, <2>2 DEF IInv, LoadInv
<1>3. ASSUME NEW i \in {k \in DOMAIN t : t[k].parts # <<>>}
      PROVE  LET again == InsertAt(t, i, t[i])
             IN IF t[i].key = "disable_suspicious_port" THEN ~LoadFrom(again, again).valid
                ELSE t[i].key \in {DisableKey[list] : list \in Lists} \cup {"disable_rule_id"} =>
                        LoadFrom(again, again) = [rules |-> rules, valid |-> valid]
  <2>1. PICK u : u = InsertAt(t, i, t[i])
    OBVIOUS
  <2>2. i \in DOMAIN t /\ t[i].parts # <<>>
    OBVIOUS
  <2>3. t[i].key = "disable_suspicious_port" => LoadFrom(u, u).valid = FALSE
    BY <1>2, <2>1, <2>2, TwiceIs
  <2>4. t[i].key # "disable_suspicious_port"
        /\ t[i].key \in {DisableKey[list] : list \in Lists} \cup {"disable_rule_id"}
        => LoadFrom(u, u) = LoadFrom(t, t)
    BY <1>2, <2>1, <2>2, TwiceIs
  <2> QED
    BY <1>2, <2>1, <2>3, <2>4
<1> QED
  BY <1>1, <1>3 DEF DisablingTwice

-------------------------------------------------------------------------------
(* The invariant is inductive.                                               *)

\* Before the daemon starts it has read nothing and has the compiled rules.
LEMMA InitInv == Init => IInv
<1> SUFFICES ASSUME Init PROVE IInv
  OBVIOUS
<1>1. /\ path \in DOMAIN Edits /\ Missing \in DOMAIN Edits
      /\ RingSlots \in Nat
  <2>1. PICK w \in Workloads : path = w.text
    BY DEF Init
  <2> QED
    BY <2>1, SessionAssumption
<1>2. ReadInv
  BY DEF Init, ReadInv, Unread
<1>3. FileInv
  BY <1>1 DEF Init, FileInv, Unread
<1>4. LoadInv
  BY DEF Init, LoadInv, Unread
<1>5. PhaseInv
  <2>1. phase = "down" /\ ring = <<>> /\ ~stop
    BY DEF Init
  <2>2. Len(<<>>) <= RingSlots
    BY <1>1
  <2> QED
    BY <2>1, <2>2 DEF PhaseInv
<1>6. DueInv
  <2>1. ring = <<>> /\ <<>> \in Seq(Records) /\ DOMAIN <<>> = {}
    BY EmptySeq DEF Init
  <2> QED
    BY <2>1 DEF DueInv, Reached
<1> QED
  BY <1>2, <1>3, <1>4, <1>5, <1>6 DEF IInv

\* Every step of the daemon and of everybody else keeps the invariant.
LEMMA StepInv == IInv /\ [Next]_vars => IInv'
<1> SUFFICES ASSUME IInv, Next \/ UNCHANGED vars PROVE ReadInv'
  BY RingKept, FileKept, LoadKept, PhaseKept DEF IInv
<1>1. ReadInv
  BY DEF IInv
<1>2. CASE Start \/ ReadProfile \/ ReadRules \/ HashConfig
  BY <1>1, <1>2, StartUpReads
<1>3. ASSUME NEW t, EditInPlace(t) \/ Replace(t) PROVE ReadInv'
  BY <1>1, <1>3, EditsMark
<1>4. CASE Gone
  BY <1>1, <1>4, GoneReadsNothing
<1>5. CASE Attach
  <2>1. UNCHANGED <<path, opened, changes, read>> /\ phase' = "testing"
    BY <1>5 DEF Attach, fileVars, loadVars
  <2> QED
    BY <1>1, <2>1, OthersReadNothing
<1>6. CASE TestStop \/ Wake \/ TimeOut \/ PollReturns \/ Handle
  <2>1. UNCHANGED <<path, opened, changes, read>>
    BY <1>6 DEF TestStop, Wake, TimeOut, PollReturns, Handle, fileVars, loadVars
  <2>2. phase' \notin {"profile", "rules", "hashing", "attaching"}
    BY <1>6 DEF TestStop, Wake, TimeOut, PollReturns, Handle
  <2> QED
    BY <1>1, <2>1, <2>2, OthersReadNothing
<1>7. ASSUME \/ (Signal /\ ~Gone)
             \/ \E e \in CallEvents : Reserve(e)
             \/ \E i \in DOMAIN ring : Submit(i)
             \/ UNCHANGED vars
      PROVE  ReadInv'
  <2>1. UNCHANGED <<path, opened, changes, read>> /\ phase' = phase
    BY <1>7 DEF Signal, Reserve, Submit, vars, fileVars, loadVars
  <2> QED
    BY <1>1, <2>1, OthersReadNothing
<1> QED
  BY <1>2, <1>3, <1>4, <1>5, <1>6, <1>7
     DEF Next, Daemon, World, Reject, AttachFails, Leave, Kill

-------------------------------------------------------------------------------
(* The theorems.                                                             *)

\* Every reachable state satisfies the inductive invariant.
THEOREM Invariant == Spec => []IInv
<1> QED
  BY InitInv, StepInv, PTL DEF Spec

\* Every variable keeps its shape, no list outgrows MAX_RULES, and neither records nor a
\* stop signal outlive the sensor (add_rule_entry, add_list_entry, main's cleanup).
THEOREM TypeCorrect == Spec => []TypeOK
<1> QED
  BY InvTypes, Invariant, PTL

\* The rules in force are at every moment a policy the evaluation can work with, whatever
\* the text said: what load_rules_file leaves in struct edr_rules, sound or not, is what
\* the theorems about evaluate_event assume of it.
THEOREM LoadedIsPolicy == Spec => []IsPolicy(Policy(rules))
<1>1. IInv => IsPolicy(Policy(rules))
  BY RulesInForce, TypedIsPolicy DEF IInv
<1> QED
  BY <1>1, Invariant, PTL

\* In an accepted configuration the last line about a value decides whether the list has
\* it and with which id and severity, a value no line is about is as the profile left it,
\* and the last line about a rule id decides its severity (the add, remove and override
\* functions of the second pass, in any order and any number).
THEOREM LastLineWins == Spec => []LastLineDecides
<1> QED
  BY InvDecides, Invariant, PTL

\* Where the profile line stands makes no difference to what is loaded, or to whether it
\* is (select_profile_from_file before the second pass).
THEOREM ProfileFirst == Spec => []ProfileBeforeLines
<1> QED
  BY InvProfile, Invariant, PTL

\* The profiles rank as they are described, whatever lines the file holds: no event is
\* reported as less severe under a stricter one, but the start of the two shells that
\* high-signal takes off its list (apply_profile).
THEOREM ProfilesInOrder == Spec => []ProfilesRank
<1> QED
  BY InvRank, Invariant, PTL

\* Saying a second time that something is disabled changes nothing, except for a port,
\* where remove_port_rule fails and the configuration is refused.
THEOREM DisabledTwice == Spec => []DisablingTwice
<1> QED
  BY InvTwice, Invariant, PTL

\* A configuration replaced by renaming is read whole, and its label names it if nobody
\* touched the file (the three opens of main and select_profile_from_file's fseek).
THEOREM ReplacedIsReadWhole == Spec => []RenameNeverMixes
<1>1. IInv => RenameNeverMixes
  BY DEF IInv, ReadInv, RenameNeverMixes, Loaded
<1> QED
  BY <1>1, Invariant, PTL

\* A stop signal that meets the poll costs no record that is submitted and stands behind
\* no reservation (while (!stop) and ring_buffer__poll).
THEOREM StopCostsNothing == Spec => []StopDrainsTheRing
<1>1. IInv => StopDrainsTheRing
  BY DEF IInv, DueInv, StopDrainsTheRing, Polling
<1> QED
  BY <1>1, Invariant, PTL
===============================================================================
