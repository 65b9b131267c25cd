----------------------------- MODULE JobsProofs -----------------------------
(***************************************************************************)
(* What holds of the bounded jobs of the hub for any sessions, pages and   *)
(* bounds: the counts of Rollup, and the receipts of Reindex.              *)
(*                                                                         *)
(* The rollup first: the counts of a page are those of a stretch of a      *)
(* transcript, stretches add up, and the commit of a page that was read    *)
(* from the row as it stands moves the counts by its stretch.              *)
(***************************************************************************)
EXTENDS Rollup, Reindex, FiniteSetTheorems, SequenceTheorems, WellFoundedInduction, TLAPS

(* A set of naturals that is not empty has a least element.                 *)
LEMMA LeastNatural ==
  ASSUME NEW X, X \subseteq Nat, X # {}
  PROVE  \E m \in X : \A k \in X : m <= k
<1>1. PICK n \in X : TRUE
  OBVIOUS
<1> DEFINE T == {1..k : k \in {j \in X : j <= n}}
<1>2. T \subseteq FiniteSubsetsOf(1..n) /\ T # {}
  <2>1. ASSUME NEW k \in X, k <= n PROVE 1..k \in FiniteSubsetsOf(1..n)
    <3>1. IsFiniteSet(1..k)
      BY FS_Interval
    <3>2. 1..k \subseteq 1..n
      BY <2>1, <1>1
    <3> QED  BY <3>1, <3>2 DEF FiniteSubsetsOf
  <2>2. 1..n \in T
    BY <1>1
  <2> QED  BY <2>1, <2>2
<1>3. PICK U \in T : \A V \in T : <<V, U>> \notin StrictSubsetOrdering(1..n)
  <2> HIDE DEF T
  <2> QED  BY <1>2, WFMin, FS_StrictSubsetOrderingWellFounded
<1>4. PICK m \in X : m <= n /\ U = 1..m
  BY <1>3
<1>5. ASSUME NEW k \in X, k < m PROVE FALSE
  <2>1. 1..k \in T
    BY <1>1, <1>4, <1>5
  <2>2. 1..k \subseteq 1..m /\ m \in 1..m /\ m \notin 1..k
    BY <1>4, <1>5
  <2>3. 1..k \subseteq 1..n /\ 1..m \subseteq 1..n
    BY <1>1, <1>4, <1>5
  <2> QED  BY <1>3, <1>4, <2>1, <2>2, <2>3 DEF StrictSubsetOrdering
<1>6. \A k \in X : m <= k
  BY <1>4, <1>5
<1> QED  BY <1>4, <1>6

-----------------------------------------------------------------------------
(* Of a transcript: where a turn opens, its day, a call that was there, and *)
(* what is carried from one page to the next.                               *)
OpensAt(bl, i) == \A k \in 1..(i - 1) : bl[k].turn # bl[i].turn

Opener(bl, i) == CHOOSE j \in 1..i : bl[j].turn = bl[i].turn /\ OpensAt(bl, j)

DayAt(bl, i) == bl[Opener(bl, i)].day

RepeatsAt(bl, i) == bl[i].call # NoCall /\ \E j \in 1..(i - 1) : bl[j].call = bl[i].call

CarryAt(bl, n) == IF n = 0 THEN NoTurn ELSE [turn |-> bl[n].turn, day |-> DayAt(bl, n)]

CallsTo(bl, n) == {bl[i].call : i \in 1..n} \ {NoCall}

(* The counts of its blocks behind n up to m.                               *)
Tally(bl, n, m) ==
  [d \in Days |->
     [turns |-> Cardinality({i \in 1..(m - n) : DayAt(bl, n + i) = d /\ OpensAt(bl, n + i)}),
      calls |-> Cardinality({i \in 1..(m - n) : DayAt(bl, n + i) = d}),
      repeats |-> Cardinality({i \in 1..(m - n) : DayAt(bl, n + i) = d /\ RepeatsAt(bl, n + i)})]]

(* A page holds the blocks behind n up to m.                                *)
Stretch(page, bl, n, m) == DOMAIN page = 1..(m - n) /\ \A i \in 1..(m - n) : page[i] = bl[n + i]

LEMMA OpenerOpens ==
  ASSUME NEW bl, IsTranscript(bl), NEW i \in DOMAIN bl
  PROVE  /\ Opener(bl, i) \in 1..i /\ bl[Opener(bl, i)].turn = bl[i].turn /\ OpensAt(bl, Opener(bl, i))
         /\ \A j \in 1..i : bl[j].turn = bl[i].turn /\ OpensAt(bl, j) => j = Opener(bl, i)
<1>1. DOMAIN bl = 1..Len(bl) /\ Len(bl) \in Nat /\ i \in 1..Len(bl)
  BY DEF IsTranscript
<1> DEFINE X == {j \in 1..i : bl[j].turn = bl[i].turn}
<1>2. X \subseteq Nat /\ X # {}
  BY <1>1
<1>3. PICK m \in X : \A k \in X : m <= k
  <2> HIDE DEF X
  <2> QED  BY <1>2, LeastNatural
<1>4. m \in 1..i /\ bl[m].turn = bl[i].turn /\ OpensAt(bl, m)
  BY <1>1, <1>3 DEF OpensAt
<1>5. Opener(bl, i) \in 1..i /\ bl[Opener(bl, i)].turn = bl[i].turn /\ OpensAt(bl, Opener(bl, i))
  BY <1>4, Zenon DEF Opener
<1>6. ASSUME NEW j \in 1..i, bl[j].turn = bl[i].turn, OpensAt(bl, j) PROVE j = Opener(bl, i)
  BY <1>1, <1>5, <1>6 DEF OpensAt
<1> QED  BY <1>5, <1>6

(* Blocks of one turn have one opener.                                      *)
LEMMA TurnHasOneOpener ==
  ASSUME NEW bl, IsTranscript(bl), NEW i \in DOMAIN bl, NEW k \in DOMAIN bl, bl[i].turn = bl[k].turn
  PROVE  Opener(bl, i) = Opener(bl, k)
<1>1. DOMAIN bl = 1..Len(bl) /\ Len(bl) \in Nat
  BY DEF IsTranscript
<1>2. /\ Opener(bl, i) \in 1..i /\ bl[Opener(bl, i)].turn = bl[i].turn /\ OpensAt(bl, Opener(bl, i))
      /\ Opener(bl, k) \in 1..k /\ bl[Opener(bl, k)].turn = bl[k].turn /\ OpensAt(bl, Opener(bl, k))
  BY OpenerOpens
<1> QED  BY <1>1, <1>2 DEF OpensAt

-----------------------------------------------------------------------------
(* A page, with what is carried to it, counts as its place in the           *)
(* transcript says.                                                         *)
LEMMA PageOpens ==
  ASSUME NEW bl, IsTranscript(bl), NEW m \in 0..Len(bl), NEW n \in 0..m, NEW page,
         Stretch(page, bl, n, m), NEW i \in 1..(m - n)
  PROVE  Opens(page, CarryAt(bl, n), i) <=> OpensAt(bl, n + i)
<1> USE DEF Stretch
<1>1. DOMAIN bl = 1..Len(bl) /\ Len(bl) \in Nat /\ m \in Nat /\ n \in Nat /\ n <= m /\ m <= Len(bl)
  BY DEF IsTranscript
<1>2. i \in Nat /\ n + i \in DOMAIN bl /\ page[i].turn = bl[n + i].turn
  BY <1>1
<1>3. \A j \in 1..(i - 1) : page[j].turn = bl[n + j].turn /\ n + j \in 1..(n + i - 1)
  BY <1>1, <1>2
<1>0. \A x \in DOMAIN bl, y \in DOMAIN bl : bl[x].turn \in Nat /\ (x <= y => bl[x].turn <= bl[y].turn)
  <2>1. \A x \in DOMAIN bl : bl[x].turn \in Nat
    BY DEF IsTranscript
  <2>2. \A x \in DOMAIN bl, y \in DOMAIN bl : x < y => bl[x].turn <= bl[y].turn
    BY DEF IsTranscript
  <2>3. \A x \in DOMAIN bl, y \in DOMAIN bl : x <= y => x = y \/ x < y
    BY <1>1
  <2> QED  BY <2>1, <2>2, <2>3
<1>4. CASE n = 0
  BY <1>1, <1>2, <1>3, <1>4 DEF Opens, OpensAt, CarryAt, NoTurn, IsTranscript
<1>5. CASE n # 0
  <2>1. CarryAt(bl, n).turn = bl[n].turn /\ n \in DOMAIN bl
    BY <1>1, <1>5 DEF CarryAt
  <2>2. ASSUME OpensAt(bl, n + i) PROVE Opens(page, CarryAt(bl, n), i)
    BY <1>1, <1>2, <1>3, <1>5, <2>1, <2>2 DEF OpensAt, Opens
  <2>3. ASSUME Opens(page, CarryAt(bl, n), i), NEW k \in 1..(n + i - 1), bl[k].turn = bl[n + i].turn
        PROVE  FALSE
    <3>1. CASE k > n
      <4>1. k - n \in 1..(i - 1) /\ n + (k - n) = k
        BY <1>1, <1>2, <3>1
      <4>2. page[k - n].turn = bl[k].turn
        BY <1>3, <4>1
      <4> QED  BY <1>2, <2>3, <4>1, <4>2 DEF Opens
    <3>2. CASE k <= n
      <4>1. k \in DOMAIN bl /\ k <= n /\ n <= n + i
        BY <1>1, <1>2, <2>1, <3>2
      <4>2. bl[k].turn <= bl[n].turn /\ bl[n].turn <= bl[n + i].turn /\ bl[k].turn \in Nat /\ bl[n].turn \in Nat
        BY <1>0, <1>2, <2>1, <4>1
      <4>3. bl[n].turn = bl[n + i].turn
        BY <1>0, <1>2, <2>3, <4>2
      <4> QED  BY <1>2, <2>1, <2>3, <4>3 DEF Opens
    <3>3. k \in Nat /\ n \in Nat
      BY <1>1, <1>2
    <3> QED  BY <3>1, <3>2, <3>3
  <2>4. ASSUME Opens(page, CarryAt(bl, n), i) PROVE OpensAt(bl, n + i)
    BY <2>3, <2>4 DEF OpensAt
  <2> QED  BY <2>2, <2>4
<1> QED  BY <1>4, <1>5

LEMMA PageDays ==
  ASSUME NEW bl, IsTranscript(bl), NEW m \in 0..Len(bl), NEW n \in 0..m, NEW page,
         Stretch(page, bl, n, m), NEW i \in 1..(m - n)
  PROVE  DayOf(page, CarryAt(bl, n), i) = DayAt(bl, n + i)
<1> USE DEF Stretch
<1> DEFINE carry == CarryAt(bl, n)
           o == Opener(bl, n + i)
<1>1. DOMAIN bl = 1..Len(bl) /\ Len(bl) \in Nat /\ m \in Nat /\ n \in Nat /\ n <= m /\ m <= Len(bl)
  BY DEF IsTranscript
<1>2. i \in Nat /\ n + i \in DOMAIN bl /\ page[i].turn = bl[n + i].turn /\ bl[n + i].turn # 0
  BY <1>1 DEF IsTranscript
<1>3. o \in 1..(n + i) /\ bl[o].turn = bl[n + i].turn /\ OpensAt(bl, o)
  BY <1>2, OpenerOpens
<1>4. CASE page[i].turn = carry.turn
  <2>1. n # 0 /\ carry = [turn |-> bl[n].turn, day |-> DayAt(bl, n)] /\ n \in DOMAIN bl
    BY <1>1, <1>2, <1>4 DEF CarryAt, NoTurn
  <2>2. Opener(bl, n) = o
    BY <1>2, <1>4, <2>1, TurnHasOneOpener
  <2> QED  BY <1>4, <2>1, <2>2 DEF DayOf, DayAt
<1>5. CASE page[i].turn # carry.turn
  <2> DEFINE IsIt(j) == page[j].turn = page[i].turn /\ Opens(page, carry, j)
  <2>1. o > n
    <3>1. ASSUME o <= n PROVE FALSE
      <4>1. n \in DOMAIN bl /\ o \in DOMAIN bl /\ n # 0 /\ carry.turn = bl[n].turn
        BY <1>1, <1>3, <3>1 DEF CarryAt
      <4>2. o = n \/ o < n
        BY <1>1, <1>3, <3>1
      <4>3. bl[o].turn <= bl[n].turn /\ bl[n].turn <= bl[n + i].turn
        <5>1. n < n + i
          BY <1>1, <1>2
        <5>2. \A x \in DOMAIN bl : bl[x].turn \in Nat
          BY DEF IsTranscript
        <5>3. \A x \in DOMAIN bl, y \in DOMAIN bl : x < y => bl[x].turn <= bl[y].turn
          BY DEF IsTranscript
        <5> QED  BY <1>2, <4>1, <4>2, <5>1, <5>2, <5>3
      <4>4. bl[n].turn \in Nat /\ bl[n + i].turn \in Nat
        BY <1>2, <4>1 DEF IsTranscript
      <4> QED  BY <1>2, <1>3, <1>5, <4>1, <4>3, <4>4
    <3> QED  BY <1>1, <1>3, <3>1
  <2>2. o - n \in 1..i /\ n + (o - n) = o /\ o - n \in 1..(m - n)
    BY <1>1, <1>2, <1>3, <2>1
  <2>3. page[o - n] = bl[o]
    BY <2>2
  <2>4. IsIt(o - n)
    <3>1. OpensAt(bl, n + (o - n))
      BY <1>3, <2>2
    <3>2. Opens(page, carry, o - n)
      BY <2>2, <3>1, PageOpens
    <3> QED  BY <1>2, <1>3, <2>3, <3>2
  <2>5. ASSUME NEW j \in 1..i, IsIt(j) PROVE j = o - n
    <3>1. j \in 1..(m - n) /\ n + j \in 1..(n + i) /\ j \in Nat
      BY <1>1, <1>2
    <3>2. OpensAt(bl, n + j)
      BY <2>5, <3>1, PageOpens
    <3>3. bl[n + j].turn = bl[n + i].turn
      BY <1>2, <2>5, <3>1
    <3>4. n + j = o
      BY <1>2, <3>1, <3>2, <3>3, OpenerOpens
    <3> QED  BY <1>1, <3>1, <3>4
  <2>6. (CHOOSE j \in 1..i : IsIt(j)) = o - n
    <3> HIDE DEF o, carry, IsIt
    <3> QED  BY <2>2, <2>4, <2>5
  <2>7. DayOf(page, carry, i) = page[CHOOSE j \in 1..i : IsIt(j)].day
    BY <1>5 DEF DayOf
  <2> QED  BY <2>3, <2>6, <2>7 DEF DayAt
<1> QED  BY <1>4, <1>5

LEMMA PageRepeats ==
  ASSUME NEW bl, IsTranscript(bl), NEW m \in 0..Len(bl), NEW n \in 0..m, NEW page,
         Stretch(page, bl, n, m), NEW i \in 1..(m - n),
         NEW known, known = CallsTo(bl, n) \cap CallsOf(page)
  PROVE  Repeats(page, known, i) <=> RepeatsAt(bl, n + i)
<1> USE DEF Stretch
<1>1. Len(bl) \in Nat /\ m \in Nat /\ n \in Nat /\ n <= m /\ m <= Len(bl) /\ i \in Nat
  BY DEF IsTranscript
<1>2. page[i].call = bl[n + i].call
  OBVIOUS
<1>3. page[i].call \in known <=> page[i].call # NoCall /\ \E j \in 1..n : bl[j].call = page[i].call
  BY DEF CallsTo, CallsOf
<1>4. (\E j \in 1..(i - 1) : page[j].call = page[i].call) <=> (\E j \in (n + 1)..(n + i - 1) : bl[j].call = page[i].call)
  <2>1. ASSUME NEW j \in 1..(i - 1), page[j].call = page[i].call
        PROVE  n + j \in (n + 1)..(n + i - 1) /\ bl[n + j].call = page[i].call
    BY <1>1, <2>1
  <2>2. ASSUME NEW j \in (n + 1)..(n + i - 1), bl[j].call = page[i].call
        PROVE  j - n \in 1..(i - 1) /\ page[j - n].call = page[i].call
    <3>1. j - n \in 1..(i - 1) /\ j - n \in 1..(m - n) /\ n + (j - n) = j
      BY <1>1
    <3> QED  BY <2>2, <3>1
  <2> QED  BY <2>1, <2>2
<1>5. \A j : j \in 1..(n + i - 1) <=> j \in 1..n \/ j \in (n + 1)..(n + i - 1)
  BY <1>1
<1> QED  BY <1>2, <1>3, <1>4, <1>5 DEF Repeats, RepeatsAt

(* The set of the last places, moved to the front, has as many.             *)
LEMMA SplitCount ==
  ASSUME NEW m \in Nat, NEW n \in 0..m, NEW S, S \subseteq 1..m
  PROVE  LET front == S \cap 1..n
             back == {i \in 1..(m - n) : n + i \in S}
         IN  /\ Cardinality(S) \in Nat /\ Cardinality(front) \in Nat /\ Cardinality(back) \in Nat
             /\ Cardinality(S) = Cardinality(front) + Cardinality(back)
<1> DEFINE front == S \cap 1..n
           back == {i \in 1..(m - n) : n + i \in S}
           rest == S \ (1..n)
           shift == [i \in back |-> n + i]
<1>1. IsFiniteSet(1..m) /\ IsFiniteSet(1..(m - n))
  BY FS_Interval
<1>2. IsFiniteSet(S) /\ IsFiniteSet(front) /\ IsFiniteSet(back) /\ IsFiniteSet(rest)
  <2>1. S \in SUBSET (1..m) /\ front \in SUBSET (1..m) /\ rest \in SUBSET (1..m) /\ back \in SUBSET (1..(m - n))
    OBVIOUS
  <2> HIDE DEF front, back, rest
  <2> QED  BY <1>1, <2>1, FS_Subset
<1>3. shift \in Bijection(back, rest)
  <2>1. shift \in [back -> rest]
    OBVIOUS
  <2>2. \A a, b \in back : shift[a] = shift[b] => a = b
    OBVIOUS
  <2>3. \A t \in rest : \E a \in back : shift[a] = t
    <3>1. ASSUME NEW t \in rest PROVE t - n \in back /\ shift[t - n] = t
      OBVIOUS
    <3> QED  BY <3>1
  <2> HIDE DEF shift, back, rest
  <2> QED  BY <2>1, <2>2, <2>3 DEF Bijection, Injection, Surjection, IsInjective
<1>4. Cardinality(rest) = Cardinality(back)
  <2>1. ExistsBijection(back, rest)
    BY <1>3 DEF ExistsBijection
  <2> HIDE DEF back, rest
  <2> QED  BY <1>2, <2>1, FS_Bijection
<1>5. Cardinality(front) \in Nat /\ Cardinality(back) \in Nat /\ Cardinality(rest) \in Nat /\ Cardinality(S) \in Nat
  BY <1>2, FS_CardinalityType
<1>6. Cardinality(S) = Cardinality(front) + Cardinality(rest)
  <2>1. front \cup rest = S /\ front \cap rest = {}
    OBVIOUS
  <2>2. Cardinality(front \cup rest) = Cardinality(front) + Cardinality(rest) - Cardinality(front \cap rest)
    <3> HIDE DEF front, rest
    <3> QED  BY <1>2, FS_Union
  <2>3. Cardinality({}) = 0
    BY FS_EmptySet
  <2>4. Cardinality(front \cup rest) = Cardinality(S) /\ Cardinality(front \cap rest) = 0
    BY <2>1, <2>3
  <2> HIDE DEF front, rest
  <2> QED  BY <1>5, <2>2, <2>4
<1> HIDE DEF front, back, rest
<1>7. Cardinality(S) = Cardinality(front) + Cardinality(back)
  BY <1>4, <1>6
<1> QED  BY <1>5, <1>7 DEF front, back

(* Counts of two stretches of a transcript add up.                          *)
LEMMA TalliesAdd ==
  ASSUME NEW bl, NEW m \in Nat, NEW n \in 0..m
  PROVE  Summed(Tally(bl, 0, n), Tally(bl, n, m)) = Tally(bl, 0, m)
<1> SUFFICES ASSUME NEW d \in Days PROVE Plus(Tally(bl, 0, n)[d], Tally(bl, n, m)[d]) = Tally(bl, 0, m)[d]
  BY DEF Summed, Tally
<1> DEFINE onDay(i) == DayAt(bl, i) = d
           A == {i \in 1..m : onDay(i) /\ OpensAt(bl, i)}
           B == {i \in 1..m : onDay(i)}
           C == {i \in 1..m : onDay(i) /\ RepeatsAt(bl, i)}
<1>1. /\ {i \in 1..(m - 0) : DayAt(bl, 0 + i) = d /\ OpensAt(bl, 0 + i)} = A
      /\ {i \in 1..(m - 0) : DayAt(bl, 0 + i) = d} = B
      /\ {i \in 1..(m - 0) : DayAt(bl, 0 + i) = d /\ RepeatsAt(bl, 0 + i)} = C
  <2>1. \A i \in 1..(m - 0) : 0 + i = i
    OBVIOUS
  <2>2. 1..(m - 0) = 1..m
    OBVIOUS
  <2> QED  BY <2>1, <2>2, Zenon
<1>2. /\ {i \in 1..(n - 0) : DayAt(bl, 0 + i) = d /\ OpensAt(bl, 0 + i)} = A \cap 1..n
      /\ {i \in 1..(n - 0) : DayAt(bl, 0 + i) = d} = B \cap 1..n
      /\ {i \in 1..(n - 0) : DayAt(bl, 0 + i) = d /\ RepeatsAt(bl, 0 + i)} = C \cap 1..n
  <2>1. \A i \in 1..(n - 0) : 0 + i = i
    OBVIOUS
  <2>2. 1..(n - 0) = 1..n
    OBVIOUS
  <2>9. \A i \in 1..n : i \in 1..m
    OBVIOUS
  <2>3. {i \in 1..(n - 0) : DayAt(bl, 0 + i) = d /\ OpensAt(bl, 0 + i)} = {i \in 1..n : onDay(i) /\ OpensAt(bl, i)}
    BY <2>1, <2>2, Zenon
  <2>4. {i \in 1..(n - 0) : DayAt(bl, 0 + i) = d} = {i \in 1..n : onDay(i)}
    BY <2>1, <2>2, Zenon
  <2>5. {i \in 1..(n - 0) : DayAt(bl, 0 + i) = d /\ RepeatsAt(bl, 0 + i)} = {i \in 1..n : onDay(i) /\ RepeatsAt(bl, i)}
    BY <2>1, <2>2, Zenon
  <2>6. {i \in 1..n : onDay(i) /\ OpensAt(bl, i)} = A \cap 1..n
    BY <2>9, Zenon
  <2>7. {i \in 1..n : onDay(i)} = B \cap 1..n
    BY <2>9, Zenon
  <2>8. {i \in 1..n : onDay(i) /\ RepeatsAt(bl, i)} = C \cap 1..n
    BY <2>9, Zenon
  <2> HIDE DEF A, B, C, onDay
  <2> QED  BY <2>3, <2>4, <2>5, <2>6, <2>7, <2>8
<1>3. /\ {i \in 1..(m - n) : DayAt(bl, n + i) = d /\ OpensAt(bl, n + i)} = {i \in 1..(m - n) : n + i \in A}
      /\ {i \in 1..(m - n) : DayAt(bl, n + i) = d} = {i \in 1..(m - n) : n + i \in B}
      /\ {i \in 1..(m - n) : DayAt(bl, n + i) = d /\ RepeatsAt(bl, n + i)} = {i \in 1..(m - n) : n + i \in C}
  <2>1. \A i \in 1..(m - n) : n + i \in 1..m
    OBVIOUS
  <2> QED  BY <2>1, Zenon
<1>4. A \subseteq 1..m /\ B \subseteq 1..m /\ C \subseteq 1..m
  OBVIOUS
<1> HIDE DEF A, B, C
<1>5. Cardinality(A) = Cardinality(A \cap 1..n) + Cardinality({i \in 1..(m - n) : n + i \in A})
  BY <1>4, SplitCount
<1>6. Cardinality(B) = Cardinality(B \cap 1..n) + Cardinality({i \in 1..(m - n) : n + i \in B})
  BY <1>4, SplitCount
<1>7. Cardinality(C) = Cardinality(C \cap 1..n) + Cardinality({i \in 1..(m - n) : n + i \in C})
  BY <1>4, SplitCount
<1>8. Tally(bl, 0, m)[d] = [turns |-> Cardinality(A), calls |-> Cardinality(B), repeats |-> Cardinality(C)]
  BY <1>1 DEF Tally
<1>9. Tally(bl, 0, n)[d] = [turns |-> Cardinality(A \cap 1..n), calls |-> Cardinality(B \cap 1..n),
                            repeats |-> Cardinality(C \cap 1..n)]
  BY <1>2 DEF Tally
<1>10. Tally(bl, n, m)[d] = [turns |-> Cardinality({i \in 1..(m - n) : n + i \in A}),
                             calls |-> Cardinality({i \in 1..(m - n) : n + i \in B}),
                             repeats |-> Cardinality({i \in 1..(m - n) : n + i \in C})]
  BY <1>3 DEF Tally
<1>11. Plus(Tally(bl, 0, n)[d], Tally(bl, n, m)[d])
         = [turns |-> Cardinality(A \cap 1..n) + Cardinality({i \in 1..(m - n) : n + i \in A}),
            calls |-> Cardinality(B \cap 1..n) + Cardinality({i \in 1..(m - n) : n + i \in B}),
            repeats |-> Cardinality(C \cap 1..n) + Cardinality({i \in 1..(m - n) : n + i \in C})]
  BY <1>9, <1>10 DEF Plus
<1> QED  BY <1>5, <1>6, <1>7, <1>8, <1>11

LEMMA EmptyTally ==
  ASSUME NEW bl, NEW n \in Nat
  PROVE  Tally(bl, n, n) = Empty
<1>1. 1..(n - n) = {}
  OBVIOUS
<1>2. Cardinality({}) = 0
  BY FS_EmptySet
<1> QED  BY <1>1, <1>2 DEF Tally, Empty, Zero

(* A page counts as its stretch of the transcript.                          *)
LEMMA PageCounts ==
  ASSUME NEW bl, IsTranscript(bl), NEW m \in 0..Len(bl), NEW n \in 0..m, NEW page,
         Stretch(page, bl, n, m)
  PROVE  Counts(page, CarryAt(bl, n), CallsTo(bl, n) \cap CallsOf(page)) = Tally(bl, n, m)
<1> DEFINE known == CallsTo(bl, n) \cap CallsOf(page)
<1> SUFFICES ASSUME NEW d \in Days PROVE Counts(page, CarryAt(bl, n), known)[d] = Tally(bl, n, m)[d]
  BY DEF Counts, Tally
<1>1. \A i \in 1..(m - n) : /\ Opens(page, CarryAt(bl, n), i) <=> OpensAt(bl, n + i)
                            /\ DayOf(page, CarryAt(bl, n), i) = DayAt(bl, n + i)
                            /\ Repeats(page, known, i) <=> RepeatsAt(bl, n + i)
  BY PageOpens, PageDays, PageRepeats
<1>0. DOMAIN page = 1..(m - n)
  BY DEF Stretch
<1> DEFINE on == {i \in DOMAIN page : DayOf(page, CarryAt(bl, n), i) = d}
<1>2. on = {i \in 1..(m - n) : DayAt(bl, n + i) = d}
  BY <1>0, <1>1, Zenon
<1>3. {i \in on : Opens(page, CarryAt(bl, n), i)} = {i \in 1..(m - n) : DayAt(bl, n + i) = d /\ OpensAt(bl, n + i)}
  BY <1>1, <1>2, Zenon
<1>4. {i \in on : Repeats(page, known, i)} = {i \in 1..(m - n) : DayAt(bl, n + i) = d /\ RepeatsAt(bl, n + i)}
  BY <1>1, <1>2, Zenon
<1> QED  BY <1>2, <1>3, <1>4 DEF Counts, Tally

(* So does a transcript that is counted whole.                              *)
LEMMA WholeCounts ==
  ASSUME NEW bl, IsTranscript(bl)
  PROVE  CountedOnce(bl) = Tally(bl, 0, Len(bl))
<1>1. DOMAIN bl = 1..Len(bl) /\ Len(bl) \in Nat
  BY DEF IsTranscript
<1>2. CarryAt(bl, 0) = NoTurn /\ CallsTo(bl, 0) = {}
  BY DEF CarryAt, CallsTo
<1>3. {} = CallsTo(bl, 0) \cap CallsOf(bl)
  BY <1>2
<1>4. Len(bl) \in 0..Len(bl) /\ 0 \in 0..Len(bl) /\ Stretch(bl, bl, 0, Len(bl))
  BY <1>1 DEF Stretch
<1>5. Counts(bl, CarryAt(bl, 0), {}) = Tally(bl, 0, Len(bl))
  <2>1. Counts(bl, CarryAt(bl, 0), CallsTo(bl, 0) \cap CallsOf(bl)) = Tally(bl, 0, Len(bl))
    BY <1>4, PageCounts
  <2> QED  BY <1>3, <2>1
<1> QED  BY <1>2, <1>5 DEF CountedOnce

-----------------------------------------------------------------------------
(* The page that a held row asks for.                                       *)
PageOf(row, bl, limit) ==
  IF row.finishing THEN <<>> ELSE SubSeq(bl, row.cursor + 1, LowerOf(Len(bl), row.cursor + limit))

BlocksOf(s) == Transcript[shard[s]]

Statuses == {"none", "pending", "building", "ready"}

Turns == [turn : Nat, day : Days \cup {"none"}]

RollupRows == [gen : Nat, status : Statuses, eligible : BOOLEAN, finishing : BOOLEAN, cursor : Nat, turn : Turns, token : Nat]

ContentTyped ==
  /\ rplan \in RollupPlans
  /\ bytes \in [RollSessions -> RollRevisions] /\ shard \in [RollSessions -> RollRevisions]
  /\ indexed \in [RollSessions -> BOOLEAN] /\ parses \in Nat

TablesTyped ==
  /\ rollup \in [RollSessions -> RollupRows]
  /\ DOMAIN buckets = RollSessions /\ DOMAIN seen = RollSessions
  /\ attempts \in [RollSessions -> Nat] /\ DOMAIN pass = Passes

WriterTyped ==
  \/ writer = Parked
  \/ /\ writer.pc \in {"blocks", "publish"} /\ writer.s \in RollSessions /\ writer.rev \in RollRevisions
     /\ writer.gen \in 1..parses /\ ~rollup[writer.s].eligible
     /\ writer = [pc |-> writer.pc, s |-> writer.s, rev |-> writer.rev, gen |-> writer.gen]

(* What main has counted of an eligible session is its transcript up to the *)
(* cursor.                                                                  *)
CountedTo(s) ==
  /\ indexed[s] /\ rollup[s].gen \in 1..parses /\ rollup[s].cursor <= Len(BlocksOf(s))
  /\ buckets[s] = Tally(BlocksOf(s), 0, rollup[s].cursor)
  /\ rollup[s].status # "ready" => rollup[s].turn = CarryAt(BlocksOf(s), rollup[s].cursor)
  /\ IF rollup[s].finishing THEN rollup[s].cursor = Len(BlocksOf(s)) ELSE seen[s] = CallsTo(BlocksOf(s), rollup[s].cursor)
  /\ rollup[s].status = "ready" => rollup[s].finishing

NotCounted(s) ==
  /\ rollup[s].gen \in 0..parses /\ rollup[s].cursor = 0 /\ rollup[s].turn = NoTurn /\ ~rollup[s].finishing
  /\ rollup[s].status # "ready"
  /\ buckets[s] = Empty /\ seen[s] = {}

CountsHold == \A s \in RollSessions : IF rollup[s].eligible THEN CountedTo(s) ELSE NotCounted(s)

KeysAreCalls == \A s \in RollSessions : NoCall \notin seen[s]

PageSteps == {"read", "known", "commit", "defer"}

PassTyped(p) ==
  /\ DOMAIN pass[p] = DOMAIN Resting
  /\ pass[p].pc \in {"idle", "select", "over"} \cup PageSteps
  /\ pass[p].examined \in Nat /\ pass[p].failed \subseteq RollSessions
  /\ pass[p].pc \in PageSteps => /\ pass[p].s \in RollSessions /\ pass[p].row \in RollupRows /\ pass[p].limit \in Nat \ {0}
                               /\ pass[p].row.eligible /\ pass[p].row.gen \in 1..parses /\ pass[p].row.status # "ready"

(* The row a pass holds is the row of the session, or that moved on.        *)
MovedOn(row, now) == now.eligible /\ (now.status = "ready" \/ now.token > row.token)

HeldIsCurrent(p) ==
  LET s == pass[p].s row == pass[p].row
  IN  pass[p].pc \in PageSteps =>
        /\ rollup[s].gen = row.gen => rollup[s] = row \/ MovedOn(row, rollup[s])
        /\ rollup[s] = row /\ pass[p].pc \in {"known", "commit"} => pass[p].page = PageOf(row, BlocksOf(s), pass[p].limit)
        /\ rollup[s] = row /\ pass[p].pc = "commit" =>
             pass[p].known = seen[s] \cap CallsOf(pass[p].page)

JobTyped ==
  /\ job.status \in {"absent", "queued", "running", "complete", "partial", "failed"}
  /\ DOMAIN job = {"status", "owned", "late"} /\ DOMAIN delivery = {"pc", "tries"}
  /\ job.owned => job.status = "running"
  /\ delivery.tries \in 0..MaxRetries
  /\ caller = "new" => job.status = "absent"

RInv ==
  /\ ContentTyped /\ TablesTyped /\ WriterTyped /\ CountsHold /\ KeysAreCalls /\ JobTyped
  /\ \A p \in Passes : PassTyped(p) /\ HeldIsCurrent(p)

-----------------------------------------------------------------------------
(* What a page that was read holds, and how far it goes.                    *)
LEMMA PageIsStretch ==
  ASSUME NEW bl, IsTranscript(bl), NEW n \in 0..Len(bl), NEW row, row.cursor = n, row.finishing => n = Len(bl),
         NEW limit \in Nat \ {0}, NEW page, page = PageOf(row, bl, limit)
  PROVE  /\ Len(page) \in Nat /\ n \in 0..(n + Len(page)) /\ n + Len(page) \in 0..Len(bl)
         /\ Stretch(page, bl, n, n + Len(page))
         /\ page # <<>> => Len(page) # 0 /\ page[Len(page)] = bl[n + Len(page)]
         /\ page = <<>> => Len(page) = 0
         /\ Len(page) < limit => n + Len(page) = Len(bl)
<1> USE DEF Stretch
<1> DEFINE S == {bl[i] : i \in DOMAIN bl}
<1>1. DOMAIN bl = 1..Len(bl) /\ Len(bl) \in Nat /\ bl \in Seq(S) /\ n \in Nat /\ n \in 0..Len(bl)
  BY DEF IsTranscript
<1>4. row.finishing => n = Len(bl)
  OBVIOUS
<1>5. page = IF row.finishing THEN <<>> ELSE SubSeq(bl, n + 1, LowerOf(Len(bl), n + limit))
  BY DEF PageOf
<1>6. n \in Nat /\ Len(bl) \in Nat /\ n <= Len(bl)
  <2>1. Len(bl) \in Nat
    BY <1>1
  <2> QED  BY <2>1
<1>7. limit \in Nat /\ limit > 0
  OBVIOUS
<1> HIDE DEF S
<1>2. CASE row.finishing
  <2>1. page = <<>> /\ Len(page) = 0 /\ DOMAIN page = 1..0
    BY <1>2, <1>5
  <2> QED  BY <1>2, <1>4, <1>6, <1>7, <2>1
<1>3. CASE ~row.finishing
  <2> DEFINE k == LowerOf(Len(bl), n + limit)
  <2>1. page = SubSeq(bl, n + 1, k)
    BY <1>3, <1>5
  <2>2. k \in n..Len(bl) /\ k \in Int /\ n + 1 \in Int /\ k \in Nat /\ n <= k /\ (k < n + limit => k = Len(bl))
    BY <1>6, <1>7 DEF LowerOf
  <2>3. \A i \in (n + 1)..k : bl[i] \in S
    <3>1. \A i \in (n + 1)..k : i \in 1..Len(bl)
      BY <1>6, <2>2
    <3>2. DOMAIN bl = 1..Len(bl)
      BY <1>1
    <3> QED  BY <3>1, <3>2, Zenon DEF S
  <2> HIDE DEF k
  <2>4. /\ page \in Seq(S) /\ Len(page) = (IF n + 1 <= k THEN k - (n + 1) + 1 ELSE 0)
        /\ \A i \in 1..(k - (n + 1) + 1) : page[i] = bl[n + 1 + i - 1]
    <3>1. /\ SubSeq(bl, n + 1, k) \in Seq(S)
          /\ Len(SubSeq(bl, n + 1, k)) = (IF n + 1 <= k THEN k - (n + 1) + 1 ELSE 0)
          /\ \A i \in 1..(k - (n + 1) + 1) : SubSeq(bl, n + 1, k)[i] = bl[n + 1 + i - 1]
      BY <2>2, <2>3, SubSeqProperties
    <3> QED  BY <2>1, <3>1
  <2>5. Len(page) = k - n /\ Len(page) \in Nat /\ DOMAIN page = 1..(k - n)
    BY <1>6, <2>2, <2>4
  <2>6. \A i \in 1..(k - n) : page[i] = bl[n + i]
    <3>1. \A i \in 1..(k - n) : i \in 1..(k - (n + 1) + 1) /\ n + 1 + i - 1 = n + i
      BY <1>6, <2>2
    <3> QED  BY <2>4, <3>1
  <2>7. n + Len(page) = k /\ (n + Len(page)) - n = k - n
    BY <1>6, <2>2, <2>5
  <2>8. page # <<>> => Len(page) # 0
    BY <2>4
  <2>9. Len(page) # 0 => page[Len(page)] = bl[k]
    <3>1. Len(page) # 0 => k - n \in 1..(k - n) /\ n + (k - n) = k
      BY <1>6, <2>2, <2>5
    <3> QED  BY <2>5, <2>6, <3>1
  <2>10. page = <<>> => Len(page) = 0
    OBVIOUS
  <2>11. Len(page) < limit => k = Len(bl)
    BY <1>6, <2>2, <2>5
  <2> QED  BY <1>6, <2>2, <2>5, <2>6, <2>7, <2>8, <2>9, <2>10, <2>11
<1> QED  BY <1>2, <1>3

(* The calls up to the end of a page.                                       *)
LEMMA CallsGrow ==
  ASSUME NEW bl, NEW m \in Nat, NEW n \in 0..m, NEW page,
         Stretch(page, bl, n, m)
  PROVE  CallsTo(bl, m) = CallsTo(bl, n) \cup (CallsOf(page) \ {NoCall})
<1> USE DEF Stretch
<1>1. \A i \in 1..(m - n) : n + i \in 1..m
  OBVIOUS
<1>2. \A i \in 1..n : i \in 1..m
  OBVIOUS
<1>3. \A i \in 1..m : i \in 1..n \/ (i - n \in 1..(m - n) /\ n + (i - n) = i)
  OBVIOUS
<1>4. ASSUME NEW c \in CallsTo(bl, m)
      PROVE  c \in CallsTo(bl, n) \cup (CallsOf(page) \ {NoCall})
  <2>1. PICK i \in 1..m : c = bl[i].call /\ c # NoCall
    BY DEF CallsTo
  <2>2. CASE i \in 1..n
    BY <2>1, <2>2 DEF CallsTo
  <2>3. CASE i - n \in 1..(m - n) /\ n + (i - n) = i
    <3>1. page[i - n] = bl[i]
      BY <2>3
    <3> QED  BY <2>1, <2>3, <3>1 DEF CallsOf
  <2> QED  BY <1>3, <2>2, <2>3
<1>5. CallsTo(bl, n) \subseteq CallsTo(bl, m)
  BY <1>2 DEF CallsTo
<1>6. CallsOf(page) \ {NoCall} \subseteq CallsTo(bl, m)
  BY <1>1 DEF CallsTo, CallsOf
<1> QED  BY <1>4, <1>5, <1>6

(* The turn that is carried behind a page.                                  *)
LEMMA CarryMoves ==
  ASSUME NEW bl, IsTranscript(bl), NEW m \in 0..Len(bl), NEW n \in 0..m, NEW page,
         Stretch(page, bl, n, m), Len(page) = m - n, m # n
  PROVE  [turn |-> page[Len(page)].turn, day |-> DayOf(page, CarryAt(bl, n), Len(page))] = CarryAt(bl, m)
<1> USE DEF Stretch
<1>1. Len(bl) \in Nat /\ m \in Nat /\ n \in Nat /\ n < m /\ m # 0 /\ m - n \in 1..(m - n) /\ n + (m - n) = m
  BY DEF IsTranscript
<1>2. page[m - n] = bl[m]
  BY <1>1
<1>3. DayOf(page, CarryAt(bl, n), m - n) = DayAt(bl, n + (m - n))
  BY <1>1, PageDays
<1> QED  BY <1>1, <1>2, <1>3 DEF CarryAt

LEMMA CarryTyped ==
  ASSUME NEW bl, IsTranscript(bl), NEW n \in 0..Len(bl)
  PROVE  CarryAt(bl, n) \in Turns
<1>1. DOMAIN bl = 1..Len(bl) /\ Len(bl) \in Nat
  BY DEF IsTranscript
<1>2. CASE n = 0
  BY <1>2 DEF CarryAt, NoTurn, Turns
<1>3. CASE n # 0
  <2>1. n \in DOMAIN bl
    BY <1>1, <1>3
  <2>2. Opener(bl, n) \in 1..n
    BY <2>1, OpenerOpens
  <2>3. Opener(bl, n) \in DOMAIN bl
    BY <1>1, <2>2
  <2>4. bl[n].turn \in Nat /\ DayAt(bl, n) \in Days
    BY <2>1, <2>3 DEF IsTranscript, DayAt
  <2> QED  BY <1>3, <2>4 DEF CarryAt, Turns
<1> QED  BY <1>2, <1>3

-----------------------------------------------------------------------------
(* What a step may do to the row of a session while a pass holds an older   *)
(* one: when the two are the same, nothing was touched.                     *)
Holdable(row) == row \in RollupRows /\ row.eligible /\ row.gen \in 1..parses /\ row.status # "ready"

HeldStays ==
  \A s \in RollSessions : \A row \in RollupRows :
    Holdable(row) /\ (rollup[s].gen = row.gen => rollup[s] = row \/ MovedOn(row, rollup[s]))
      => /\ rollup'[s].gen = row.gen => rollup'[s] = row \/ MovedOn(row, rollup'[s])
         /\ rollup'[s] = row => rollup[s] = row /\ seen'[s] = seen[s] /\ shard'[s] = shard[s]

LEMMA OtherPassKeeps ==
  ASSUME RInv, HeldStays, parses' \in Nat, parses <= parses', NEW q \in Passes, pass'[q] = pass[q]
  PROVE  PassTyped(q)' /\ HeldIsCurrent(q)'
<1>1. PassTyped(q) /\ HeldIsCurrent(q) /\ parses \in Nat
  BY DEF RInv, ContentTyped
<1>2. PassTyped(q)'
  BY <1>1 DEF PassTyped
<1>3. ASSUME pass[q].pc \in PageSteps
      PROVE  LET s == pass[q].s row == pass[q].row
             IN  /\ rollup'[s].gen = row.gen => rollup'[s] = row \/ MovedOn(row, rollup'[s])
                 /\ rollup'[s] = row => rollup[s] = row /\ seen'[s] = seen[s] /\ shard'[s] = shard[s]
  <2>1. pass[q].s \in RollSessions /\ Holdable(pass[q].row) /\ pass[q].row \in RollupRows
    BY <1>1, <1>3 DEF PassTyped, Holdable
  <2>2. rollup[pass[q].s].gen = pass[q].row.gen
          => rollup[pass[q].s] = pass[q].row \/ MovedOn(pass[q].row, rollup[pass[q].s])
    BY <1>1, <1>3 DEF HeldIsCurrent
  <2> QED  BY <2>1, <2>2 DEF HeldStays
<1>4. HeldIsCurrent(q)'
  BY <1>1, <1>3 DEF HeldIsCurrent, BlocksOf
<1> QED  BY <1>2, <1>4

(* Steps that leave the session and its counts alone.                       *)
LEMMA TablesKept ==
  ASSUME RInv, UNCHANGED <<contentVars, rollup, buckets, seen, rplan>>, attempts' \in [RollSessions -> Nat],
         DOMAIN pass' = Passes
  PROVE  /\ ContentTyped' /\ TablesTyped' /\ WriterTyped' /\ CountsHold' /\ KeysAreCalls' /\ HeldStays
         /\ parses' \in Nat /\ parses <= parses'
<1> USE DEF contentVars
<1>1. ContentTyped'
  BY DEF RInv, ContentTyped
<1>2. TablesTyped'
  BY DEF RInv, TablesTyped
<1>3. WriterTyped'
  BY DEF RInv, WriterTyped
<1>4. CountsHold'
  BY DEF RInv, CountsHold, CountedTo, NotCounted, BlocksOf
<1>5. KeysAreCalls'
  BY DEF RInv, KeysAreCalls
<1>6. HeldStays
  BY DEF HeldStays
<1>7. parses' \in Nat /\ parses <= parses'
  BY DEF RInv, ContentTyped
<1> QED  BY <1>1, <1>2, <1>3, <1>4, <1>5, <1>6, <1>7

LEMMA AttemptsTyped ==
  ASSUME RInv, NEW s \in RollSessions
  PROVE  /\ AttemptsBut(s) \in [RollSessions -> Nat]
         /\ Touched(s) => attempts' \in [RollSessions -> Nat]
<1>1. attempts \in [RollSessions -> Nat]
  BY DEF RInv, TablesTyped
<1>2. AttemptsBut(s) \in [RollSessions -> Nat]
  BY <1>1 DEF AttemptsBut
<1>3. Cardinality({t \in RollSessions : AttemptsBut(s)[t] > 0}) \in Nat
  <2>1. IsFiniteSet(RollSessions)
    BY RollupAssumption
  <2>2. {t \in RollSessions : AttemptsBut(s)[t] > 0} \in SUBSET RollSessions
    OBVIOUS
  <2> QED  BY <2>1, <2>2, FS_Subset, FS_CardinalityType
<1> QED  BY <1>2, <1>3 DEF Touched

-----------------------------------------------------------------------------
(* Parsing.                                                                 *)
LEMMA UploadKeeps ==
  ASSUME RInv, NEW s \in RollSessions, Upload(s)
  PROVE  /\ ContentTyped' /\ TablesTyped' /\ WriterTyped' /\ CountsHold' /\ KeysAreCalls' /\ HeldStays
         /\ parses' \in Nat /\ parses <= parses'
<1> USE DEF Upload, Unready
<1>1. NoRow \in RollupRows /\ NoRow.gen = 0 /\ ~NoRow.eligible /\ ~NoRow.finishing /\ NoRow.cursor = 0 /\ NoRow.turn = NoTurn
      /\ NoRow.status # "ready"
  BY DEF NoRow, RollupRows, Statuses, Turns, NoTurn
<1>2. ContentTyped'
  BY DEF RInv, ContentTyped
<1>3. TablesTyped'
  BY <1>1, AttemptsTyped DEF RInv, TablesTyped
<1>4. WriterTyped'
  BY <1>1 DEF RInv, WriterTyped, TablesTyped
<1>5. CountsHold'
  <2>1. ASSUME NEW t \in RollSessions PROVE (IF rollup[t].eligible THEN CountedTo(t) ELSE NotCounted(t))'
    <3>1. CASE t = s
      BY <1>1, <3>1 DEF RInv, TablesTyped, NotCounted, ContentTyped
    <3>2. CASE t # s
      BY <3>2 DEF RInv, CountsHold, TablesTyped, ContentTyped, CountedTo, NotCounted, BlocksOf
    <3> QED  BY <3>1, <3>2
  <2> QED  BY <2>1 DEF CountsHold
<1>6. KeysAreCalls'
  BY DEF RInv, KeysAreCalls, TablesTyped
<1>7. HeldStays
  BY <1>1 DEF RInv, HeldStays, Holdable, TablesTyped
<1>8. parses' \in Nat /\ parses <= parses'
  BY DEF RInv, ContentTyped
<1> QED  BY <1>2, <1>3, <1>4, <1>5, <1>6, <1>7, <1>8

LEMMA BeginWriteKeeps ==
  ASSUME RInv, NEW s \in RollSessions, BeginWrite(s)
  PROVE  /\ ContentTyped' /\ TablesTyped' /\ WriterTyped' /\ CountsHold' /\ KeysAreCalls' /\ HeldStays
         /\ parses' \in Nat /\ parses <= parses'
<1> USE DEF BeginWrite, Unready
<1> DEFINE new == [NoRow EXCEPT !.gen = parses', !.status = "pending"]
<1>8. parses \in Nat /\ parses' = parses + 1
  BY DEF RInv, ContentTyped
<1>1. new \in RollupRows /\ new.gen = parses' /\ ~new.eligible /\ ~new.finishing /\ new.cursor = 0 /\ new.turn = NoTurn
      /\ new.status # "ready"
  <2>1. NoRow \in RollupRows /\ ~NoRow.eligible /\ ~NoRow.finishing /\ NoRow.cursor = 0 /\ NoRow.turn = NoTurn
    BY DEF NoRow, RollupRows, Statuses, Turns, NoTurn
  <2>2. parses' \in Nat /\ "pending" \in Statuses
    BY <1>8 DEF Statuses
  <2> QED  BY <2>1, <2>2 DEF RollupRows
<1>9. rollup' = [rollup EXCEPT ![s] = new]
  OBVIOUS
<1> HIDE DEF new
<1>2. ContentTyped'
  BY <1>8 DEF RInv, ContentTyped
<1>3. TablesTyped'
  BY <1>1, <1>9, AttemptsTyped DEF RInv, TablesTyped
<1>4. WriterTyped'
  <2>1. writer' = [pc |-> "blocks", s |-> s, rev |-> bytes[s], gen |-> parses']
    OBVIOUS
  <2>2. rollup'[s] = new /\ bytes[s] \in RollRevisions
    BY <1>9 DEF RInv, TablesTyped, ContentTyped
  <2>3. parses' \in 1..parses'
    <3>1. parses + 1 \in 1..(parses + 1)
      BY <1>8
    <3> QED  BY <1>8, <3>1
  <2>4. /\ writer'.pc = "blocks" /\ writer'.s = s /\ writer'.rev = bytes[s] /\ writer'.gen = parses'
        /\ writer' = [pc |-> writer'.pc, s |-> writer'.s, rev |-> writer'.rev, gen |-> writer'.gen]
    BY <2>1
  <2>5. ~rollup'[s].eligible
    BY <1>1, <2>2
  <2> HIDE DEF BeginWrite
  <2> QED  BY <2>2, <2>3, <2>4, <2>5 DEF WriterTyped
<1>5. CountsHold'
  <2>1. ASSUME NEW t \in RollSessions PROVE (IF rollup[t].eligible THEN CountedTo(t) ELSE NotCounted(t))'
    <3>1. CASE t = s
      <4>1. rollup'[s] = new /\ buckets'[s] = Empty /\ seen'[s] = {}
        BY <1>9 DEF RInv, TablesTyped
      <4>2. parses' \in 0..parses'
        BY <1>8
      <4> QED  BY <1>1, <3>1, <4>1, <4>2 DEF NotCounted
    <3>2. CASE t # s
      BY <1>8, <1>9, <3>2 DEF RInv, CountsHold, TablesTyped, ContentTyped, CountedTo, NotCounted, BlocksOf
    <3> QED  BY <3>1, <3>2
  <2> QED  BY <2>1 DEF CountsHold
<1>6. KeysAreCalls'
  BY DEF RInv, KeysAreCalls, TablesTyped
<1>7. HeldStays
  BY <1>1, <1>8, <1>9 DEF RInv, HeldStays, Holdable, TablesTyped
<1> QED  BY <1>2, <1>3, <1>4, <1>5, <1>6, <1>7, <1>8

LEMMA WriteBlocksKeeps ==
  ASSUME RInv, WriteBlocks
  PROVE  /\ ContentTyped' /\ TablesTyped' /\ WriterTyped' /\ CountsHold' /\ KeysAreCalls' /\ HeldStays
         /\ parses' \in Nat /\ parses <= parses'
<1> USE DEF WriteBlocks, rollVars
<1>1. writer.pc = "blocks" /\ writer.s \in RollSessions /\ writer.rev \in RollRevisions /\ ~rollup[writer.s].eligible
      /\ writer.gen \in 1..parses
  BY DEF RInv, WriterTyped, Parked
<1>2. ContentTyped'
  BY <1>1 DEF RInv, ContentTyped
<1>3. TablesTyped'
  BY DEF RInv, TablesTyped
<1>4. WriterTyped'
  <2>1. writer' = [writer EXCEPT !.pc = "publish"]
    OBVIOUS
  <2>2. writer = [pc |-> writer.pc, s |-> writer.s, rev |-> writer.rev, gen |-> writer.gen]
    BY DEF RInv, WriterTyped, Parked
  <2>3. writer' = [pc |-> "publish", s |-> writer.s, rev |-> writer.rev, gen |-> writer.gen]
    BY <2>1, <2>2
  <2>4. parses' = parses /\ rollup' = rollup
    OBVIOUS
  <2> QED  BY <1>1, <2>3, <2>4 DEF WriterTyped
<1>5. CountsHold'
  <2>1. ASSUME NEW t \in RollSessions PROVE (IF rollup[t].eligible THEN CountedTo(t) ELSE NotCounted(t))'
    <3>1. CASE t = writer.s
      BY <1>1, <3>1 DEF RInv, CountsHold, NotCounted
    <3>2. CASE t # writer.s
      BY <1>1, <3>2 DEF RInv, CountsHold, ContentTyped, CountedTo, NotCounted, BlocksOf
    <3> QED  BY <3>1, <3>2
  <2> QED  BY <2>1 DEF CountsHold
<1>6. KeysAreCalls'
  BY DEF RInv, KeysAreCalls
<1>7. HeldStays
  BY <1>1 DEF RInv, HeldStays, Holdable, ContentTyped
<1>8. parses' \in Nat /\ parses <= parses'
  BY DEF RInv, ContentTyped
<1> QED  BY <1>2, <1>3, <1>4, <1>5, <1>6, <1>7, <1>8

LEMMA PublishKeeps ==
  ASSUME RInv, PublishSession
  PROVE  /\ ContentTyped' /\ TablesTyped' /\ WriterTyped' /\ CountsHold' /\ KeysAreCalls' /\ HeldStays
         /\ parses' \in Nat /\ parses <= parses'
<1> USE DEF PublishSession
<1>1. writer.s \in RollSessions /\ writer.gen \in 1..parses /\ ~rollup[writer.s].eligible
  BY DEF RInv, WriterTyped, Parked
<1>0. PICK w \in RollSessions : w = writer.s
  BY <1>1
<1> DEFINE old == rollup[w]
           new == [old EXCEPT !.eligible = TRUE]
<1>8. parses' = parses /\ parses \in Nat
  BY DEF RInv, ContentTyped
<1>2. ContentTyped'
  BY <1>0, <1>1 DEF RInv, ContentTyped
<1>9. old \in RollupRows
  BY <1>0, <1>1 DEF RInv, TablesTyped
<1>10. /\ new \in RollupRows /\ new.gen = old.gen /\ new.eligible /\ new.status = old.status /\ new.cursor = old.cursor
       /\ new.turn = old.turn /\ new.finishing = old.finishing /\ new.token = old.token
  <2> HIDE DEF old
  <2> QED  BY <1>9 DEF RollupRows
<1>11. rollup' = rollup \/ rollup' = [rollup EXCEPT ![w] = new]
  BY <1>0 DEF RInv, TablesTyped
<1> HIDE DEF new
<1>3. TablesTyped'
  BY <1>0, <1>1, <1>10, <1>11 DEF RInv, TablesTyped
<1>4. WriterTyped'
  BY DEF WriterTyped
<1>5. CountsHold'
  <2>1. ASSUME NEW t \in RollSessions PROVE (IF rollup[t].eligible THEN CountedTo(t) ELSE NotCounted(t))'
    <3>1. CASE t = w /\ Publishable
      <4>1. NotCounted(w)
        BY <1>0, <1>1 DEF RInv, CountsHold
      <4>2. rollup'[w] = new /\ indexed'[w] /\ buckets' = buckets /\ seen' = seen /\ shard' = shard
        BY <1>0, <1>1, <3>1 DEF RInv, TablesTyped, ContentTyped, new
      <4>3. old.gen = writer.gen /\ old.cursor = 0 /\ old.turn = NoTurn /\ ~old.finishing /\ old.status # "ready"
            /\ buckets[w] = Empty /\ seen[w] = {}
        BY <1>0, <3>1, <4>1 DEF Publishable, NotCounted
      <4>4. Tally(BlocksOf(w), 0, 0) = Empty /\ CarryAt(BlocksOf(w), 0) = NoTurn /\ CallsTo(BlocksOf(w), 0) = {}
        BY EmptyTally DEF CarryAt, CallsTo
      <4>5. Len(BlocksOf(w)) \in Nat
        BY <1>0, <1>1, RollupAssumption DEF RInv, ContentTyped, BlocksOf, IsTranscript
      <4>6. BlocksOf(w)' = BlocksOf(w)
        BY <4>2 DEF BlocksOf
      <4>7. CountedTo(w)'
        <5> HIDE DEF old
        <5> QED  BY <1>0, <1>1, <1>8, <1>10, <4>2, <4>3, <4>4, <4>5, <4>6 DEF CountedTo
      <4> QED  BY <1>10, <3>1, <4>2, <4>7
    <3>2. CASE t # w \/ ~Publishable
      BY <1>0, <1>1, <1>8, <3>2 DEF RInv, CountsHold, TablesTyped, ContentTyped, CountedTo, NotCounted, BlocksOf
    <3> QED  BY <3>1, <3>2
  <2> QED  BY <2>1 DEF CountsHold
<1>6. KeysAreCalls'
  BY DEF RInv, KeysAreCalls
<1>7. HeldStays
  <2> SUFFICES ASSUME NEW s \in RollSessions, NEW row \in RollupRows, Holdable(row),
                      rollup[s].gen = row.gen => rollup[s] = row \/ MovedOn(row, rollup[s])
               PROVE  /\ rollup'[s].gen = row.gen => rollup'[s] = row \/ MovedOn(row, rollup'[s])
                      /\ rollup'[s] = row => rollup[s] = row /\ seen'[s] = seen[s] /\ shard'[s] = shard[s]
    BY DEF HeldStays
  <2>1. CASE rollup'[s] = rollup[s]
    BY <2>1
  <2>2. CASE s = w /\ rollup'[s] = new
    <3>1. rollup[w].gen # row.gen
      BY <1>0, <1>1, <2>2 DEF Holdable, MovedOn
    <3> QED  BY <1>10, <2>2, <3>1
  <2>3. rollup'[s] = rollup[s] \/ (s = w /\ rollup'[s] = new)
    BY <1>0, <1>1, <1>11 DEF RInv, TablesTyped
  <2> QED  BY <2>1, <2>2, <2>3
<1> QED  BY <1>2, <1>3, <1>4, <1>5, <1>6, <1>7, <1>8

-----------------------------------------------------------------------------
(* What a page adds to what was counted before: a page that was read from   *)
(* a checkpoint, and what a commit makes of it.                             *)
IsRead(bl, n, row, limit, page, keys, known) ==
  /\ IsTranscript(bl) /\ n \in 0..Len(bl) /\ limit \in Nat \ {0}
  /\ row.cursor = n
  /\ row.finishing => n = Len(bl)
  /\ page = PageOf(row, bl, limit)
  /\ known = keys \cap CallsOf(page)
  /\ ~row.finishing => keys = CallsTo(bl, n)

Adds(bl, n, row, limit, page, keys, known) ==
  LET m == n + Len(page)
  IN  /\ m \in 0..Len(bl) /\ Len(page) \in Nat
      /\ Summed(Tally(bl, 0, n), Counts(page, CarryAt(bl, n), known)) = Tally(bl, 0, m)
      /\ page = <<>> => m = n
      /\ page # <<>> => [turn |-> page[Len(page)].turn, day |-> DayOf(page, CarryAt(bl, n), Len(page))] = CarryAt(bl, m)
      /\ CarryAt(bl, m) \in Turns
      /\ ~row.finishing => keys \cup (CallsOf(page) \ {NoCall}) = CallsTo(bl, m)
      /\ Len(page) < limit => m = Len(bl)
      /\ row.finishing => Len(page) < limit

LEMMA PageAdds ==
  ASSUME NEW bl, NEW n, NEW row, NEW limit, NEW page, NEW keys, NEW known,
         IsRead(bl, n, row, limit, page, keys, known)
  PROVE  Adds(bl, n, row, limit, page, keys, known)
<1>0. /\ IsTranscript(bl) /\ n \in 0..Len(bl) /\ limit \in Nat \ {0}
      /\ row.cursor = n
      /\ row.finishing => n = Len(bl)
      /\ page = PageOf(row, bl, limit)
      /\ known = keys \cap CallsOf(page)
      /\ ~row.finishing => keys = CallsTo(bl, n)
  BY DEF IsRead
<1> DEFINE m == n + Len(page)
<1>1. Len(bl) \in Nat /\ n \in Nat
  BY <1>0 DEF IsTranscript
<1>2. /\ Len(page) \in Nat /\ n \in 0..m /\ m \in 0..Len(bl) /\ Stretch(page, bl, n, m)
      /\ page # <<>> => Len(page) # 0 /\ page[Len(page)] = bl[m]
      /\ page = <<>> => Len(page) = 0
      /\ Len(page) < limit => m = Len(bl)
  BY <1>0, PageIsStretch
<1>3. m \in Nat /\ Len(page) = m - n
  BY <1>1, <1>2
<1>4. row.finishing => page = <<>>
  BY <1>0 DEF PageOf
<1>5. known = CallsTo(bl, n) \cap CallsOf(page)
  <2>1. CASE row.finishing
    <3>1. CallsOf(page) = {}
      BY <1>4, <2>1 DEF CallsOf
    <3> QED  BY <1>0, <3>1
  <2>2. CASE ~row.finishing
    BY <1>0, <2>2
  <2> QED  BY <2>1, <2>2
<1> HIDE DEF m
<1>6. Counts(page, CarryAt(bl, n), known) = Tally(bl, n, m)
  <2>1. Counts(page, CarryAt(bl, n), CallsTo(bl, n) \cap CallsOf(page)) = Tally(bl, n, m)
    BY <1>0, <1>2, PageCounts
  <2> QED  BY <1>5, <2>1
<1>7. Summed(Tally(bl, 0, n), Tally(bl, n, m)) = Tally(bl, 0, m)
  BY <1>2, <1>3, TalliesAdd
<1>8. ASSUME page # <<>>
      PROVE  [turn |-> page[Len(page)].turn, day |-> DayOf(page, CarryAt(bl, n), Len(page))] = CarryAt(bl, m)
  <2>1. m # n
    BY <1>1, <1>2, <1>3, <1>8
  <2> QED  BY <1>2, <1>3, <1>0, <2>1, CarryMoves
<1>9. CarryAt(bl, m) \in Turns
  BY <1>0, <1>2, CarryTyped
<1>10. CallsTo(bl, m) = CallsTo(bl, n) \cup (CallsOf(page) \ {NoCall})
  BY <1>2, <1>3, CallsGrow
<1>11. row.finishing => Len(page) < limit
  BY <1>0, <1>2, <1>4
<1>12. page = <<>> => m = n
  BY <1>1, <1>2, <1>3
<1>13. Summed(Tally(bl, 0, n), Counts(page, CarryAt(bl, n), known)) = Tally(bl, 0, m)
  BY <1>6, <1>7
<1>14. ~row.finishing => keys \cup (CallsOf(page) \ {NoCall}) = CallsTo(bl, m)
  BY <1>0, <1>10
<1> QED  BY <1>2, <1>8, <1>9, <1>11, <1>12, <1>13, <1>14 DEF m, Adds

(* A commit.                                                                *)
LEMMA CommitCounts ==
  ASSUME RInv, NEW p \in Passes, pass[p].pc = "commit", Unmoved(p),
         NEW s, s = pass[p].s, NEW row, row = pass[p].row, NEW page, page = pass[p].page, NEW n, n = row.cursor
  PROVE  /\ s \in RollSessions /\ rollup[s] = row /\ row \in RollupRows /\ row.eligible /\ row.gen \in 1..parses
         /\ row.status # "ready" /\ indexed[s]
         /\ n + Len(page) \in 0..Len(BlocksOf(s))
         /\ Summed(buckets[s], Counts(page, Carried(p), pass[p].known))
              = Tally(BlocksOf(s), 0, n + Len(page))
         /\ TurnAfter(p) = CarryAt(BlocksOf(s), n + Len(page)) /\ TurnAfter(p) \in Turns
         /\ ~row.finishing => seen[s] \cup (CallsOf(page) \ {NoCall})
                                = CallsTo(BlocksOf(s), n + Len(page))
         /\ Len(page) < pass[p].limit => n + Len(page) = Len(BlocksOf(s))
         /\ row.finishing => Len(page) < pass[p].limit
<1> DEFINE bl == BlocksOf(s)
           limit == pass[p].limit
           m == n + Len(page)
<1>1. s \in RollSessions /\ row \in RollupRows /\ row.eligible /\ row.gen \in 1..parses /\ row.status # "ready"
      /\ limit \in Nat \ {0} /\ n \in Nat
  <2>1. PassTyped(p) /\ pass[p].pc \in PageSteps
    BY DEF RInv, PageSteps
  <2>2. s \in RollSessions /\ row \in RollupRows /\ row.eligible /\ row.gen \in 1..parses /\ row.status # "ready"
        /\ limit \in Nat \ {0}
    BY <2>1 DEF PassTyped
  <2> QED  BY <2>2 DEF RollupRows
<1>2. rollup[s] = row /\ indexed[s]
  <2>1. HeldIsCurrent(p) /\ pass[p].pc \in PageSteps
    BY DEF RInv, PageSteps
  <2>2. rollup[s].gen = row.gen /\ rollup[s].token = row.token /\ rollup[s].status # "ready" /\ indexed[s]
    BY DEF Unmoved, Due
  <2>3. rollup[s] = row \/ MovedOn(row, rollup[s])
    BY <2>1, <2>2 DEF HeldIsCurrent
  <2>4. row.token \in Nat
    BY <1>1 DEF RollupRows
  <2> QED  BY <2>2, <2>3, <2>4 DEF MovedOn
<1>3. page = PageOf(row, bl, limit) /\ pass[p].known = seen[s] \cap CallsOf(page)
  BY <1>2 DEF RInv, HeldIsCurrent, PageSteps
<1>4. CountedTo(s)
  BY <1>1, <1>2 DEF RInv, CountsHold
<1>5. IsTranscript(bl)
  BY <1>1, RollupAssumption DEF RInv, ContentTyped, BlocksOf
<1>6. Len(bl) \in Nat
  BY <1>5 DEF IsTranscript
<1>7. n \in 0..Len(bl) /\ (row.finishing => n = Len(bl))
  BY <1>1, <1>2, <1>4, <1>6 DEF CountedTo
<1>8. /\ buckets[s] = Tally(bl, 0, n) /\ row.turn = CarryAt(bl, n)
      /\ ~row.finishing => seen[s] = CallsTo(bl, n)
  BY <1>1, <1>2, <1>4 DEF CountedTo
<1> HIDE DEF bl, limit
<1>9. Adds(bl, n, row, limit, page, seen[s], pass[p].known)
  <2>1. IsRead(bl, n, row, limit, page, seen[s], pass[p].known)
    BY <1>1, <1>3, <1>5, <1>7, <1>8 DEF IsRead
  <2> QED  BY <2>1, PageAdds
<1> HIDE DEF m
<1>10. Summed(buckets[s], Counts(page, Carried(p), pass[p].known)) = Tally(bl, 0, m)
  BY <1>8, <1>9 DEF Carried, Adds, m
<1>11. TurnAfter(p) = CarryAt(bl, m)
  BY <1>8, <1>9 DEF TurnAfter, Carried, Last, Adds, m
<1> QED  BY <1>1, <1>2, <1>9, <1>10, <1>11 DEF bl, limit, m, Adds

(* The least of a set in the order of the last attempts.                    *)
LEMMA FirstIsOne ==
  ASSUME attempts \in [RollSessions -> Nat], NEW S, S \subseteq RollSessions, S # {}
  PROVE  First(S) \in S
<1> DEFINE V == {attempts[s] : s \in S}
<1>0. RollSessions \subseteq Nat
  BY RollupAssumption
<1>1. V \subseteq Nat /\ V # {}
  OBVIOUS
<1>2. PICK v \in V : \A k \in V : v <= k
  <2> HIDE DEF V
  <2> QED  BY <1>1, LeastNatural
<1> DEFINE W == {s \in S : attempts[s] = v}
<1>3. W \subseteq Nat /\ W # {}
  BY <1>0
<1>4. PICK w \in W : \A k \in W : w <= k
  <2> HIDE DEF W
  <2> QED  BY <1>3, LeastNatural
<1>5. ASSUME NEW t \in S \ {w} PROVE Before(w, t)
  <2>1. attempts[t] \in Nat /\ v \in Nat /\ v <= attempts[t] /\ attempts[w] = v /\ t \in Nat /\ w \in Nat
    BY <1>0, <1>1, <1>2
  <2>2. CASE attempts[t] = v
    <3>1. w <= t /\ w # t
      BY <1>4, <2>2
    <3> QED  BY <2>1, <2>2, <3>1 DEF Before
  <2>3. CASE attempts[t] # v
    BY <2>1, <2>3 DEF Before
  <2> QED  BY <2>2, <2>3
<1>6. w \in S /\ \A t \in S \ {w} : Before(w, t)
  BY <1>5
<1> QED  BY <1>6, Zenon DEF First

-----------------------------------------------------------------------------
LEMMA CommitBatchKeeps ==
  ASSUME RInv, NEW p \in Passes, pass[p].pc = "commit", CommitBatch(p), UNCHANGED <<contentVars, rplan>>,
         DOMAIN pass' = Passes
  PROVE  /\ ContentTyped' /\ TablesTyped' /\ WriterTyped' /\ CountsHold' /\ KeysAreCalls' /\ HeldStays
         /\ parses' \in Nat /\ parses <= parses'
<1>1. CASE ~Unmoved(p)
  <2>1. UNCHANGED rollVars
    BY <1>1 DEF CommitBatch
  <2>2. attempts' \in [RollSessions -> Nat]
    BY <2>1 DEF rollVars, RInv, TablesTyped
  <2> QED  BY <2>1, <2>2, TablesKept DEF rollVars
<1>2. CASE Unmoved(p)
  <2>1. PICK s : s = pass[p].s
    OBVIOUS
  <2>2. PICK row : row = pass[p].row
    OBVIOUS
  <2>3. PICK page : page = pass[p].page
    OBVIOUS
  <2>4. PICK n : n = row.cursor
    OBVIOUS
  <2> DEFINE bl == BlocksOf(s)
             m == n + Len(page)
             keys == seen[s] \cup (CallsOf(page) \ {NoCall})
             complete == Len(page) < pass[p].limit
             ready == [row EXCEPT !.status = "ready", !.cursor = m, !.finishing = TRUE, !.turn = NoTurn, !.token = 0]
             going == [row EXCEPT !.status = "building", !.cursor = m, !.finishing = complete, !.turn = TurnAfter(p),
                                  !.token = row.token + 1]
  <2>5. /\ s \in RollSessions /\ rollup[s] = row /\ row \in RollupRows /\ row.eligible /\ row.gen \in 1..parses
        /\ row.status # "ready" /\ indexed[s]
        /\ m \in 0..Len(bl)
        /\ Summed(buckets[s], Counts(page, Carried(p), pass[p].known)) = Tally(bl, 0, m)
        /\ TurnAfter(p) = CarryAt(bl, m) /\ TurnAfter(p) \in Turns
        /\ ~row.finishing => keys = CallsTo(bl, m)
        /\ complete => m = Len(bl)
        /\ row.finishing => complete
    BY <1>2, <2>1, <2>2, <2>3, <2>4, CommitCounts
  <2>6. m \in Nat /\ m <= Len(bl) /\ row.token \in Nat
    <3>1. row.token \in Nat
      BY <2>5 DEF RollupRows
    <3> HIDE DEF m, bl
    <3> QED  BY <2>5, <3>1
  <2>7. PICK left \in (IF complete THEN SeenLeft(s, keys) ELSE {keys}) :
          /\ seen' = [seen EXCEPT ![s] = left]
          /\ buckets' = [buckets EXCEPT ![s] = Summed(@, Counts(page, Carried(p), pass[p].known))]
          /\ rollup' = [rollup EXCEPT ![s] = IF complete /\ left = {} THEN ready ELSE going]
          /\ Touched(s)
    <3> HIDE DEF bl
    <3> QED  BY <1>2, <2>1, <2>2, <2>3, <2>4 DEF CommitBatch
  <2>8. left \subseteq keys /\ (~complete => left = keys)
    BY <2>7 DEF SeenLeft
  <2>9. /\ ready \in RollupRows /\ ready.gen = row.gen /\ ready.eligible /\ ready.status = "ready" /\ ready.cursor = m
        /\ ready.finishing
    <3>1. "ready" \in Statuses /\ NoTurn \in Turns
      BY DEF Statuses, NoTurn, Turns
    <3> HIDE DEF m
    <3> QED  BY <2>5, <2>6, <3>1 DEF RollupRows
  <2>10. /\ going \in RollupRows /\ going.gen = row.gen /\ going.eligible /\ going.status = "building" /\ going.cursor = m
         /\ (going.finishing <=> complete) /\ going.turn = CarryAt(bl, m) /\ going.token = row.token + 1
    <3>1. "building" \in Statuses
      BY DEF Statuses
    <3>5. row \in RollupRows /\ m \in Nat /\ TurnAfter(p) \in Turns /\ row.token + 1 \in Nat
      BY <2>5, <2>6
    <3>2. CASE complete = TRUE
      <4>1. going = [row EXCEPT !.status = "building", !.cursor = m, !.finishing = TRUE, !.turn = TurnAfter(p),
                                !.token = row.token + 1]
        BY <3>2, Zenon
      <4> HIDE DEF m, bl, going, complete
      <4>2. going \in RollupRows
        BY <3>1, <3>5, <4>1 DEF RollupRows
      <4>3. going.gen = row.gen /\ going.eligible /\ going.status = "building" /\ going.cursor = m
            /\ going.turn = TurnAfter(p) /\ going.token = row.token + 1
        BY <2>5, <4>1 DEF RollupRows
      <4>4. going.finishing
        BY <2>5, <4>1 DEF RollupRows
      <4>5. complete
        BY <3>2
      <4> QED  BY <2>5, <4>2, <4>3, <4>4, <4>5
    <3>3. CASE complete = FALSE
      <4>1. going = [row EXCEPT !.status = "building", !.cursor = m, !.finishing = FALSE, !.turn = TurnAfter(p),
                                !.token = row.token + 1]
        BY <3>3, Zenon
      <4> HIDE DEF m, bl, going, complete
      <4>2. going \in RollupRows
        BY <3>1, <3>5, <4>1 DEF RollupRows
      <4>3. going.gen = row.gen /\ going.eligible /\ going.status = "building" /\ going.cursor = m
            /\ going.turn = TurnAfter(p) /\ going.token = row.token + 1
        BY <2>5, <4>1 DEF RollupRows
      <4>4. ~going.finishing
        BY <2>5, <4>1 DEF RollupRows
      <4>5. ~complete
        BY <3>3
      <4> QED  BY <2>5, <4>2, <4>3, <4>4, <4>5
    <3>4. complete = TRUE \/ complete = FALSE
      OBVIOUS
    <3> QED  BY <3>2, <3>3, <3>4
  <2> HIDE DEF ready, going
  <2> DEFINE new == IF complete /\ left = {} THEN ready ELSE going
  <2>11. /\ rollup' = [rollup EXCEPT ![s] = new] /\ seen' = [seen EXCEPT ![s] = left] /\ new \in RollupRows
         /\ buckets' = [buckets EXCEPT ![s] = Tally(bl, 0, m)]
    BY <2>5, <2>7, <2>9, <2>10
  <2>12. /\ new.gen = row.gen /\ new.eligible /\ new.cursor = m
         /\ new.status # "ready" => new.turn = CarryAt(bl, m) /\ new.token = row.token + 1 /\ (new.finishing <=> complete)
         /\ new.status = "ready" => new.finishing /\ complete
    BY <2>9, <2>10
  <2> HIDE DEF new
  <2>13. ContentTyped' /\ parses' \in Nat /\ parses <= parses'
    BY DEF RInv, ContentTyped, contentVars
  <2>14. TablesTyped'
    <3>1. attempts' \in [RollSessions -> Nat]
      BY <2>5, <2>7, AttemptsTyped
    <3> QED  BY <2>5, <2>11, <3>1 DEF RInv, TablesTyped
  <2>15. WriterTyped'
    BY <2>5, <2>11, <2>12 DEF RInv, WriterTyped, TablesTyped, contentVars
  <2>16. CountsHold'
    <3>1. ASSUME NEW t \in RollSessions PROVE (IF rollup[t].eligible THEN CountedTo(t) ELSE NotCounted(t))'
      <4>1. CASE t = s
        <5>1. rollup'[s] = new /\ buckets'[s] = Tally(bl, 0, m) /\ seen'[s] = left /\ indexed'[s]
          BY <2>5, <2>11 DEF RInv, TablesTyped, contentVars
        <5>2. BlocksOf(s)' = bl /\ parses' = parses
          BY DEF BlocksOf, contentVars
        <5>3. new.finishing => m = Len(bl)
          BY <2>5, <2>12
        <5>4. ~new.finishing => left = CallsTo(bl, m)
          BY <2>5, <2>8, <2>12
        <5> HIDE DEF bl, m, complete, keys
        <5> QED  BY <2>5, <2>6, <2>12, <4>1, <5>1, <5>2, <5>3, <5>4 DEF CountedTo
      <4>2. CASE t # s
        BY <2>5, <2>11, <4>2 DEF RInv, CountsHold, TablesTyped, CountedTo, NotCounted, BlocksOf, contentVars
      <4> QED  BY <4>1, <4>2
    <3> QED  BY <3>1 DEF CountsHold
  <2>17. KeysAreCalls'
    BY <2>5, <2>8, <2>11 DEF RInv, KeysAreCalls, TablesTyped
  <2>18. HeldStays
    <3> SUFFICES ASSUME NEW t \in RollSessions, NEW r \in RollupRows, Holdable(r),
                        rollup[t].gen = r.gen => rollup[t] = r \/ MovedOn(r, rollup[t])
                 PROVE  /\ rollup'[t].gen = r.gen => rollup'[t] = r \/ MovedOn(r, rollup'[t])
                        /\ rollup'[t] = r => rollup[t] = r /\ seen'[t] = seen[t] /\ shard'[t] = shard[t]
      BY DEF HeldStays
    <3>1. CASE t # s
      BY <2>5, <2>11, <3>1 DEF RInv, TablesTyped, contentVars
    <3>2. CASE t = s
      <4>1. rollup'[s] = new /\ r.token \in Nat
        BY <2>5, <2>11 DEF RInv, TablesTyped, RollupRows
      <4>2. CASE r.gen # row.gen
        BY <2>12, <3>2, <4>1, <4>2
      <4>3. CASE r.gen = row.gen
        <5>1. row = r \/ row.token > r.token
          BY <2>5, <3>2, <4>3 DEF MovedOn
        <5>2. row.token >= r.token
          BY <2>6, <4>1, <5>1
        <5>3. new.status = "ready" \/ new.token > r.token
          BY <2>6, <2>12, <4>1, <5>2
        <5>4. new # r
          BY <2>12, <4>1, <5>3 DEF Holdable
        <5> QED  BY <2>12, <3>2, <4>1, <5>3, <5>4 DEF MovedOn
      <4> QED  BY <4>2, <4>3
    <3> QED  BY <3>1, <3>2
  <2> QED  BY <2>13, <2>14, <2>15, <2>16, <2>17, <2>18
<1> QED  BY <1>1, <1>2

-----------------------------------------------------------------------------
(* The passes.                                                              *)
TablesHold == ContentTyped /\ TablesTyped /\ WriterTyped /\ CountsHold /\ KeysAreCalls

LEMMA StepKeeps ==
  ASSUME RInv, TablesHold', HeldStays, parses' \in Nat, parses <= parses', JobTyped',
         \A q \in Passes : pass'[q] = pass[q] \/ (PassTyped(q)' /\ HeldIsCurrent(q)')
  PROVE  RInv'
<1>1. \A q \in Passes : PassTyped(q)' /\ HeldIsCurrent(q)'
  BY OtherPassKeeps
<1> QED  BY <1>1 DEF RInv, TablesHold

Fields == {"pc", "pages", "examined", "failed", "s", "row", "page", "known", "limit", "thrown"}

LEMMA RestingIs ==
  /\ DOMAIN Resting = Fields
  /\ Resting.pc = "idle" /\ Resting.examined = 0 /\ Resting.failed = {}
BY DEF Resting, Fields

(* A pass that holds no row.                                                *)
LEMMA EmptyHanded ==
  ASSUME NEW q, NEW new, pass'[q] = new, DOMAIN new = Fields, new.pc \in {"idle", "select", "over"},
         new.examined \in Nat, new.failed \subseteq RollSessions
  PROVE  PassTyped(q)' /\ HeldIsCurrent(q)'
BY RestingIs DEF PassTyped, HeldIsCurrent, PageSteps

(* Steps of passes that touch no table.                                     *)
LEMMA PassStepKeeps ==
  ASSUME RInv, UNCHANGED <<contentVars, rollVars, rplan>>, JobTyped', NEW p \in Passes, NEW new,
         pass' = [pass EXCEPT ![p] = new], PassTyped(p)' /\ HeldIsCurrent(p)'
  PROVE  RInv'
<1>1. DOMAIN pass = Passes
  BY DEF RInv, TablesTyped
<1>2. DOMAIN pass' = Passes /\ \A q \in Passes : pass'[q] = pass[q] \/ (PassTyped(q)' /\ HeldIsCurrent(q)')
  <2>1. \A q \in Passes : q # p => pass'[q] = pass[q]
    BY <1>1
  <2> QED  BY <1>1, <2>1
<1>3. attempts' \in [RollSessions -> Nat]
  BY DEF RInv, TablesTyped, rollVars
<1>4. TablesHold' /\ HeldStays /\ parses' \in Nat /\ parses <= parses'
  BY <1>2, <1>3, TablesKept DEF rollVars, TablesHold
<1> QED  BY <1>2, <1>4, StepKeeps

LEMMA JobsKept ==
  ASSUME RInv, UNCHANGED jobVars
  PROVE  JobTyped'
BY DEF RInv, JobTyped, jobVars

LEMMA StartKeeps ==
  ASSUME RInv, StartScheduled
  PROVE  RInv'
<1> DEFINE new == [pass["scheduled"] EXCEPT !.pc = "select"]
<1>1. pass["scheduled"] = Resting /\ "scheduled" \in Passes /\ DOMAIN pass = Passes
  BY DEF StartScheduled, Passes, RInv, TablesTyped
<1>2. pass' = [pass EXCEPT !["scheduled"] = new]
  BY <1>1 DEF StartScheduled, Step
<1>3. pass'["scheduled"] = new /\ DOMAIN new = Fields /\ new.pc = "select" /\ new.examined = 0 /\ new.failed = {}
  BY <1>1, <1>2, RestingIs DEF Fields
<1> HIDE DEF new
<1>4. (PassTyped("scheduled") /\ HeldIsCurrent("scheduled"))'
  BY <1>3, EmptyHanded
<1>5. UNCHANGED <<contentVars, rollVars, rplan>> /\ JobTyped'
  BY JobsKept DEF StartScheduled
<1> QED  BY <1>1, <1>2, <1>4, <1>5, PassStepKeeps

LEMMA SelectKeeps ==
  ASSUME RInv, NEW p \in Passes, SelectCheckpoint(p)
  PROVE  RInv'
<1> DEFINE due == {s \in RollSessions : Due(s)} \ pass[p].failed
           old == pass[p]
           taken == [old EXCEPT !.pc = "read", !.s = First(due), !.row = rollup[First(due)], !.pages = old.pages + 1,
                                !.limit = LowerOf(RollPage, MaxBlocks - old.examined)]
           ended == [Resting EXCEPT !.pc = "over", !.failed = old.failed]
           takes == old.pages < rplan.pages /\ old.examined < MaxBlocks /\ due # {}
           new == IF takes THEN taken ELSE ended
<1>1. DOMAIN old = Fields /\ old.examined \in Nat /\ old.failed \subseteq RollSessions /\ DOMAIN pass = Passes
  BY RestingIs DEF RInv, PassTyped, TablesTyped
<1>2. pass' = [pass EXCEPT ![p] = new]
  BY DEF SelectCheckpoint
<1>3. UNCHANGED <<contentVars, rollVars, rplan>> /\ JobTyped'
  BY JobsKept DEF SelectCheckpoint
<1>4. pass'[p] = new
  BY <1>1, <1>2
<1>5. CASE ~takes
  <2>1. DOMAIN ended = Fields /\ ended.pc = "over" /\ ended.examined = 0 /\ ended.failed = old.failed
    BY RestingIs DEF Fields
  <2> HIDE DEF ended, takes
  <2>2. (PassTyped(p) /\ HeldIsCurrent(p))'
    BY <1>1, <1>4, <1>5, <2>1, EmptyHanded
  <2> HIDE DEF new
  <2> QED  BY <1>2, <1>3, <2>2, PassStepKeeps
<1>6. CASE takes
  <2>1. PICK s : s = First(due)
    OBVIOUS
  <2>2. s \in RollSessions /\ Due(s)
    <3>1. due \subseteq RollSessions /\ due # {}
      BY <1>6
    <3>2. attempts \in [RollSessions -> Nat]
      BY DEF RInv, TablesTyped
    <3>3. First(due) \in due
      <4> HIDE DEF due
      <4> QED  BY <3>1, <3>2, FirstIsOne
    <3> QED  BY <2>1, <3>3
  <2>3. rollup[s] \in RollupRows /\ rollup[s].eligible /\ rollup[s].gen \in 1..parses /\ rollup[s].status # "ready"
    <3>1. rollup[s] \in RollupRows /\ rollup[s].eligible /\ rollup[s].status # "ready"
      BY <2>2 DEF RInv, TablesTyped, Due
    <3> QED  BY <2>2, <3>1 DEF RInv, CountsHold, CountedTo
  <2>4. LowerOf(RollPage, MaxBlocks - old.examined) \in Nat \ {0}
    <3>1. RollPage \in Nat /\ RollPage # 0 /\ MaxBlocks \in Nat /\ old.examined < MaxBlocks
      BY <1>6, RollupAssumption
    <3>2. MaxBlocks - old.examined \in Nat /\ MaxBlocks - old.examined # 0
      BY <1>1, <3>1
    <3> QED  BY <3>1, <3>2 DEF LowerOf
  <2>5. /\ DOMAIN taken = Fields /\ taken.pc = "read" /\ taken.s = s /\ taken.row = rollup[s]
        /\ taken.examined = old.examined /\ taken.failed = old.failed
        /\ taken.limit = LowerOf(RollPage, MaxBlocks - old.examined)
    BY <1>1, <2>1 DEF Fields
  <2>6. pass'[p] = taken
    BY <1>4, <1>6
  <2> HIDE DEF taken, new
  <2>7. PassTyped(p)'
    BY <1>1, <1>3, <2>2, <2>3, <2>4, <2>5, <2>6, RestingIs DEF PassTyped, PageSteps, contentVars
  <2>8. HeldIsCurrent(p)'
    BY <1>3, <2>5, <2>6 DEF HeldIsCurrent, PageSteps, rollVars
  <2> QED  BY <1>2, <1>3, <2>7, <2>8, PassStepKeeps
<1> QED  BY <1>5, <1>6

LEMMA ReadPageKeeps ==
  ASSUME RInv, NEW p \in Passes, ReadPage(p)
  PROVE  RInv'
<1> DEFINE old == pass[p]
           bl == BlocksOf(old.s)
           page == PageOf(old.row, bl, old.limit)
           new == [old EXCEPT !.pc = "known", !.page = page, !.examined = old.examined + Len(page)]
<1>1. DOMAIN old = Fields /\ old.examined \in Nat /\ old.failed \subseteq RollSessions /\ DOMAIN pass = Passes
      /\ old.pc = "read"
  BY RestingIs DEF RInv, PassTyped, TablesTyped, ReadPage
<1>2. /\ old.s \in RollSessions /\ old.row \in RollupRows /\ old.limit \in Nat \ {0}
      /\ old.row.eligible /\ old.row.gen \in 1..parses /\ old.row.status # "ready"
      /\ rollup[old.s].gen = old.row.gen => rollup[old.s] = old.row \/ MovedOn(old.row, rollup[old.s])
  <2>1. PassTyped(p) /\ HeldIsCurrent(p) /\ pass[p].pc \in PageSteps
    BY <1>1 DEF RInv, PageSteps
  <2> QED  BY <2>1 DEF PassTyped, HeldIsCurrent
<1>3. pass' = [pass EXCEPT ![p] = new]
  BY DEF ReadPage, PageOf, BlocksOf
<1>4. Len(page) \in Nat
  <2>1. CASE old.row.finishing
    BY <2>1 DEF PageOf
  <2>2. CASE ~old.row.finishing
    <3> DEFINE S == {bl[i] : i \in DOMAIN bl}
               k == LowerOf(Len(bl), old.row.cursor + old.limit)
    <3>1. IsTranscript(bl) /\ old.row.cursor \in Nat
      BY <1>2, RollupAssumption DEF RInv, ContentTyped, BlocksOf, RollupRows
    <3> HIDE DEF bl
    <3>2. bl \in Seq(S) /\ Len(bl) \in Nat /\ DOMAIN bl = 1..Len(bl)
      BY <3>1 DEF IsTranscript
    <3>3. old.limit \in Nat
      BY <1>2
    <3>4. Len(bl) \in Nat
      BY <3>2
    <3>5. k \in Int /\ old.row.cursor + 1 \in Int /\ k <= Len(bl)
      BY <3>1, <3>3, <3>4 DEF LowerOf
    <3> HIDE DEF k, S
    <3>6. \A i \in (old.row.cursor + 1)..k : i \in 1..Len(bl)
      BY <3>1, <3>4, <3>5
    <3>7. \A i \in (old.row.cursor + 1)..k : bl[i] \in S
      BY <3>2, <3>6 DEF S
    <3>8. Len(SubSeq(bl, old.row.cursor + 1, k)) = IF old.row.cursor + 1 <= k THEN k - (old.row.cursor + 1) + 1 ELSE 0
      BY <3>5, <3>7, SubSeqProperties
    <3>9. page = SubSeq(bl, old.row.cursor + 1, k)
      BY <2>2 DEF PageOf, k
    <3>10. \A lo, hi \in Int : (IF lo <= hi THEN hi - lo + 1 ELSE 0) \in Nat
      OBVIOUS
    <3>11. Len(SubSeq(bl, old.row.cursor + 1, k)) \in Nat
      <4> HIDE DEF old
      <4> QED  BY <3>5, <3>8, <3>10
    <3> HIDE DEF page, old
    <3> QED  BY <3>9, <3>11
  <2> QED  BY <2>1, <2>2
<1>5. UNCHANGED <<contentVars, rollVars, rplan>> /\ JobTyped'
  BY JobsKept DEF ReadPage
<1> HIDE DEF page
<1>6. /\ DOMAIN new = Fields /\ new.pc = "known" /\ new.s = old.s /\ new.row = old.row /\ new.limit = old.limit
      /\ new.examined \in Nat /\ new.failed = old.failed /\ new.page = page
  BY <1>1, <1>4 DEF Fields
<1>7. pass'[p] = new
  BY <1>1, <1>3
<1> HIDE DEF new
<1>8. PassTyped(p)'
  BY <1>1, <1>2, <1>5, <1>6, <1>7, RestingIs DEF PassTyped, PageSteps, contentVars
<1>9. HeldIsCurrent(p)'
  BY <1>1, <1>2, <1>5, <1>6, <1>7 DEF HeldIsCurrent, PageSteps, rollVars, contentVars, page, BlocksOf
<1> QED  BY <1>3, <1>5, <1>8, <1>9, PassStepKeeps

LEMMA ReadKnownKeeps ==
  ASSUME RInv, NEW p \in Passes, ReadKnown(p)
  PROVE  RInv'
<1> DEFINE old == pass[p]
           new == [old EXCEPT !.pc = "commit", !.known = seen[old.s] \cap CallsOf(old.page)]
<1>1. DOMAIN old = Fields /\ old.pc = "known" /\ DOMAIN pass = Passes
  BY RestingIs DEF RInv, PassTyped, TablesTyped, ReadKnown
<1>2. PassTyped(p) /\ HeldIsCurrent(p)
  BY DEF RInv
<1>3. pass' = [pass EXCEPT ![p] = new]
  BY DEF ReadKnown
<1>4. UNCHANGED <<contentVars, rollVars, rplan>> /\ JobTyped'
  BY JobsKept DEF ReadKnown
<1>5. /\ DOMAIN new = Fields /\ new.pc = "commit" /\ new.s = old.s /\ new.row = old.row /\ new.limit = old.limit
      /\ new.examined = old.examined /\ new.failed = old.failed /\ new.page = old.page
      /\ new.known = seen[old.s] \cap CallsOf(old.page)
  BY <1>1 DEF Fields
<1>6. pass'[p] = new
  BY <1>1, <1>3
<1> HIDE DEF new
<1>7. PassTyped(p)'
  BY <1>1, <1>2, <1>4, <1>5, <1>6, RestingIs DEF PassTyped, PageSteps, contentVars
<1>8. HeldIsCurrent(p)'
  BY <1>1, <1>2, <1>4, <1>5, <1>6 DEF HeldIsCurrent, PageSteps, rollVars, contentVars, BlocksOf
<1> QED  BY <1>3, <1>4, <1>7, <1>8, PassStepKeeps

(* After a page a pass holds no row.                                        *)
LEMMA AfterPageIs ==
  ASSUME RInv, NEW p \in Passes
  PROVE  /\ DOMAIN AfterPage(p) = Fields /\ AfterPage(p).pc = "select" /\ AfterPage(p).examined \in Nat
         /\ AfterPage(p).failed = pass[p].failed /\ pass[p].failed \subseteq RollSessions
<1>1. DOMAIN pass[p] = Fields /\ pass[p].examined \in Nat /\ pass[p].failed \subseteq RollSessions
  BY RestingIs DEF RInv, PassTyped
<1> QED  BY <1>1 DEF AfterPage, Fields

LEMMA CommitPageKeeps ==
  ASSUME RInv, NEW p \in Passes, CommitPage(p)
  PROVE  RInv'
<1> DEFINE new == AfterPage(p)
<1>1. pass' = [pass EXCEPT ![p] = new] /\ DOMAIN pass = Passes
  BY DEF CommitPage, RInv, TablesTyped
<1>2. pass'[p] = new /\ DOMAIN pass' = Passes /\ \A q \in Passes : q # p => pass'[q] = pass[q]
  BY <1>1
<1>3. (PassTyped(p) /\ HeldIsCurrent(p))'
  BY <1>2, AfterPageIs, EmptyHanded
<1>4. TablesHold' /\ HeldStays /\ parses' \in Nat /\ parses <= parses'
  BY <1>2, CommitBatchKeeps DEF CommitPage, TablesHold
<1>5. JobTyped'
  BY JobsKept DEF CommitPage
<1> QED  BY <1>2, <1>3, <1>4, <1>5, StepKeeps

LEMMA FailPageKeeps ==
  ASSUME RInv, NEW p \in Passes, FailPage(p)
  PROVE  RInv'
<1> DEFINE old == pass[p]
           new == [old EXCEPT !.pc = "defer"]
<1>1. DOMAIN old = Fields /\ old.pc \in PageSteps /\ DOMAIN pass = Passes
  BY RestingIs DEF RInv, PassTyped, TablesTyped, FailPage, PageSteps
<1>2. PassTyped(p) /\ HeldIsCurrent(p)
  BY DEF RInv
<1>3. pass' = [pass EXCEPT ![p] = new]
  BY DEF FailPage, Step
<1>4. /\ DOMAIN new = Fields /\ new.pc = "defer" /\ new.s = old.s /\ new.row = old.row /\ new.limit = old.limit
      /\ new.examined = old.examined /\ new.failed = old.failed
  BY <1>1 DEF Fields
<1>5. pass'[p] = new /\ DOMAIN pass' = Passes /\ \A q \in Passes : q # p => pass'[q] = pass[q]
  BY <1>1, <1>3
<1> HIDE DEF new
<1>6. TablesHold' /\ HeldStays /\ parses' \in Nat /\ parses <= parses'
  <2>1. CASE UNCHANGED rollVars
    <3>1. attempts' \in [RollSessions -> Nat]
      BY <2>1 DEF RInv, TablesTyped, rollVars
    <3> QED  BY <1>5, <2>1, <3>1, TablesKept DEF FailPage, TablesHold, rollVars
  <2>2. CASE old.pc = "commit" /\ CommitBatch(p)
    BY <1>5, <2>2, CommitBatchKeeps DEF FailPage, TablesHold
  <2> QED  BY <2>1, <2>2 DEF FailPage, rollVars
<1>7. parses' = parses
  BY DEF FailPage, contentVars
<1>8. PassTyped(p)'
  BY <1>1, <1>2, <1>4, <1>5, <1>7, RestingIs DEF PassTyped, PageSteps
<1>9. HeldIsCurrent(p)'
  <2>1. old.s \in RollSessions /\ old.row \in RollupRows /\ Holdable(old.row)
        /\ (rollup[old.s].gen = old.row.gen => rollup[old.s] = old.row \/ MovedOn(old.row, rollup[old.s]))
    BY <1>1, <1>2 DEF PassTyped, HeldIsCurrent, Holdable
  <2>2. rollup'[old.s].gen = old.row.gen => rollup'[old.s] = old.row \/ MovedOn(old.row, rollup'[old.s])
    BY <1>6, <2>1 DEF HeldStays
  <2> QED  BY <1>4, <1>5, <2>2 DEF HeldIsCurrent, PageSteps
<1>10. JobTyped'
  BY JobsKept DEF FailPage
<1> QED  BY <1>5, <1>6, <1>8, <1>9, <1>10, StepKeeps

LEMMA DeferKeeps ==
  ASSUME RInv, NEW p \in Passes, Defer(p)
  PROVE  RInv'
<1> DEFINE new == [AfterPage(p) EXCEPT !.failed = pass[p].failed \cup {pass[p].s}]
<1>1. pass' = [pass EXCEPT ![p] = new] /\ DOMAIN pass = Passes
  BY DEF Defer, RInv, TablesTyped
<1>2. pass[p].s \in RollSessions
  BY DEF RInv, PassTyped, PageSteps, Defer
<1>3. DOMAIN new = Fields /\ new.pc = "select" /\ new.examined \in Nat /\ new.failed \subseteq RollSessions
  BY <1>2, AfterPageIs DEF Fields
<1> HIDE DEF new
<1>4. pass'[p] = new /\ DOMAIN pass' = Passes /\ \A q \in Passes : q # p => pass'[q] = pass[q]
  BY <1>1
<1>5. (PassTyped(p) /\ HeldIsCurrent(p))'
  BY <1>3, <1>4, EmptyHanded
<1>6. attempts' \in [RollSessions -> Nat]
  BY <1>2, AttemptsTyped DEF Defer, rollVars, RInv, TablesTyped
<1>7. TablesHold' /\ HeldStays /\ parses' \in Nat /\ parses <= parses'
  BY <1>4, <1>6, TablesKept DEF Defer, TablesHold, rollVars
<1>8. JobTyped'
  BY JobsKept DEF Defer
<1> QED  BY <1>4, <1>5, <1>7, <1>8, StepKeeps

(* A pass that is over, or gone.                                            *)
LEMMA OverKeeps ==
  ASSUME RInv, UNCHANGED <<contentVars, rollVars, rplan>>, JobTyped', NEW p \in Passes, NEW new,
         pass' = [pass EXCEPT ![p] = new], DOMAIN new = Fields, new.pc \in {"idle", "select", "over"},
         new.examined = 0, new.failed = {}
  PROVE  RInv'
<1>1. pass'[p] = new
  BY DEF RInv, TablesTyped
<1>2. (PassTyped(p) /\ HeldIsCurrent(p))'
  BY <1>1, EmptyHanded
<1> QED  BY <1>2, PassStepKeeps

LEMMA FailPassKeeps ==
  ASSUME RInv, NEW p \in Passes, FailPass(p)
  PROVE  RInv'
<1> DEFINE new == [Resting EXCEPT !.pc = "over", !.thrown = TRUE]
<1>1. pass' = [pass EXCEPT ![p] = new]
  BY DEF FailPass
<1>2. DOMAIN new = Fields /\ new.pc = "over" /\ new.examined = 0 /\ new.failed = {}
  BY RestingIs DEF Fields
<1>3. UNCHANGED <<contentVars, rollVars, rplan>> /\ JobTyped'
  BY JobsKept DEF FailPass
<1> HIDE DEF new
<1> QED  BY <1>1, <1>2, <1>3, OverKeeps

LEMMA EndKeeps ==
  ASSUME RInv, EndScheduled
  PROVE  RInv'
<1>1. UNCHANGED <<contentVars, rollVars, rplan>> /\ JobTyped'
  BY JobsKept DEF EndScheduled
<1>2. "scheduled" \in Passes /\ pass' = [pass EXCEPT !["scheduled"] = Resting]
  BY DEF Passes, EndScheduled
<1> QED  BY <1>1, <1>2, RestingIs, OverKeeps

-----------------------------------------------------------------------------
(* The job.                                                                 *)
JobStatuses == {"absent", "queued", "running", "complete", "partial", "failed"}

(* Steps that leave the passes alone too.                                   *)
LEMMA StillKeeps ==
  ASSUME RInv, UNCHANGED <<contentVars, rollVars, rplan, pass>>, JobTyped'
  PROVE  RInv'
<1>1. attempts' \in [RollSessions -> Nat] /\ DOMAIN pass' = Passes
  BY DEF RInv, TablesTyped, rollVars
<1>2. TablesHold' /\ HeldStays /\ parses' \in Nat /\ parses <= parses'
  BY <1>1, TablesKept DEF rollVars, TablesHold
<1> QED  BY <1>2, StepKeeps

LEMMA ExpiredIs ==
  ASSUME RInv
  PROVE  /\ Expired(job).status \in JobStatuses
         /\ Expired(job).owned => Expired(job).status = "running"
         /\ Expired(job).status # job.status => job.status \in {"queued", "running"}
         /\ DOMAIN Expired(job) = {"status", "owned", "late"}
BY DEF RInv, JobTyped, Expired, JobStatuses

LEMMA RetriedIs ==
  ASSUME RInv
  PROVE  /\ Retried.tries \in 0..MaxRetries /\ DOMAIN Retried = {"pc", "tries"}
         /\ Acked.tries \in 0..MaxRetries /\ DOMAIN Acked = {"pc", "tries"}
<1>1. MaxRetries \in Nat /\ delivery.tries \in 0..MaxRetries
  BY RollupAssumption DEF RInv, JobTyped
<1> QED  BY <1>1 DEF Retried, Acked

LEMMA CallerKeeps ==
  ASSUME RInv, Submit \/ SendJob \/ RejectJob \/ RunLate \/ Poll \/ Deliver \/ Outage
  PROVE  RInv'
<1>1. MaxRetries \in Nat /\ JobTyped
  BY RollupAssumption DEF RInv
<1>2. 0 \in 0..MaxRetries
  BY <1>1
<1>3. CASE Submit
  <2>1. JobTyped'
    BY <1>1, <1>3 DEF JobTyped, Submit
  <2> QED  BY <1>3, <2>1, StillKeeps DEF Submit
<1>4. CASE SendJob
  <2>1. caller' # "new" /\ UNCHANGED job /\ (delivery' = delivery \/ delivery' = [pc |-> "queued", tries |-> 0])
    BY <1>4 DEF SendJob
  <2>2. JobTyped'
    BY <1>1, <1>2, <2>1 DEF JobTyped
  <2> QED  BY <1>4, <2>2, StillKeeps DEF SendJob
<1>5. CASE RejectJob
  <2>1. JobTyped'
    BY <1>1, <1>5 DEF JobTyped, RejectJob
  <2> QED  BY <1>5, <2>1, StillKeeps DEF RejectJob
<1>6. CASE RunLate
  <2>1. job' = [job EXCEPT !.late = TRUE] /\ UNCHANGED <<caller, delivery>>
    BY <1>6 DEF RunLate
  <2>2. JobTyped'
    BY <1>1, <2>1 DEF JobTyped
  <2> QED  BY <1>6, <2>2, StillKeeps DEF RunLate
<1>7. CASE Poll
  <2>1. JobTyped'
    BY <1>1, <1>7, ExpiredIs DEF JobTyped, Poll, JobStatuses
  <2> QED  BY <1>7, <2>1, StillKeeps DEF Poll
<1>8. CASE Deliver
  <2>1. JobTyped'
    BY <1>1, <1>8, ExpiredIs DEF JobTyped, Deliver, JobStatuses
  <2> QED  BY <1>8, <2>1, StillKeeps DEF Deliver
<1>9. CASE Outage
  <2>1. JobTyped'
    BY <1>1, <1>9, RetriedIs DEF JobTyped, Outage
  <2> QED  BY <1>9, <2>1, StillKeeps DEF Outage
<1> QED  BY <1>3, <1>4, <1>5, <1>6, <1>7, <1>8, <1>9

LEMMA ClaimKeeps ==
  ASSUME RInv, Claim
  PROVE  RInv'
<1>1. JobTyped
  BY DEF RInv
<1>2. CASE JobClaimable
  <2> DEFINE new == [Resting EXCEPT !.pc = "select"]
  <2>1. job.status = "queued" /\ caller # "new"
    BY <1>1, <1>2 DEF JobClaimable, JobTyped
  <2>2. JobTyped'
    BY <1>1, <1>2, <2>1 DEF Claim, JobTyped
  <2>3. pass' = [pass EXCEPT !["manual"] = new] /\ "manual" \in Passes
    BY <1>2 DEF Claim, Passes
  <2>4. DOMAIN new = Fields /\ new.pc = "select" /\ new.examined = 0 /\ new.failed = {}
    BY RestingIs DEF Fields
  <2>5. UNCHANGED <<contentVars, rollVars, rplan>>
    BY DEF Claim
  <2> HIDE DEF new
  <2> QED  BY <2>2, <2>3, <2>4, <2>5, OverKeeps
<1>3. CASE ~JobClaimable
  <2>1. JobTyped'
    BY <1>1, <1>3, RetriedIs DEF Claim, JobTyped
  <2> QED  BY <1>3, <2>1, StillKeeps DEF Claim
<1> QED  BY <1>2, <1>3

LEMMA PersistKeeps ==
  ASSUME RInv, Persist
  PROVE  RInv'
<1>1. JobTyped
  BY DEF RInv
<1>2. JobTyped'
  <2>1. delivery' = delivery \/ delivery' = Retried \/ delivery' = Acked
    BY DEF Persist
  <2>2. DOMAIN delivery' = {"pc", "tries"} /\ delivery'.tries \in 0..MaxRetries
    BY <1>1, <2>1, RetriedIs DEF JobTyped
  <2>3. /\ job'.status \in JobStatuses /\ DOMAIN job' = {"status", "owned", "late"}
        /\ job'.owned => job'.status = "running"
        /\ job.status = "absent" => job' = job
    BY <1>1 DEF Persist, JobTyped, JobStatuses
  <2>4. caller' = "new" => job'.status = "absent"
    BY <1>1, <2>3 DEF Persist, JobTyped
  <2> QED  BY <2>2, <2>3, <2>4 DEF JobTyped, JobStatuses
<1>3. "manual" \in Passes /\ pass' = [pass EXCEPT !["manual"] = Resting] /\ UNCHANGED <<contentVars, rollVars, rplan>>
  BY DEF Persist, Passes
<1> QED  BY <1>2, <1>3, RestingIs, OverKeeps

LEMMA CrashPassKeeps ==
  ASSUME RInv, NEW p \in Passes, CrashPass(p)
  PROVE  RInv'
<1>1. JobTyped'
  BY RetriedIs DEF RInv, JobTyped, CrashPass
<1>2. pass' = [pass EXCEPT ![p] = Resting] /\ UNCHANGED <<contentVars, rollVars, rplan>>
  BY DEF CrashPass
<1> QED  BY <1>1, <1>2, RestingIs, OverKeeps

-----------------------------------------------------------------------------
LEMMA ParsingKeeps ==
  ASSUME RInv, (\E s \in RollSessions : Upload(s)) \/ WriteStep
  PROVE  RInv'
<1>1. JobTyped' /\ UNCHANGED pass
  BY JobsKept DEF WriteStep, Upload, BeginWrite, WriteBlocks, PublishSession
<1>2. /\ ContentTyped' /\ TablesTyped' /\ WriterTyped' /\ CountsHold' /\ KeysAreCalls' /\ HeldStays
      /\ parses' \in Nat /\ parses <= parses'
  BY UploadKeeps, BeginWriteKeeps, WriteBlocksKeeps, PublishKeeps DEF WriteStep
<1> QED  BY <1>1, <1>2, StepKeeps DEF TablesHold

LEMMA PassStepsKeep ==
  ASSUME RInv, NEW p \in Passes, PassStep(p)
  PROVE  RInv'
BY SelectKeeps, ReadPageKeeps, ReadKnownKeeps, CommitPageKeeps, FailPageKeeps, DeferKeeps, FailPassKeeps DEF PassStep

LEMMA RInvInit == RollupInit => RInv
<1> SUFFICES ASSUME RollupInit PROVE RInv
  OBVIOUS
<1> USE DEF RollupInit
<1>1. ContentTyped
  BY RollupAssumption DEF ContentTyped
<1>2. TablesTyped
  <2>1. DOMAIN pass = Passes
    OBVIOUS
  <2>2. attempts \in [RollSessions -> Nat]
    OBVIOUS
  <2>3. [NoRow EXCEPT !.gen = 1, !.status = "pending", !.eligible = TRUE] \in RollupRows
    BY DEF NoRow, RollupRows, Statuses, Turns, NoTurn
  <2> QED  BY <2>1, <2>2, <2>3 DEF TablesTyped
<1>3. WriterTyped
  BY DEF WriterTyped
<1>4. CountsHold
  <2> SUFFICES ASSUME NEW s \in RollSessions PROVE rollup[s].eligible /\ CountedTo(s)
    BY DEF CountsHold
  <2>1. /\ rollup[s].eligible /\ rollup[s].gen = 1 /\ rollup[s].status = "pending" /\ rollup[s].cursor = 0
        /\ rollup[s].turn = NoTurn /\ ~rollup[s].finishing
    BY DEF NoRow
  <2>2. indexed[s] /\ buckets[s] = Empty /\ seen[s] = {} /\ parses = 1
    OBVIOUS
  <2>3. Tally(BlocksOf(s), 0, 0) = Empty /\ CarryAt(BlocksOf(s), 0) = NoTurn /\ CallsTo(BlocksOf(s), 0) = {}
    BY EmptyTally DEF CarryAt, CallsTo
  <2>4. Len(BlocksOf(s)) \in Nat
    BY <1>1, RollupAssumption DEF ContentTyped, BlocksOf, IsTranscript
  <2> HIDE DEF RollupInit
  <2> QED  BY <2>1, <2>2, <2>3, <2>4 DEF CountedTo
<1>5. KeysAreCalls
  BY DEF KeysAreCalls
<1>6. JobTyped
  BY RollupAssumption DEF JobTyped
<1>7. \A p \in Passes : PassTyped(p) /\ HeldIsCurrent(p)
  BY DEF PassTyped, HeldIsCurrent, PageSteps, Resting
<1> QED  BY <1>1, <1>2, <1>3, <1>4, <1>5, <1>6, <1>7 DEF RInv

LEMMA RInvNext == RInv /\ [RollupNext]_rollupVars => RInv'
<1> SUFFICES ASSUME RInv, [RollupNext]_rollupVars PROVE RInv'
  OBVIOUS
<1>0. "scheduled" \in Passes /\ "manual" \in Passes
  BY DEF Passes
<1>1. CASE (\E s \in RollSessions : Upload(s)) \/ WriteStep
  BY <1>1, ParsingKeeps
<1>2. CASE ScheduledStep
  BY <1>0, <1>2, StartKeeps, PassStepsKeep, EndKeeps DEF ScheduledStep
<1>3. CASE ManualStep
  BY <1>0, <1>3, PassStepsKeep, PersistKeeps DEF ManualStep
<1>4. CASE Submit \/ JobStep \/ Outage \/ RunLate \/ Poll
  BY <1>4, CallerKeeps, ClaimKeeps DEF JobStep
<1>5. CASE \E p \in Passes : CrashPass(p)
  BY <1>5, CrashPassKeeps
<1>6. CASE UNCHANGED rollupVars
  BY <1>6, StillKeeps, JobsKept DEF rollupVars
<1> QED  BY <1>1, <1>2, <1>3, <1>4, <1>5, <1>6 DEF RollupNext

(* What main holds of a session is its transcript, counted to the cursor of *)
(* its row; and a pass that holds an older row holds nothing it can commit. *)
THEOREM RollupInvariant == RollupSpec => []RInv
BY RInvInit, RInvNext, PTL DEF RollupSpec

(* The types of rows, job and message; no cursor passes the end of a        *)
(* transcript.                                                              *)
THEOREM RollupIsTyped == RollupSpec => []RollupTypeOK
<1>1. RInv => RollupTypeOK
  <2> SUFFICES ASSUME RInv PROVE RollupTypeOK
    OBVIOUS
  <2>1. ASSUME NEW s \in RollSessions
        PROVE  /\ rollup[s].status \in Statuses /\ NoCall \notin seen[s]
               /\ rollup[s].cursor <= Len(Transcript[shard[s]])
    <3>1. rollup[s].status \in Statuses /\ NoCall \notin seen[s]
      BY DEF RInv, TablesTyped, RollupRows, KeysAreCalls
    <3>2. Len(BlocksOf(s)) \in Nat
      BY RollupAssumption DEF RInv, ContentTyped, BlocksOf, IsTranscript
    <3>3. IF rollup[s].eligible THEN CountedTo(s) ELSE NotCounted(s)
      BY DEF RInv, CountsHold
    <3>4. rollup[s].cursor <= Len(BlocksOf(s))
      BY <3>2, <3>3 DEF CountedTo, NotCounted
    <3> QED  BY <3>1, <3>4 DEF BlocksOf
  <2>2. MaxRetries \in Nat /\ JobTyped
    BY RollupAssumption DEF RInv
  <2>3. delivery.tries <= MaxRetries
    BY <2>2 DEF JobTyped
  <2>4. \A s \in RollSessions : seen[s] \cap {NoCall} = {}
    BY <2>1
  <2> QED  BY <2>1, <2>2, <2>3, <2>4 DEF RollupTypeOK, Statuses, JobTyped
<1> QED  BY <1>1, RollupInvariant, PTL

(* Counts that are published are those of the blocks of the session, each   *)
(* counted once, whatever passes overlapped, failed or died on the way      *)
(* (rollupPage, session-rollup.ts).                                         *)
THEOREM PublishedCountsAreExact == RollupSpec => []CountsAreExact
<1>1. RInv => PublishedIsExact
  <2> SUFFICES ASSUME RInv, NEW s \in RollSessions, indexed[s], rollup[s].status = "ready"
               PROVE  buckets[s] = CountedOnce(Transcript[shard[s]])
    BY DEF PublishedIsExact
  <2>1. IF rollup[s].eligible THEN CountedTo(s) ELSE NotCounted(s)
    BY DEF RInv, CountsHold
  <2>2. CountedTo(s)
    BY <2>1 DEF NotCounted
  <2>3. buckets[s] = Tally(BlocksOf(s), 0, Len(BlocksOf(s)))
    BY <2>2 DEF CountedTo
  <2>4. IsTranscript(BlocksOf(s))
    BY RollupAssumption DEF RInv, ContentTyped, BlocksOf
  <2> QED  BY <2>3, <2>4, WholeCounts DEF BlocksOf
<1>2. RollupTypeOK /\ PublishedIsExact => CountsAreExact
  BY DEF CountsAreExact
<1> QED  BY <1>1, <1>2, RollupInvariant, RollupIsTyped, PTL

(* A job that was given up, or is done, stays so: it is never run again and *)
(* never gets a result (consumeSessionRollup, session-rollup-jobs.ts).      *)
THEOREM JobsAreDecidedOnce == RollupSpec => JobIsDecidedOnce
<1>1. RInv /\ [RollupNext]_rollupVars => [Terminal(job.status) => job'.status = job.status]_rollupVars
  <2> SUFFICES ASSUME RInv, RollupNext, Terminal(job.status) PROVE job'.status = job.status
    BY DEF rollupVars
  <2>1. job.status \notin {"absent", "queued", "running"} /\ JobTyped
    BY DEF Terminal, RInv
  <2>2. CASE UNCHANGED job
    BY <2>2
  <2>3. CASE Submit
    BY <2>1, <2>3 DEF Submit, JobTyped
  <2>4. CASE RejectJob
    BY <2>1, <2>4 DEF RejectJob
  <2>5. CASE RunLate
    BY <2>1, <2>5 DEF RunLate, JobTyped
  <2>6. CASE Poll \/ Deliver
    BY <2>1, <2>6 DEF Poll, Deliver, Expired
  <2>7. CASE Claim
    BY <2>1, <2>7 DEF Claim, JobClaimable
  <2>8. CASE Persist
    BY <2>1, <2>8 DEF Persist
  <2>9. UNCHANGED job \/ Submit \/ RejectJob \/ RunLate \/ Poll \/ Deliver \/ Claim \/ Persist
    <3>1. \A p \in Passes : PassStep(p) \/ CrashPass(p) => UNCHANGED job
      BY DEF PassStep, SelectCheckpoint, ReadPage, ReadKnown, CommitPage, FailPage, Defer, FailPass, CrashPass, jobVars
    <3>2. "scheduled" \in Passes /\ "manual" \in Passes
      BY DEF Passes
    <3> QED  BY <3>1, <3>2 DEF RollupNext, WriteStep, ScheduledStep, ManualStep, JobStep, Upload, BeginWrite, WriteBlocks,
                               PublishSession, StartScheduled, EndScheduled, SendJob, Outage, jobVars
  <2> QED  BY <2>2, <2>3, <2>4, <2>5, <2>6, <2>7, <2>8, <2>9
<1> QED  BY <1>1, RollupInvariant, PTL DEF RollupSpec, JobIsDecidedOnce

-----------------------------------------------------------------------------
(* The reindex of a range: a write that owns the session of a dispatched    *)
(* target began after the dispatch, so that its receipt is earned.          *)

(* A row of a table is written.                                             *)
LEMMA RowWritten ==
  ASSUME NEW S, NEW V, NEW f \in [S -> V], NEW x, NEW v, x \in S => v \in V
  PROVE  /\ [f EXCEPT ![x] = v] \in [S -> V]
         /\ \A y \in S : [f EXCEPT ![x] = v][y] = IF y = x THEN v ELSE f[y]
  OBVIOUS

(* What a reindex knows of a row: its own rows of each table, and that the  *)
(* session was written after the dispatch whenever its timestamps say so.   *)
Reasons == {"upload", "recover", "reindex", Free}

FileRows ==
  [hash : {1, 2}, state : {"parsed", "pending", "reserved", "error"}, fresh : BOOLEAN, reason : Reasons]

SessionRows == [state : {"ready", "parsing", "error"}, owned : BOOLEAN]

TargetRows ==
  [state : {"absent", "pending", "sending", "enqueued", "blocked", "ready", "error"},
   attempt : Continuations \cup {Free}, reason : Reasons]

RangeJobs ==
  [status : {"absent", "dispatching", "complete", "partial", "failed"},
   lease : Continuations \cup {Free}, over : BOOLEAN]

RangeTypes ==
  /\ source \in [Targets -> FileRows] /\ live \in [Targets -> SessionRows]
  /\ target \in [Targets -> TargetRows] /\ rangeJob \in RangeJobs
  /\ since \in [Targets -> [parsed : BOOLEAN, updated : BOOLEAN]]
  /\ DOMAIN consumer = DOMAIN NoParse

(* A write that owns the session of a target that was dispatched began      *)
(* after the dispatch, which took the session from those before it.         *)
WritesAreLater ==
  consumer.pc = "publish" =>
    \A s \in Targets : s = consumer.s /\ live[s].owned /\ Dispatched(s) => consumer.after

UpdatesAreLater == \A s \in Targets : Dispatched(s) /\ since[s].updated => s \in rewritten

ReceiptsAreEarned == \A s \in Targets : target[s].state = "ready" => Dispatched(s) /\ s \in rewritten

FreshIsReserved == \A s \in Targets : source[s].fresh => source[s].state = "reserved"

RangeInv ==
  RangeTypes /\ WritesAreLater /\ UpdatesAreLater /\ ReceiptsAreEarned /\ FreshIsReserved /\ IntentIsKept

(* What a row becomes.                                                      *)
LEMMA FileRowForms ==
  ASSUME NEW r \in FileRows
  PROVE  /\ [r EXCEPT !.state = "parsed", !.fresh = FALSE, !.reason = Free] \in FileRows
         /\ [r EXCEPT !.state = "error", !.fresh = FALSE] \in FileRows
         /\ [r EXCEPT !.reason = Free] \in FileRows
         /\ \A w \in {r.reason, Free} : [r EXCEPT !.state = "pending", !.fresh = FALSE, !.reason = w] \in FileRows
  BY DEF FileRows, Reasons

LEMMA SessionRowForms ==
  ASSUME NEW r \in SessionRows
  PROVE  [r EXCEPT !.state = "ready"] \in SessionRows
  BY DEF SessionRows

LEMMA TargetRowSent ==
  ASSUME NEW r \in TargetRows, NEW c \in Continuations, NEW reason \in Reasons
  PROVE  [r EXCEPT !.state = "sending", !.attempt = c, !.reason = reason] \in TargetRows
  BY DEF TargetRows

LEMMA TargetRowMoved ==
  ASSUME NEW r \in TargetRows, NEW moved, NEW state \in {"pending", "blocked", "enqueued", "error", "ready"},
         moved = r \/ moved = [r EXCEPT !.state = state]
  PROVE  /\ moved \in TargetRows /\ moved.attempt = r.attempt /\ moved.reason = r.reason
         /\ moved.state \in {r.state, state}
  BY DEF TargetRows

LEMMA TimesForms ==
  ASSUME NEW r \in [parsed : BOOLEAN, updated : BOOLEAN]
  PROVE  /\ [r EXCEPT !.parsed = TRUE] \in [parsed : BOOLEAN, updated : BOOLEAN]
         /\ [r EXCEPT !.updated = TRUE] \in [parsed : BOOLEAN, updated : BOOLEAN]
         /\ [r EXCEPT !.parsed = TRUE].updated = r.updated
  OBVIOUS

LEMMA RangeJobForms ==
  ASSUME NEW r \in RangeJobs
  PROVE  /\ \A status \in {"complete", "partial", "failed", "dispatching"} : [r EXCEPT !.status = status] \in RangeJobs
         /\ \A l \in Continuations \cup {Free} : [r EXCEPT !.lease = l, !.over = FALSE] \in RangeJobs
         /\ [r EXCEPT !.over = TRUE] \in RangeJobs
  BY DEF RangeJobs

LEMMA RowsAreTyped ==
  ASSUME RangeInv, NEW s \in Targets
  PROVE  /\ source[s] \in FileRows /\ live[s] \in SessionRows /\ target[s] \in TargetRows
         /\ since[s] \in [parsed : BOOLEAN, updated : BOOLEAN]
  BY DEF RangeInv, RangeTypes

LEMMA RangeStarts == ASSUME ReindexInit PROVE RangeInv
<1> USE DEF ReindexInit, NotSent, NoParse
<1>1. RangeTypes
  BY DEF RangeTypes, FileRows, SessionRows, TargetRows, RangeJobs, Reasons, Free
<1>2. WritesAreLater /\ FreshIsReserved /\ IntentIsKept
  BY DEF WritesAreLater, FreshIsReserved, IntentIsKept
<1>3. UpdatesAreLater /\ ReceiptsAreEarned
  BY DEF UpdatesAreLater, ReceiptsAreEarned
<1> QED  BY <1>1, <1>2, <1>3 DEF RangeInv

(* What leaves the rows and the receipts alone, and consumes nothing.       *)
LEMMA OthersKeepRange ==
  ASSUME RangeInv, UNCHANGED <<source, live, target, since, rewritten>>,
         rangeJob' \in RangeJobs,
         consumer' = consumer \/ (DOMAIN consumer' = DOMAIN NoParse /\ consumer'.pc # "publish")
  PROVE  RangeInv'
<1>1. RangeTypes'
  BY DEF RangeInv, RangeTypes
<1>2. WritesAreLater'
  BY DEF RangeInv, WritesAreLater, Dispatched
<1>3. UpdatesAreLater' /\ ReceiptsAreEarned' /\ FreshIsReserved' /\ IntentIsKept'
  BY DEF RangeInv, UpdatesAreLater, ReceiptsAreEarned, FreshIsReserved, IntentIsKept, Dispatched
<1> QED  BY <1>1, <1>2, <1>3 DEF RangeInv

-----------------------------------------------------------------------------
LEMMA UploadKeepsRange == ASSUME RangeInv, NEW s, UploadTarget(s) PROVE RangeInv'
<1> USE DEF UploadTarget, receiptVars
<1> DEFINE row == [hash |-> 2, state |-> "pending", fresh |-> FALSE, reason |-> Free]
<1>1. row \in FileRows /\ Lowered \in SessionRows
  BY DEF FileRows, SessionRows, Lowered, Reasons
<1>2. source' \in [Targets -> FileRows] /\ \A t \in Targets : source'[t] = IF t = s THEN row ELSE source[t]
  <2> HIDE DEF row
  <2>1. source' = [source EXCEPT ![s] = row]
    BY DEF row
  <2>2. source \in [Targets -> FileRows]
    BY DEF RangeInv, RangeTypes
  <2> HIDE DEF UploadTarget
  <2> QED  BY <1>1, <2>1, <2>2, RowWritten
<1>3. live' \in [Targets -> SessionRows] /\ \A t \in Targets : live'[t] = IF t = s THEN Lowered ELSE live[t]
  <2>1. live' = [live EXCEPT ![s] = Lowered] /\ live \in [Targets -> SessionRows]
    BY DEF RangeInv, RangeTypes
  <2> QED  BY <1>1, <2>1, RowWritten
<1>4. RangeTypes'
  BY <1>2, <1>3 DEF RangeInv, RangeTypes, RangeJobs, TargetRows
<1>5. WritesAreLater'
  BY <1>3 DEF RangeInv, WritesAreLater, Lowered, Dispatched
<1>6. UpdatesAreLater' /\ ReceiptsAreEarned'
  BY DEF RangeInv, UpdatesAreLater, ReceiptsAreEarned, Dispatched
<1>7. FreshIsReserved' /\ IntentIsKept'
  BY <1>2 DEF RangeInv, FreshIsReserved, IntentIsKept
<1> QED  BY <1>4, <1>5, <1>6, <1>7 DEF RangeInv

(* A row of files is reserved, grows stale, is sent again, parsed or fails. *)
LEMMA FileWritten ==
  ASSUME RangeInv, NEW s, NEW row, s \in Targets => row \in FileRows,
         source' = [source EXCEPT ![s] = row], UNCHANGED <<live, target, rangeJob, since, rewritten>>,
         consumer' = consumer \/ (DOMAIN consumer' = DOMAIN NoParse /\ consumer'.pc # "publish"),
         s \in Targets => /\ row.fresh => row.state = "reserved"
                          /\ row.state = "pending" /\ row.reason # Free => target[s].reason = row.reason
  PROVE  RangeInv'
<1>1. source' \in [Targets -> FileRows] /\ \A t \in Targets : source'[t] = IF t = s THEN row ELSE source[t]
  <2>1. source \in [Targets -> FileRows]
    BY DEF RangeInv, RangeTypes
  <2> QED  BY <2>1, RowWritten
<1>2. RangeTypes'
  BY <1>1 DEF RangeInv, RangeTypes, RangeJobs, TargetRows, SessionRows
<1>3. WritesAreLater' /\ UpdatesAreLater' /\ ReceiptsAreEarned'
  BY DEF RangeInv, WritesAreLater, UpdatesAreLater, ReceiptsAreEarned, Dispatched
<1>4. FreshIsReserved' /\ IntentIsKept'
  BY <1>1 DEF RangeInv, FreshIsReserved, IntentIsKept
<1> QED  BY <1>2, <1>3, <1>4 DEF RangeInv

LEMMA CareKeepsRange ==
  ASSUME RangeInv, NEW s, ReserveTarget(s) \/ GoesStale(s) \/ FilesCheck(s)
  PROVE  RangeInv'
<1> USE DEF ReserveTarget, GoesStale, FilesCheck, receiptVars
<1>1. s \in Targets => source[s] \in FileRows /\ (source[s].fresh => source[s].state = "reserved")
  BY DEF RangeInv, RangeTypes, FreshIsReserved
<1>2. CASE ReserveTarget(s)
  <2> DEFINE row == [source[s] EXCEPT !.state = "reserved", !.fresh = TRUE,
                       !.reason = IF source[s].state = "pending" THEN "upload" ELSE "recover"]
  <2>1. s \in Targets => row \in FileRows /\ row.state = "reserved"
    BY <1>1 DEF FileRows, Reasons
  <2>2. source' = [source EXCEPT ![s] = row]
    BY <1>2
  <2> HIDE DEF row
  <2> QED  BY <1>2, <2>1, <2>2, FileWritten
<1>3. CASE GoesStale(s)
  <2> DEFINE row == [source[s] EXCEPT !.fresh = FALSE]
  <2>1. s \in Targets => row \in FileRows /\ row.state = "reserved" /\ row.fresh = FALSE
    BY <1>1, <1>3 DEF FileRows
  <2>2. source' = [source EXCEPT ![s] = row]
    BY <1>3
  <2> HIDE DEF row
  <2> QED  BY <1>3, <2>1, <2>2, FileWritten
<1>4. CASE FilesCheck(s)
  <2> DEFINE row == [source[s] EXCEPT !.state = "pending", !.fresh = FALSE, !.reason = Free]
  <2>1. s \in Targets => row \in FileRows /\ row.fresh = FALSE /\ row.reason = Free
    BY <1>1 DEF FileRows, Reasons
  <2>2. source' = [source EXCEPT ![s] = row]
    BY <1>4
  <2> HIDE DEF row
  <2> QED  BY <1>4, <2>1, <2>2, FileWritten
<1> QED  BY <1>2, <1>3, <1>4

LEMMA TakeKeepsRange == ASSUME RangeInv, NEW m, Take(m) PROVE RangeInv'
<1>1. DOMAIN consumer' = DOMAIN NoParse /\ consumer'.pc # "publish"
  BY DEF Take, NoParse
<1> QED  BY <1>1, OthersKeepRange DEF Take, RangeInv, RangeTypes, rowVars, receiptVars

LEMMA SupersededEnds == ASSUME Superseded PROVE DOMAIN consumer' = DOMAIN NoParse /\ consumer'.pc # "publish"
  BY DEF Superseded, NoParse

LEMMA BeginKeepsRange == ASSUME RangeInv, BeginParse PROVE RangeInv'
<1> USE DEF BeginParse, receiptVars
<1>1. CASE source[consumer.s].hash # consumer.hash
  BY <1>1, SupersededEnds, OthersKeepRange DEF RangeInv, RangeTypes
<1>2. CASE source[consumer.s].hash = consumer.hash
  <2> USE <1>2
  <2>1. RangeTypes'
    <3>1. [state |-> "parsing", owned |-> TRUE] \in SessionRows
      BY DEF SessionRows
    <3>2. live' = [live EXCEPT ![consumer.s] = [state |-> "parsing", owned |-> TRUE]] /\ live \in [Targets -> SessionRows]
      BY DEF RangeInv, RangeTypes
    <3>3. live' \in [Targets -> SessionRows]
      BY <3>1, <3>2, RowWritten
    <3> QED  BY <3>3 DEF RangeInv, RangeTypes, FileRows, TargetRows, RangeJobs
  <2>2. WritesAreLater'
    <3>1. DOMAIN consumer = DOMAIN NoParse
      BY DEF RangeInv, RangeTypes
    <3>2. consumer'.s = consumer.s /\ consumer'.after = Dispatched(consumer.s)
      BY <3>1 DEF NoParse
    <3> QED  BY <3>2 DEF WritesAreLater, Dispatched
  <2>3. UpdatesAreLater' /\ ReceiptsAreEarned'
    BY DEF RangeInv, UpdatesAreLater, ReceiptsAreEarned, Dispatched
  <2>4. FreshIsReserved' /\ IntentIsKept'
    BY DEF RangeInv, FreshIsReserved, IntentIsKept
  <2> QED  BY <2>1, <2>2, <2>3, <2>4 DEF RangeInv
<1> QED  BY <1>1, <1>2

LEMMA PublishKeepsRange == ASSUME RangeInv, Publish PROVE RangeInv'
<1> USE DEF Publish
<1>1. CASE ~(source[consumer.s].hash = consumer.hash /\ live[consumer.s].owned)
  BY <1>1, SupersededEnds, OthersKeepRange DEF RangeInv, RangeTypes
<1>2. CASE source[consumer.s].hash = consumer.hash /\ live[consumer.s].owned
  <2> USE <1>2
  <2> DEFINE s == consumer.s
             times == [since[s] EXCEPT !.updated = TRUE]
             row == [live[s] EXCEPT !.state = "ready"]
  <2>1. RangeTypes'
    <3>1. s \in Targets => times \in [parsed : BOOLEAN, updated : BOOLEAN] /\ row \in SessionRows
      <4> HIDE DEF s, Publish
      <4> QED  BY RowsAreTyped, TimesForms, SessionRowForms
    <3>2. since' = [since EXCEPT ![s] = times] /\ live' = [live EXCEPT ![s] = row]
      OBVIOUS
    <3>3. since \in [Targets -> [parsed : BOOLEAN, updated : BOOLEAN]] /\ live \in [Targets -> SessionRows]
      BY DEF RangeInv, RangeTypes
    <3> HIDE DEF times, row, s
    <3>4. since' \in [Targets -> [parsed : BOOLEAN, updated : BOOLEAN]]
      BY <3>1, <3>2, <3>3, RowWritten
    <3>5. live' \in [Targets -> SessionRows]
      BY <3>1, <3>2, <3>3, RowWritten
    <3>6. UNCHANGED <<source, target, rangeJob>> /\ DOMAIN consumer' = DOMAIN consumer
      OBVIOUS
    <3> QED  BY <3>4, <3>5, <3>6 DEF RangeInv, RangeTypes, FileRows, TargetRows, RangeJobs
  <2>2. consumer'.pc = "mark"
    BY DEF RangeInv, RangeTypes, NoParse
  <2>3. WritesAreLater'
    BY <2>2 DEF WritesAreLater
  <2>4. \A u \in Targets : u = consumer.s /\ Dispatched(u) => consumer.after
    BY DEF RangeInv, WritesAreLater
  <2>5. UpdatesAreLater'
    BY <2>4 DEF RangeInv, RangeTypes, UpdatesAreLater, Dispatched
  <2>6. ReceiptsAreEarned'
    BY <2>4 DEF RangeInv, ReceiptsAreEarned, Dispatched
  <2>7. FreshIsReserved' /\ IntentIsKept'
    BY DEF RangeInv, FreshIsReserved, IntentIsKept
  <2> QED  BY <2>1, <2>3, <2>5, <2>6, <2>7 DEF RangeInv
<1> QED  BY <1>1, <1>2

LEMMA MarkKeepsRange == ASSUME RangeInv, Mark PROVE RangeInv'
<1> USE DEF Mark
<1>1. CASE ~(source[consumer.s].hash = consumer.hash /\ live[consumer.s] = [state |-> "ready", owned |-> TRUE])
  BY <1>1, SupersededEnds, OthersKeepRange DEF RangeInv, RangeTypes
<1>2. CASE source[consumer.s].hash = consumer.hash /\ live[consumer.s] = [state |-> "ready", owned |-> TRUE]
  <2> USE <1>2
  <2> DEFINE s == consumer.s
             times == [since[s] EXCEPT !.parsed = TRUE]
             row == [source[s] EXCEPT !.state = "parsed", !.fresh = FALSE, !.reason = Free]
  <2>1. s \in Targets => /\ times \in [parsed : BOOLEAN, updated : BOOLEAN] /\ times.updated = since[s].updated
                         /\ row \in FileRows /\ row.fresh = FALSE /\ row.state = "parsed"
    <3> HIDE DEF s, Mark
    <3>1. s \in Targets => row.fresh = FALSE /\ row.state = "parsed"
      BY RowsAreTyped DEF FileRows
    <3> QED  BY <3>1, RowsAreTyped, TimesForms, FileRowForms
  <2>2. since' = [since EXCEPT ![s] = times] /\ source' = [source EXCEPT ![s] = row]
    OBVIOUS
  <2>3. since \in [Targets -> [parsed : BOOLEAN, updated : BOOLEAN]] /\ source \in [Targets -> FileRows]
    BY DEF RangeInv, RangeTypes
  <2> HIDE DEF times, row, s
  <2>4. /\ since' \in [Targets -> [parsed : BOOLEAN, updated : BOOLEAN]]
        /\ \A t \in Targets : since'[t] = IF t = s THEN times ELSE since[t]
    BY <2>1, <2>2, <2>3, RowWritten
  <2>5. source' \in [Targets -> FileRows] /\ \A t \in Targets : source'[t] = IF t = s THEN row ELSE source[t]
    BY <2>1, <2>2, <2>3, RowWritten
  <2>6. UNCHANGED <<live, target, rangeJob, rewritten>> /\ consumer' = NoParse
    OBVIOUS
  <2>7. RangeTypes'
    BY <2>4, <2>5, <2>6 DEF RangeInv, RangeTypes, TargetRows, RangeJobs, SessionRows
  <2>8. WritesAreLater'
    BY <2>6 DEF WritesAreLater, NoParse
  <2>9. UpdatesAreLater' /\ ReceiptsAreEarned'
    BY <2>1, <2>4, <2>6 DEF RangeInv, UpdatesAreLater, ReceiptsAreEarned, Dispatched
  <2>10. FreshIsReserved' /\ IntentIsKept'
    BY <2>1, <2>5, <2>6 DEF RangeInv, FreshIsReserved, IntentIsKept
  <2> QED  BY <2>7, <2>8, <2>9, <2>10 DEF RangeInv
<1> QED  BY <1>1, <1>2

LEMMA FailureKeepsRange == ASSUME RangeInv, FailParse PROVE RangeInv'
<1> USE DEF FailParse, receiptVars
<1> DEFINE s == consumer.s
           row == [source[s] EXCEPT !.state = "error", !.fresh = FALSE]
           failed == [state |-> "error", owned |-> FALSE]
<1>1. CASE source[s].hash # consumer.hash
  BY <1>1, OthersKeepRange DEF RangeInv, RangeTypes, NoParse
<1>2. CASE source[s].hash = consumer.hash
  <2>1. failed \in SessionRows /\ (s \in Targets => row \in FileRows /\ row.fresh = FALSE /\ row.state = "error")
    <3> HIDE DEF s, FailParse
    <3>1. s \in Targets => row.fresh = FALSE /\ row.state = "error"
      BY RowsAreTyped DEF FileRows
    <3> QED  BY <3>1, RowsAreTyped, FileRowForms DEF SessionRows
  <2>2. source' = [source EXCEPT ![s] = row] /\ live' = [live EXCEPT ![s] = failed]
    BY <1>2
  <2>3. source \in [Targets -> FileRows] /\ live \in [Targets -> SessionRows]
    BY DEF RangeInv, RangeTypes
  <2> HIDE DEF row, failed, s
  <2>4. source' \in [Targets -> FileRows] /\ \A t \in Targets : source'[t] = IF t = s THEN row ELSE source[t]
    BY <2>1, <2>2, <2>3, RowWritten
  <2>5. live' \in [Targets -> SessionRows]
    BY <2>1, <2>2, <2>3, RowWritten
  <2>6. UNCHANGED <<target, since, rangeJob, rewritten>> /\ consumer' = NoParse
    OBVIOUS
  <2>7. RangeTypes'
    BY <2>4, <2>5, <2>6 DEF RangeInv, RangeTypes, TargetRows, RangeJobs
  <2>8. WritesAreLater'
    BY <2>6 DEF WritesAreLater, NoParse
  <2>9. UpdatesAreLater' /\ ReceiptsAreEarned'
    BY <2>6 DEF RangeInv, UpdatesAreLater, ReceiptsAreEarned, Dispatched
  <2>10. FreshIsReserved' /\ IntentIsKept'
    BY <2>1, <2>4, <2>6 DEF RangeInv, FreshIsReserved, IntentIsKept
  <2> QED  BY <2>7, <2>8, <2>9, <2>10 DEF RangeInv
<1> QED  BY <1>1, <1>2

-----------------------------------------------------------------------------
(* Receipts are written, on the rows of the job alone.                      *)
LEMMA ReceiptsKeepRange ==
  ASSUME RangeInv, UNCHANGED <<source, live, since, rewritten, consumer>>, rangeJob' \in RangeJobs,
         target' = [s \in Targets |-> target'[s]],
         \A s \in Targets : /\ target'[s] \in TargetRows
                            /\ target'[s].attempt = target[s].attempt /\ target'[s].reason = target[s].reason
                            /\ target'[s].state = "ready" => target[s].state = "ready" \/ ParsedSince(s)
  PROVE  RangeInv'
<1>1. RangeTypes'
  <2>1. target' \in [Targets -> TargetRows]
    OBVIOUS
  <2> QED  BY <2>1 DEF RangeInv, RangeTypes, FileRows, SessionRows
<1>2. WritesAreLater' /\ UpdatesAreLater'
  BY DEF RangeInv, WritesAreLater, UpdatesAreLater, Dispatched
<1>3. ReceiptsAreEarned'
  BY DEF RangeInv, UpdatesAreLater, ReceiptsAreEarned, ParsedSince, Dispatched
<1>4. FreshIsReserved' /\ IntentIsKept'
  BY DEF RangeInv, FreshIsReserved, IntentIsKept
<1> QED  BY <1>1, <1>2, <1>3, <1>4 DEF RangeInv

LEMMA CreateKeepsRange == ASSUME RangeInv, CreateRange PROVE RangeInv'
<1>1. ASSUME NEW s \in Targets
      PROVE  /\ target'[s] \in TargetRows /\ target'[s].attempt = target[s].attempt
             /\ target'[s].reason = target[s].reason
             /\ target'[s].state = "ready" => target[s].state = "ready"
  <2>1. target[s] \in TargetRows
    BY RowsAreTyped
  <2>2. target[s] = [target[s] EXCEPT !.state = target[s].state]
    BY <2>1 DEF TargetRows
  <2>3. PICK state \in {"error", "pending"} : target'[s] = target[s] \/ target'[s] = [target[s] EXCEPT !.state = state]
    BY <2>2 DEF CreateRange
  <2>4. /\ target'[s] \in TargetRows /\ target'[s].attempt = target[s].attempt
        /\ target'[s].reason = target[s].reason /\ target'[s].state \in {target[s].state, state}
    BY <2>1, <2>3, TargetRowMoved
  <2> QED  BY <2>4
<1>2. rangeJob' \in RangeJobs
  <2>1. \E status \in {"failed", "complete", "dispatching"} : rangeJob' = [rangeJob EXCEPT !.status = status]
    BY DEF CreateRange
  <2> QED  BY <2>1, RangeJobForms DEF RangeInv, RangeTypes
<1>3. UNCHANGED <<source, live, since, rewritten, consumer>> /\ target' = [s \in Targets |-> target'[s]]
  BY DEF CreateRange, rowVars
<1> QED  BY <1>1, <1>2, <1>3, ReceiptsKeepRange

LEMMA ReconcilingKeepsRange ==
  ASSUME RangeInv, Reconciles, UNCHANGED <<rowVars, since, consumer, rewritten>>
  PROVE  RangeInv'
<1>1. ASSUME NEW s \in Targets
      PROVE  /\ target'[s] \in TargetRows
             /\ target'[s].attempt = target[s].attempt /\ target'[s].reason = target[s].reason
             /\ target'[s].state = "ready" => target[s].state = "ready" \/ ParsedSince(s)
  <2>1. Outcome(s) = "ready" => target[s].state = "ready" \/ ParsedSince(s)
    BY DEF Outcome
  <2>2. target'[s] = target[s] \/ (Closed(Outcome(s)) /\ target'[s] = [target[s] EXCEPT !.state = Outcome(s)])
    BY DEF Reconciles, Receipts
  <2>3. CASE target'[s] = target[s]
    BY <2>3, RowsAreTyped
  <2>4. CASE Closed(Outcome(s)) /\ target'[s] = [target[s] EXCEPT !.state = Outcome(s)]
    <3>1. Outcome(s) \in {"ready", "error"} /\ target[s] \in TargetRows
      BY <2>4, RowsAreTyped DEF Closed
    <3>2. /\ target'[s] \in TargetRows /\ target'[s].attempt = target[s].attempt
          /\ target'[s].reason = target[s].reason /\ target'[s].state \in {target[s].state, Outcome(s)}
      BY <2>4, <3>1, TargetRowMoved
    <3> QED  BY <2>1, <3>2
  <2> QED  BY <2>2, <2>3, <2>4
<1>2. rangeJob' \in RangeJobs
  <2>1. Disposition(target') \in {"complete", "partial", "failed"}
    BY DEF Disposition
  <2>2. rangeJob' = rangeJob \/ rangeJob' = [rangeJob EXCEPT !.status = Disposition(target')]
    BY DEF Reconciles
  <2> QED  BY <2>1, <2>2, RangeJobForms DEF RangeInv, RangeTypes
<1>3. UNCHANGED <<source, live, since, rewritten, consumer>> /\ target' = [s \in Targets |-> target'[s]]
  BY DEF Reconciles, Receipts, rowVars
<1> QED  BY <1>1, <1>2, <1>3, ReceiptsKeepRange

LEMMA PrepareKeepsRange == ASSUME RangeInv, NEW c \in Continuations, Prepare(c) PROVE RangeInv'
<1> DEFINE s == Turn(c)
           mine == Holds(c) /\ target[s].state \notin {"enqueued", "ready", "error"}
           sends == mine /\ ~Failure(s) /\ ~IsFresh(s) /\ ~ParsedSince(s)
<1>1. CASE ~sends
  <2>1. target' = target \/ target' = [target EXCEPT ![s].state = "blocked"]
    BY <1>1 DEF Prepare
  <2>2. UNCHANGED <<source, live, since, rewritten, rangeJob, consumer>>
    BY <1>1 DEF Prepare, rowVars
  <2> HIDE DEF s
  <2>3. ASSUME NEW t \in Targets
        PROVE  /\ target'[t] \in TargetRows /\ target'[t].attempt = target[t].attempt
               /\ target'[t].reason = target[t].reason
               /\ target'[t].state = "ready" => target[t].state = "ready"
    <3>1. target'[t] = target[t] \/ target'[t] = [target[t] EXCEPT !.state = "blocked"]
      BY <2>1 DEF RangeInv, RangeTypes
    <3>2. target[t] \in TargetRows
      BY RowsAreTyped
    <3>3. /\ target'[t] \in TargetRows /\ target'[t].attempt = target[t].attempt
          /\ target'[t].reason = target[t].reason /\ target'[t].state \in {target[t].state, "blocked"}
      BY <3>1, <3>2, TargetRowMoved
    <3> QED  BY <3>3
  <2>4. target' = [t \in Targets |-> target'[t]] /\ rangeJob' \in RangeJobs
    BY <2>1, <2>2 DEF RangeInv, RangeTypes
  <2> QED  BY <2>2, <2>3, <2>4, ReceiptsKeepRange
<1>2. CASE sends
  <2>1. /\ target' = [target EXCEPT ![s] = [@ EXCEPT !.state = "sending", !.attempt = c, !.reason = Intent(s)]]
        /\ since' = IF Dispatched(s) THEN since ELSE [since EXCEPT ![s] = [parsed |-> FALSE, updated |-> FALSE]]
        /\ rewritten' = IF Dispatched(s) THEN rewritten ELSE rewritten \ {s}
        /\ source' = [source EXCEPT ![s] = [@ EXCEPT !.state = "pending", !.fresh = FALSE,
                        !.reason = IF source[s].state \in {"reserved", "pending"} THEN source[s].reason ELSE Free]]
        /\ live' = [live EXCEPT ![s] = Lowered]
        /\ UNCHANGED <<rangeJob, consumer>>
    BY <1>2 DEF Prepare, Invalidated
  <2> HIDE DEF s
  <2> DEFINE row == [source[s] EXCEPT !.state = "pending", !.fresh = FALSE,
                       !.reason = IF source[s].state \in {"reserved", "pending"} THEN source[s].reason ELSE Free]
             receipt == [target[s] EXCEPT !.state = "sending", !.attempt = c, !.reason = Intent(s)]
             unseen == [parsed |-> FALSE, updated |-> FALSE]
  <2>2. s \in Targets => /\ Intent(s) \in Reasons
                         /\ row.reason # Free => row.reason = Intent(s)
                         /\ row.fresh = FALSE
    BY RowsAreTyped DEF FileRows, TargetRows, Intent, Reasons
  <2>3. s \in Targets => receipt.state = "sending" /\ receipt.reason = Intent(s)
    BY RowsAreTyped DEF TargetRows
  <2>4. s \in Targets => row \in FileRows /\ receipt \in TargetRows
    BY <2>2, RowsAreTyped, FileRowForms, TargetRowSent
  <2>5. unseen \in [parsed : BOOLEAN, updated : BOOLEAN] /\ unseen.updated = FALSE
    OBVIOUS
  <2>6. Lowered \in SessionRows /\ Lowered.owned = FALSE
    BY DEF Lowered, SessionRows
  <2>7. source' = [source EXCEPT ![s] = row] /\ target' = [target EXCEPT ![s] = receipt]
    BY <2>1
  <2>8. since' = IF Dispatched(s) THEN since ELSE [since EXCEPT ![s] = unseen]
    BY <2>1
  <2> HIDE DEF row, receipt, unseen
  <2>9. /\ source \in [Targets -> FileRows] /\ target \in [Targets -> TargetRows]
        /\ live \in [Targets -> SessionRows] /\ since \in [Targets -> [parsed : BOOLEAN, updated : BOOLEAN]]
    BY DEF RangeInv, RangeTypes
  <2>10. source' \in [Targets -> FileRows] /\ \A t \in Targets : source'[t] = IF t = s THEN row ELSE source[t]
    BY <2>4, <2>7, <2>9, RowWritten
  <2>11. target' \in [Targets -> TargetRows] /\ \A t \in Targets : target'[t] = IF t = s THEN receipt ELSE target[t]
    BY <2>4, <2>7, <2>9, RowWritten
  <2>12. live' \in [Targets -> SessionRows] /\ \A t \in Targets : live'[t] = IF t = s THEN Lowered ELSE live[t]
    BY <2>1, <2>6, <2>9, RowWritten
  <2>13. /\ since' \in [Targets -> [parsed : BOOLEAN, updated : BOOLEAN]]
         /\ \A t \in Targets : since'[t] = IF ~Dispatched(s) /\ t = s THEN unseen ELSE since[t]
    BY <2>5, <2>8, <2>9, RowWritten
  <2>14. \A t \in Targets : t \in rewritten' <=> (t \in rewritten /\ (Dispatched(s) \/ t # s))
    BY <2>1
  <2>15. RangeTypes'
    BY <2>1, <2>10, <2>11, <2>12, <2>13 DEF RangeInv, RangeTypes, RangeJobs
  <2>16. WritesAreLater'
    BY <2>1, <2>6, <2>11, <2>12 DEF RangeInv, WritesAreLater, Dispatched
  <2>17. UpdatesAreLater'
    BY <2>5, <2>11, <2>13, <2>14 DEF RangeInv, UpdatesAreLater, Dispatched
  <2>18. ReceiptsAreEarned'
    BY <2>3, <2>11, <2>14 DEF RangeInv, ReceiptsAreEarned, Dispatched
  <2>19. FreshIsReserved'
    BY <2>2, <2>10 DEF RangeInv, FreshIsReserved
  <2>20. IntentIsKept'
    BY <2>2, <2>3, <2>10, <2>11 DEF RangeInv, IntentIsKept
  <2> QED  BY <2>15, <2>16, <2>17, <2>18, <2>19, <2>20 DEF RangeInv
<1> QED  BY <1>1, <1>2

LEMMA AcceptKeepsRange == ASSUME RangeInv, NEW c \in Continuations, Accept(c) PROVE RangeInv'
<1> DEFINE s == Turn(c)
<1>1. /\ target' = target \/ target' = [target EXCEPT ![s].state = "enqueued"]
      /\ source' = source \/ source' = [source EXCEPT ![s].reason = Free]
      /\ UNCHANGED <<live, since, rewritten, rangeJob, consumer>>
  BY DEF Accept
<1> HIDE DEF s
<1>2. ASSUME NEW t \in Targets
      PROVE  /\ target'[t] \in TargetRows /\ target'[t].attempt = target[t].attempt
             /\ target'[t].reason = target[t].reason
             /\ target'[t].state = "ready" => target[t].state = "ready"
  <2>1. target'[t] = target[t] \/ target'[t] = [target[t] EXCEPT !.state = "enqueued"]
    BY <1>1 DEF RangeInv, RangeTypes
  <2>2. target[t] \in TargetRows
    BY RowsAreTyped
  <2>3. /\ target'[t] \in TargetRows /\ target'[t].attempt = target[t].attempt
        /\ target'[t].reason = target[t].reason /\ target'[t].state \in {target[t].state, "enqueued"}
    BY <2>1, <2>2, TargetRowMoved
  <2> QED  BY <2>3
<1>3. ASSUME NEW t \in Targets
      PROVE  /\ source'[t] \in FileRows /\ source'[t].state = source[t].state
             /\ source'[t].fresh = source[t].fresh /\ source'[t].reason \in {Free, source[t].reason}
  <2>1. source'[t] = source[t] \/ source'[t] = [source[t] EXCEPT !.reason = Free]
    BY <1>1 DEF RangeInv, RangeTypes
  <2>2. source[t] \in FileRows
    BY RowsAreTyped
  <2>3. source'[t] \in FileRows
    BY <2>1, <2>2, FileRowForms
  <2> QED  BY <2>1, <2>2, <2>3 DEF FileRows
<1>4. target' \in [Targets -> TargetRows]
  <2>1. target' = [t \in Targets |-> target'[t]]
    BY <1>1 DEF RangeInv, RangeTypes
  <2> QED  BY <1>2, <2>1
<1>5. source' \in [Targets -> FileRows]
  <2>1. source' = [t \in Targets |-> source'[t]]
    BY <1>1 DEF RangeInv, RangeTypes
  <2> QED  BY <1>3, <2>1
<1>6. RangeTypes'
  BY <1>1, <1>4, <1>5 DEF RangeInv, RangeTypes, SessionRows, RangeJobs
<1>7. WritesAreLater' /\ UpdatesAreLater' /\ ReceiptsAreEarned'
  BY <1>1, <1>2 DEF RangeInv, WritesAreLater, UpdatesAreLater, ReceiptsAreEarned, Dispatched
<1>8. FreshIsReserved' /\ IntentIsKept'
  BY <1>2, <1>3 DEF RangeInv, FreshIsReserved, IntentIsKept
<1> QED  BY <1>6, <1>7, <1>8 DEF RangeInv

-----------------------------------------------------------------------------
LEMMA ContinuationKeepsRange ==
  ASSUME RangeInv, NEW c \in Continuations, Continue(c) \/ ClaimRange(c) \/ DieHolding(c)
  PROVE  RangeInv'
<1> USE DEF rowVars, receiptVars
<1>1. CASE ReconcileRange(c)
  BY <1>1, ReconcilingKeepsRange DEF ReconcileRange
<1>2. CASE TakePage(c) \/ Renew(c) \/ SendTarget(c) \/ DieHolding(c)
  BY <1>2, OthersKeepRange DEF TakePage, Renew, SendTarget, DieHolding, RangeInv, RangeTypes
<1>3. CASE Release(c) \/ ClaimRange(c)
  <2>1. \/ rangeJob' = rangeJob
        \/ \E l \in Continuations \cup {Free} : rangeJob' = [rangeJob EXCEPT !.lease = l, !.over = FALSE]
    BY <1>3 DEF Release, ClaimRange, Unheld
  <2>2. rangeJob' \in RangeJobs
    BY <2>1, RangeJobForms DEF RangeInv, RangeTypes
  <2> QED  BY <1>3, <2>2, OthersKeepRange DEF Release, ClaimRange
<1> QED  BY <1>1, <1>2, <1>3, PrepareKeepsRange, AcceptKeepsRange DEF Continue

LEMMA RangeSteps == ASSUME RangeInv, [ReindexNext]_reindexVars PROVE RangeInv'
<1> USE DEF rowVars, receiptVars
<1>1. CASE UNCHANGED reindexVars
  BY <1>1, OthersKeepRange DEF reindexVars, RangeInv, RangeTypes
<1>2. CASE CreateRange
  BY <1>2, CreateKeepsRange
<1>3. CASE GetRange
  BY <1>3, ReconcilingKeepsRange DEF GetRange
<1>4. CASE LeaseRunsOut
  BY <1>4, RangeJobForms, OthersKeepRange DEF LeaseRunsOut, RangeInv, RangeTypes
<1>5. CASE Parsing
  BY <1>5, TakeKeepsRange, BeginKeepsRange, PublishKeepsRange, MarkKeepsRange, FailureKeepsRange DEF Parsing
<1>6. CASE Caring
  <2>1. PICK s \in iplan.range : OwnerSends(s) \/ FilesCheck(s)
    BY <1>6 DEF Caring
  <2>2. CASE OwnerSends(s)
    BY <2>2, OthersKeepRange DEF OwnerSends, RangeInv, RangeTypes
  <2> QED  BY <2>1, <2>2, CareKeepsRange
<1>7. CASE Claiming
  BY <1>7, ContinuationKeepsRange DEF Claiming
<1>8. CASE \E c \in Continuations : Continue(c) \/ DieHolding(c)
  BY <1>8, ContinuationKeepsRange
<1>9. CASE \E s \in iplan.range : UploadTarget(s) \/ ReserveTarget(s) \/ GoesStale(s)
  BY <1>9, UploadKeepsRange, CareKeepsRange
<1> QED  BY <1>1, <1>2, <1>3, <1>4, <1>5, <1>6, <1>7, <1>8, <1>9 DEF ReindexNext

LEMMA RangeInvariant == ReindexSpec => []RangeInv
<1>1. ReindexInit => RangeInv
  BY RangeStarts
<1>2. RangeInv /\ [ReindexNext]_reindexVars => RangeInv'
  BY RangeSteps
<1> QED  BY <1>1, <1>2, PTL DEF ReindexSpec

(* A target of a reindex is ready only when its session was written, from   *)
(* the first row to the publication, after the dispatch; and a file that    *)
(* was taken from a reservation is sent for the reason it was reserved.     *)
THEOREM TargetsAreWrittenAnew == ReindexSpec => []RangeIsWhole
<1>1. ASSUME RangeInv PROVE ReindexTypeOK
  <2>1. rangeJob \in RangeJobs
    BY <1>1 DEF RangeInv, RangeTypes
  <2>2. ASSUME NEW s \in Targets
        PROVE  /\ source[s].state \in {"parsed", "pending", "reserved", "error"}
               /\ target[s].state \in {"absent", "pending", "sending", "enqueued", "blocked", "ready", "error"}
    BY <1>1, RowsAreTyped DEF FileRows, TargetRows
  <2> QED  BY <1>1, <2>1, <2>2 DEF RangeInv, FreshIsReserved, ReindexTypeOK, RangeJobs
<1>2. RangeInv => RangeIsRewritten
  BY DEF RangeInv, ReceiptsAreEarned, RangeIsRewritten, ReadyIsWrittenAnew
<1>3. RangeInv => RangeIsWhole
  BY <1>1, <1>2 DEF RangeIsWhole
<1> QED  BY <1>3, RangeInvariant, PTL
=============================================================================
