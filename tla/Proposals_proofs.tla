--------------------------- MODULE Proposals_proofs ---------------------------
(***************************************************************************)
(* Theorems about Proposals, for any commands, policies, files and texts:  *)
(* previews predict what proposals come to; what is accepted with no       *)
(* review is justified by a policy and a content from while it was         *)
(* proposed; batches are accounted for; exports keep the users' own lines; *)
(* a guard that finds a match has seen the block; and the lock and the     *)
(* records have their shapes.                                              *)
(*                                                                         *)
(* First come what the operators on orders, blocks and suggestions give,   *)
(* then one inductive invariant for decisions (IInv), one for batches,     *)
(* exports and guards (Sound), and one for the lock (Typed).               *)
(***************************************************************************)
EXTENDS Proposals, SequenceTheorems, FiniteSetTheorems, FunctionTheorems,
        WellFoundedInduction, TLAPS

-----------------------------------------------------------------------------
(* Sequences and orders *)

\* Numbers have a least one, the only induction that is needed.
LEMMA Least ==
    ASSUME NEW T \in SUBSET Nat, T # {}
    PROVE  \E m \in T : \A n \in T : m <= n
<1> DEFINE R == OpToRel(<, Nat)
<1>1. IsWellFoundedOn(R, Nat)
  BY NatLessThanWellFounded
<1>2. \A n, m \in Nat : <<n, m>> \in R <=> n < m
  BY DEF OpToRel
<1> HIDE DEF R
<1>3. \E m \in T : \A n \in T : <<n, m>> \notin R
  BY <1>1, WFMin, Zenon
<1>4. PICK m \in T : \A n \in T : <<n, m>> \notin R
  BY <1>3
<1>5. ASSUME NEW n \in T PROVE m <= n
  <2>1. n \in Nat /\ m \in Nat /\ <<n, m>> \notin R
    BY <1>4
  <2> QED BY <2>1, <1>2
<1> QED BY <1>5

\* How the sequences of seqs are put one after the other.
Flats(seqs, n, f) ==
    f = [i \in 1 .. n |-> IF i = 1 THEN seqs[i] ELSE f[i-1] \o seqs[i]]

LEMMA FlatsAt ==
  ASSUME NEW seqs, NEW n, NEW f, Flats(seqs, n, f), NEW i \in 1 .. n
  PROVE  f[i] = IF i = 1 THEN seqs[i] ELSE f[i-1] \o seqs[i]
  <1> DEFINE After(k) == IF k = 1 THEN seqs[k] ELSE f[k-1] \o seqs[k]
  <1>1. f = [k \in 1 .. n |-> After(k)]
    BY DEF Flats
  <1> HIDE DEF After
  <1>2. f[i] = After(i)
    BY <1>1
  <1> QED BY <1>2 DEF After

LEMMA FlatsExist ==
  ASSUME NEW seqs, NEW n \in Nat
  PROVE  \E f : Flats(seqs, n, f)
  <1> DEFINE T == {m \in Nat : ~ \E f : Flats(seqs, m, f)}
  <1> SUFFICES ASSUME T # {} PROVE FALSE
    OBVIOUS
  <1>1. PICK m \in T : \A i \in T : m <= i
    <2> HIDE DEF T
    <2>1. T \in SUBSET Nat
      BY DEF T
    <2> QED BY <2>1, Least
  <1>2. m # 0
    <2> DEFINE g == [i \in 1 .. 0 |-> seqs[i]]
    <2>1. Flats(seqs, 0, g)
      BY DEF Flats
    <2> QED BY <1>1, <2>1
  <1>3. m \in Nat /\ m - 1 \in Nat /\ ~(m <= m - 1)
    BY <1>1, <1>2
  <1>4. PICK f : Flats(seqs, m - 1, f)
    <2>1. m - 1 \notin T
      BY <1>1, <1>3
    <2> QED BY <1>3, <2>1
  <1> DEFINE After(k) == IF k = 1 THEN seqs[k] ELSE f[k-1] \o seqs[k]
             g == [k \in 1 .. m |-> After(k)]
             Later(k) == IF k = 1 THEN seqs[k] ELSE g[k-1] \o seqs[k]
  <1>5. ASSUME NEW k \in 1 .. m, k # 1
        PROVE  f[k-1] = g[k-1]
    <2>1. k - 1 \in 1 .. (m - 1) /\ k - 1 \in 1 .. m
      BY <1>3, <1>5
    <2>2. f[k-1] = After(k-1)
      BY <1>4, <2>1, FlatsAt
    <2> HIDE DEF After
    <2> QED BY <2>1, <2>2
  <1>6. \A k \in 1 .. m : After(k) = Later(k)
    <2> HIDE DEF g
    <2> QED BY <1>5
  <1>7. g = [k \in 1 .. m |-> Later(k)]
    <2> HIDE DEF After, Later
    <2> QED BY <1>6
  <1>8. Flats(seqs, m, g)
    <2> HIDE DEF g
    <2> QED BY <1>7 DEF Flats
  <1> QED BY <1>1, <1>8

LEMMA FlattenedIsSequence ==
  ASSUME NEW S, NEW seqs, Len(seqs) \in Nat, \A i \in 1 .. Len(seqs) : seqs[i] \in Seq(S),
         Len(seqs) = 0 => seqs = <<>>
  PROVE  FlattenSeq(seqs) \in Seq(S)
  <1> DEFINE n == Len(seqs)
  <1>1. CASE n = 0
    <2>1. FlattenSeq(seqs) = <<>>
      BY <1>1 DEF FlattenSeq
    <2> QED BY <2>1
  <1>2. CASE n # 0
    <2>1. FlattenSeq(seqs) = (CHOOSE f : Flats(seqs, n, f))[n]
      BY <1>2 DEF FlattenSeq, Flats
    <2>2. PICK f : Flats(seqs, n, f) /\ FlattenSeq(seqs) = f[n]
      BY <2>1, FlatsExist
    <2> DEFINE T == {m \in Nat : m \in 1 .. n /\ f[m] \notin Seq(S)}
    <2>3. T = {}
      <3> SUFFICES ASSUME T # {} PROVE FALSE
        OBVIOUS
      <3>1. PICK m \in T : \A i \in T : m <= i
        <4> HIDE DEF T
        <4>1. T \in SUBSET Nat
          BY DEF T
        <4> QED BY <4>1, Least
      <3>2. f[m] = IF m = 1 THEN seqs[m] ELSE f[m-1] \o seqs[m]
        BY <2>2, <3>1, FlatsAt
      <3>3. m # 1
        BY <3>1, <3>2
      <3>4. f[m-1] \in Seq(S)
        <4>1. m - 1 \in Nat /\ m - 1 \in 1 .. n /\ ~(m <= m - 1)
          BY <3>1, <3>3
        <4>2. m - 1 \notin T
          BY <3>1, <4>1
        <4> QED BY <4>1, <4>2
      <3>5. f[m] \notin Seq(S) /\ m \in 1 .. n
        BY <3>1
      <3>6. seqs[m] \in Seq(S)
        BY <3>5
      <3>7. f[m-1] \o seqs[m] \in Seq(S)
        BY <3>4, <3>6
      <3> QED BY <3>2, <3>3, <3>5, <3>7
    <2>4. n \in 1 .. n /\ n \in Nat
      BY <1>2
    <2>5. n \notin T
      BY <2>3
    <2> QED BY <2>2, <2>4, <2>5
  <1> QED BY <1>1, <1>2

(* what comes before x, in an order in which any two members have their places *)
Below(S, R, x) == {y \in S : <<y, x>> \in R}

StrictOrder(S, R) ==
    /\ \A x \in S : <<x, x>> \notin R
    /\ \A x, y, z \in S : <<x, y>> \in R /\ <<y, z>> \in R => <<x, z>> \in R
    /\ \A x, y \in S : x # y => <<x, y>> \in R \/ <<y, x>> \in R

\* The members of a finite set that is ordered have all the ranks.
LEMMA Ranked ==
  ASSUME NEW S, IsFiniteSet(S), NEW R, StrictOrder(S, R)
  PROVE  \A k \in 1 .. Cardinality(S) :
            \E x \in S : Cardinality(Below(S, R, x)) = k - 1
  <1> DEFINE n == Cardinality(S)
             rank(x) == Cardinality(Below(S, R, x))
  <1>1. n \in Nat
    BY FS_CardinalityType
  <1>2. ASSUME NEW x \in S
        PROVE  /\ Below(S, R, x) \in SUBSET S /\ x \notin Below(S, R, x)
               /\ IsFiniteSet(Below(S, R, x)) /\ rank(x) \in Nat /\ rank(x) < n
    <2>1. Below(S, R, x) \in SUBSET S /\ x \notin Below(S, R, x)
      BY DEF Below, StrictOrder
    <2> HIDE DEF Below
    <2>2. IsFiniteSet(Below(S, R, x)) /\ rank(x) <= n /\ n # rank(x)
      BY <2>1, FS_Subset
    <2>3. rank(x) \in Nat
      BY <2>2, FS_CardinalityType
    <2> HIDE DEF n, rank
    <2> QED BY <1>1, <2>1, <2>2, <2>3
  <1>3. ASSUME NEW x \in S, NEW y \in S, <<x, y>> \in R
        PROVE  rank(x) < rank(y)
    <2>1. /\ Below(S, R, x) \in SUBSET Below(S, R, y)
          /\ x \in Below(S, R, y) /\ x \notin Below(S, R, x)
      BY <1>3 DEF Below, StrictOrder
    <2> HIDE DEF Below
    <2>2. rank(x) <= rank(y) /\ rank(x) # rank(y)
      BY <1>2, <2>1, FS_Subset
    <2>3. rank(x) \in Nat /\ rank(y) \in Nat
      BY <1>2
    <2> HIDE DEF rank
    <2> QED BY <2>2, <2>3
  <1> DEFINE f == [x \in S |-> rank(x) + 1]
  <1>4. f \in Injection(S, 1 .. n)
    <2>1. f \in [S -> 1 .. n]
      <3> HIDE DEF rank, n
      <3> QED BY <1>1, <1>2
    <2>2. ASSUME NEW x \in S, NEW y \in S, f[x] = f[y]
          PROVE  x = y
      <3>1. rank(x) \in Nat /\ rank(y) \in Nat
        BY <1>2
      <3>2. rank(x) = rank(y)
        <4> HIDE DEF rank
        <4> QED BY <2>2, <3>1
      <3>3. ~(<<x, y>> \in R) /\ ~(<<y, x>> \in R)
        <4>1. ~(rank(x) < rank(y)) /\ ~(rank(y) < rank(x))
          <5> HIDE DEF rank
          <5> QED BY <3>1, <3>2
        <4> QED BY <1>3, <4>1
      <3> QED BY <3>3 DEF StrictOrder
    <2> HIDE DEF f
    <2> QED BY <2>1, <2>2 DEF Injection, IsInjective
  <1>5. f \in Surjection(S, 1 .. n)
    <2>1. IsFiniteSet(1 .. n) /\ Cardinality(1 .. n) = n
      BY <1>1, FS_Interval
    <2> HIDE DEF f
    <2> QED BY <1>4, <2>1, FS_Injection
  <1>6. \A k \in 1 .. n : \E x \in S : f[x] = k
    <2> HIDE DEF f, n
    <2> QED BY <1>5 DEF Surjection
  <1> SUFFICES ASSUME NEW k \in 1 .. n
               PROVE  \E x \in S : rank(x) = k - 1
    OBVIOUS
  <1>7. PICK x \in S : f[x] = k
    BY <1>6
  <1>8. rank(x) + 1 = k /\ rank(x) \in Nat
    BY <1>2, <1>7
  <1> HIDE DEF rank, n, f
  <1> QED BY <1>1, <1>8

\* What is ordered is a sequence of the members.
LEMMA AscendingIsSequence ==
  ASSUME NEW S \in SUBSET Nat, IsFiniteSet(S)
  PROVE  Ordered(S, Earlier) \in Seq(S)
  <1> DEFINE R == {e \in S \X S : Earlier(e[1], e[2])}
  <1>1. StrictOrder(S, R)
    BY DEF StrictOrder, Earlier
  <1>2. ASSUME NEW x \in S
        PROVE  Below(S, R, x) = {y \in S : Earlier(y, x)}
    BY DEF Below
  <1>3. Cardinality(S) \in Nat
    BY FS_CardinalityType
  <1> HIDE DEF R
  <1>4. \A k \in 1 .. Cardinality(S) : \E x \in S : Cardinality(Below(S, R, x)) = k - 1
    BY <1>1, Ranked
  <1>5. \A k \in 1 .. Cardinality(S) : \E x \in S : Cardinality({y \in S : Earlier(y, x)}) = k - 1
    BY <1>2, <1>4
  <1>6. Ordered(S, Earlier) \in [1 .. Cardinality(S) -> S]
    BY <1>5 DEF Ordered
  <1> QED BY <1>3, <1>6

-----------------------------------------------------------------------------
(* The block that an export writes *)

Wrapped(body) == <<Start>> \o body \o <<End>>

(* the order of the records of led, the one that has k - 1 of ids before it, and the
   lines that show ids *)
BeforeIn(led, i, j) ==
    IF Grouped /\ ScopeRank[led[i].input.scope] # ScopeRank[led[j].input.scope]
    THEN ScopeRank[led[i].input.scope] < ScopeRank[led[j].input.scope] ELSE i < j

NthOf(ids, led, k) ==
    CHOOSE x \in ids : Cardinality({y \in ids : BeforeIn(led, y, x)}) = k - 1

BodyOf(ids, led) ==
    [k \in 1 .. Cardinality(ids) |-> Rendered[led[NthOf(ids, led, k)].input.memory]]

(* records that an export may show *)
Showable(ids, led) ==
    /\ IsFiniteSet(ids) /\ ids \in SUBSET Nat
    /\ \A i \in ids : led[i].input.scope \in Scopes /\ led[i].input.memory \in Memories

LEMMA NthIsMember ==
  ASSUME NEW led, NEW ids, Showable(ids, led), NEW k \in 1 .. Cardinality(ids)
  PROVE  NthOf(ids, led, k) \in ids
  <1> DEFINE R == {e \in ids \X ids : BeforeIn(led, e[1], e[2])}
             rank(i) == ScopeRank[led[i].input.scope]
  <1>1. ids \in SUBSET Nat /\ IsFiniteSet(ids) /\ \A i \in ids : rank(i) \in Nat
    BY TextAssumption DEF TextAssumption, Showable
  <1>2. StrictOrder(ids, R)
    <2>1. \A i, j \in ids : BeforeIn(led, i, j) <=>
              IF Grouped /\ rank(i) # rank(j) THEN rank(i) < rank(j) ELSE i < j
      BY DEF BeforeIn
    <2> HIDE DEF rank
    <2>2. \A x, y : <<x, y>> \in R <=> x \in ids /\ y \in ids /\ BeforeIn(led, x, y)
      OBVIOUS
    <2>3. \A x, y, z \in ids : BeforeIn(led, x, y) /\ BeforeIn(led, y, z) => BeforeIn(led, x, z)
      BY <1>1, <2>1
    <2>4. \A x, y \in ids : x # y => BeforeIn(led, x, y) \/ BeforeIn(led, y, x)
      BY <1>1, <2>1
    <2>5. \A x \in ids : ~BeforeIn(led, x, x)
      BY <1>1, <2>1
    <2> HIDE DEF R
    <2> QED BY <2>2, <2>3, <2>4, <2>5 DEF StrictOrder
  <1>3. ASSUME NEW x \in ids
        PROVE  Below(ids, R, x) = {y \in ids : BeforeIn(led, y, x)}
    BY DEF Below
  <1> HIDE DEF R
  <1>4. \E x \in ids : Cardinality(Below(ids, R, x)) = k - 1
    BY <1>1, <1>2, Ranked
  <1>5. \E x \in ids : Cardinality({y \in ids : BeforeIn(led, y, x)}) = k - 1
    BY <1>3, <1>4
  <1> QED BY <1>5 DEF NthOf

\* The lines of a block are no markers.
LEMMA BodyIsLines ==
  ASSUME NEW led, NEW ids, Showable(ids, led)
  PROVE  BodyOf(ids, led) \in Seq(Lines)
  <1>1. Cardinality(ids) \in Nat
    BY FS_CardinalityType DEF Showable
  <1>2. ASSUME NEW k \in 1 .. Cardinality(ids)
        PROVE  Rendered[led[NthOf(ids, led, k)].input.memory] \in Lines
    <2>1. NthOf(ids, led, k) \in ids
      BY NthIsMember
    <2>2. led[NthOf(ids, led, k)].input.memory \in Memories
      BY <2>1 DEF Showable
    <2> QED BY <2>2, TextAssumption DEF TextAssumption
  <1>3. BodyOf(ids, led) \in [1 .. Cardinality(ids) -> Lines]
    BY <1>2 DEF BodyOf
  <1> QED BY <1>1, <1>3

LEMMA BlockIs ==
  ASSUME NEW ids
  PROVE  Block(ids) = Wrapped(BodyOf(ids, ledger))
  <1> DEFINE order == Ordered(ids, ExportOrder)
             n == Cardinality(ids)
  <1>1. \A i, j : ExportOrder(i, j) = BeforeIn(ledger, i, j)
    BY DEF ExportOrder, BeforeIn
  <1>2. order = [k \in 1 .. n |-> NthOf(ids, ledger, k)]
    <2>1. order = [k \in 1 .. n |->
                      CHOOSE x \in ids : Cardinality({y \in ids : ExportOrder(y, x)}) = k - 1]
      BY DEF Ordered
    <2> QED BY <1>1, <2>1 DEF NthOf
  <1>3. Block(ids) = <<Start>> \o [k \in DOMAIN order |-> Rendered[ledger[order[k]].input.memory]]
                     \o <<End>>
    BY DEF Block
  <1> HIDE DEF order
  <1>4. [k \in DOMAIN order |-> Rendered[ledger[order[k]].input.memory]] = BodyOf(ids, ledger)
    BY <1>2 DEF BodyOf
  <1> QED BY <1>3, <1>4 DEF Wrapped

(* what a ledger that goes on keeps of what it holds *)
Grown(led, more) ==
    \A i \in DOMAIN led : i \in DOMAIN more /\ more[i].input = led[i].input

\* What a block shows stays what it was, whatever is proposed or reviewed meanwhile.
LEMMA BodyStays ==
  ASSUME NEW led, NEW more, Grown(led, more), NEW ids \in SUBSET (DOMAIN led),
         Showable(ids, led)
  PROVE  BodyOf(ids, more) = BodyOf(ids, led)
  <1>1. \A i \in ids : more[i].input = led[i].input
    BY DEF Grown
  <1>2. \A i, j \in ids : BeforeIn(led, i, j) <=> BeforeIn(more, i, j)
    BY <1>1 DEF BeforeIn
  <1>3. \A x \in ids : {y \in ids : BeforeIn(led, y, x)} = {y \in ids : BeforeIn(more, y, x)}
    BY <1>2
  <1>4. \A k : NthOf(ids, led, k) = NthOf(ids, more, k)
    BY <1>3 DEF NthOf
  <1>5. \A k \in 1 .. Cardinality(ids) : NthOf(ids, led, k) \in ids
    BY NthIsMember
  <1>6. \A k \in 1 .. Cardinality(ids) :
           Rendered[led[NthOf(ids, led, k)].input.memory]
              = Rendered[more[NthOf(ids, more, k)].input.memory]
    BY <1>1, <1>4, <1>5
  <1> QED BY <1>6 DEF BodyOf

\* A content that is lines, a block that shows body, and lines.
Frames(content, before, body, after) ==
    LET s == Len(before) + 1
        e == s + Len(body) + 1
    IN /\ content \in Contents /\ Len(content) = e + Len(after)
       /\ \A i \in 1 .. Len(before) : content[i] = before[i]
       /\ content[s] = Start /\ content[e] = End
       /\ \A i \in 1 .. Len(body) : content[s + i] = body[i]
       /\ \A i \in 1 .. Len(after) : content[e + i] = after[i]

LEMMA MarkersApart ==
  Start # End /\ Start \notin Lines /\ End \notin Lines /\ Absent \notin Contents
  BY TextAssumption DEF TextAssumption, Markers

\* A block among lines is found where it is, and what is beside it is what was there.
LEMMA FrameHasBlock ==
  ASSUME NEW content, NEW before \in Seq(Lines), NEW body \in Seq(Lines),
         NEW after \in Seq(Lines), Frames(content, before, body, after)
  PROVE  /\ WellFormed(content) /\ content # Absent
         /\ Position(content, Start) = Len(before) + 1
         /\ Position(content, End) = Len(before) + Len(body) + 2
  <1> DEFINE s == Len(before) + 1
             e == s + Len(body) + 1
  <1>1. /\ content \in Contents /\ Len(content) = e + Len(after)
        /\ \A i \in 1 .. Len(before) : content[i] = before[i]
        /\ content[s] = Start /\ content[e] = End
        /\ \A i \in 1 .. Len(body) : content[s + i] = body[i]
        /\ \A i \in 1 .. Len(after) : content[e + i] = after[i]
    BY DEF Frames
  <1>2. /\ Len(before) \in Nat /\ Len(body) \in Nat /\ Len(after) \in Nat
        /\ \A i \in 1 .. Len(before) : before[i] \in Lines
        /\ \A i \in 1 .. Len(body) : body[i] \in Lines
        /\ \A i \in 1 .. Len(after) : after[i] \in Lines
    OBVIOUS
  <1>3. DOMAIN content = 1 .. Len(content)
    BY <1>1 DEF Contents
  <1>4. s \in DOMAIN content /\ e \in DOMAIN content /\ s < e
    BY <1>1, <1>2, <1>3
  <1>5. ASSUME NEW i \in DOMAIN content, i # s, i # e
        PROVE  content[i] \in Lines
    <2>1. i \in 1 .. Len(before) \/ i - s \in 1 .. Len(body) \/ i - e \in 1 .. Len(after)
      <3> DEFINE b == Len(before)
                 m == Len(body)
                 a == Len(after)
      <3>1. /\ i \in Int /\ 1 <= i /\ i <= e + a /\ i # s /\ i # e
            /\ s = b + 1 /\ e = s + m + 1 /\ b \in Nat /\ m \in Nat /\ a \in Nat
        BY <1>1, <1>2, <1>3, <1>5
      <3> HIDE DEF b, m, a, s, e
      <3>2. s \in Nat /\ e \in Nat
        BY <3>1
      <3>3. i < s \/ (i > s /\ i < e) \/ i > e
        BY <3>1, <3>2
      <3>4. i \in 1 .. b \/ i - s \in 1 .. m \/ i - e \in 1 .. a
        BY <3>1, <3>2, <3>3
      <3> QED BY <3>4 DEF b, m, a
    <2>2. CASE i \in 1 .. Len(before)
      BY <1>1, <1>2, <2>2
    <2>3. CASE i - s \in 1 .. Len(body)
      <3>1. s + (i - s) = i
        BY <1>2, <1>3
      <3>2. content[s + (i - s)] = body[i - s]
        BY <1>1, <2>3
      <3> QED BY <1>2, <2>3, <3>1, <3>2
    <2>4. CASE i - e \in 1 .. Len(after)
      <3>1. e + (i - e) = i
        BY <1>2, <1>3
      <3>2. content[e + (i - e)] = after[i - e]
        BY <1>1, <2>4
      <3> QED BY <1>2, <2>4, <3>1, <3>2
    <2> QED BY <2>1, <2>2, <2>3, <2>4
  <1>6. Places(content, Start) = {s} /\ Places(content, End) = {e}
    <2> HIDE DEF s, e
    <2> QED BY <1>1, <1>4, <1>5, MarkersApart DEF Places
  <1>7. Position(content, Start) = s /\ Position(content, End) = e
    BY <1>6 DEF Position
  <1>8. WellFormed(content)
    BY <1>4, <1>6 DEF WellFormed
  <1> QED BY <1>1, <1>2, <1>7, <1>8, MarkersApart

LEMMA FrameKeepsOutside ==
  ASSUME NEW content, NEW before \in Seq(Lines), NEW body \in Seq(Lines),
         NEW after \in Seq(Lines), Frames(content, before, body, after)
  PROVE  Outside(content) = before \o after
  <1> DEFINE n == Len(before)
             e == n + Len(body) + 2
  <1>1. /\ content \in Contents /\ Len(content) = e + Len(after)
        /\ \A i \in 1 .. n : content[i] = before[i]
        /\ \A i \in 1 .. Len(after) : content[e + i] = after[i]
    BY DEF Frames
  <1>2. n \in Nat /\ Len(body) \in Nat /\ Len(after) \in Nat /\ content \in Seq(Lines \cup Markers)
    BY <1>1 DEF Contents
  <1>3. Outside(content) = SubSeq(content, 1, n) \o SubSeq(content, e + 1, Len(content))
    <2>1. n + 1 - 1 = n
      BY <1>2
    <2>2. WellFormed(content) /\ Position(content, Start) = n + 1 /\ Position(content, End) = e
      BY FrameHasBlock
    <2>3. Position(content, Start) - 1 = n
      BY <2>1, <2>2
    <2> HIDE DEF n, e
    <2> QED BY <2>2, <2>3 DEF Outside
  <1>4. SubSeq(content, 1, n) = before
    <2>1. /\ SubSeq(content, 1, n) \in Seq(Lines \cup Markers) /\ Len(SubSeq(content, 1, n)) = n
          /\ \A i \in 1 .. n : SubSeq(content, 1, n)[i] = content[i]
      BY <1>1, <1>2
    <2> QED BY <1>1, <2>1, SeqEqual
  <1>5. SubSeq(content, e + 1, Len(content)) = after
    <2>1. /\ SubSeq(content, e + 1, Len(content)) \in Seq(Lines \cup Markers)
          /\ Len(SubSeq(content, e + 1, Len(content))) = Len(after)
          /\ \A i \in 1 .. Len(after) : SubSeq(content, e + 1, Len(content))[i] = content[e + i]
      BY <1>1, <1>2
    <2> QED BY <1>1, <2>1, SeqEqual
  <1> QED BY <1>3, <1>4, <1>5

LEMMA FrameShowsBody ==
  ASSUME NEW content, NEW before \in Seq(Lines), NEW body \in Seq(Lines),
         NEW after \in Seq(Lines), Frames(content, before, body, after)
  PROVE  [k \in 1 .. Cardinality(BlockAt(content)) |->
             content[Position(content, Start) + k - 1]] = Wrapped(body)
  <1> DEFINE s == Len(before) + 1
             m == Len(body)
             shown == [k \in 1 .. m + 2 |-> content[s + k - 1]]
  <1>1. s \in Nat /\ m \in Nat
    OBVIOUS
  <1>2. Cardinality(BlockAt(content)) = m + 2
    <2>1. BlockAt(content) = s .. s + m + 1
      <3>1. Position(content, Start) = s /\ Position(content, End) = Len(before) + m + 2
        BY FrameHasBlock
      <3>2. Len(before) + m + 2 = s + m + 1
        BY <1>1
      <3> QED BY <3>1, <3>2 DEF BlockAt
    <2>2. Cardinality(s .. s + m + 1) = (s + m + 1) - s + 1
      BY <1>1, FS_Interval
    <2> QED BY <1>1, <2>1, <2>2
  <1>3. content[s] = Start /\ content[s + m + 1] = End
        /\ \A i \in 1 .. m : content[s + i] = body[i]
    BY DEF Frames
  <1>4. /\ Wrapped(body) \in Seq(Lines \cup Markers) /\ Len(Wrapped(body)) = m + 2
        /\ Wrapped(body)[1] = Start /\ Wrapped(body)[m + 2] = End
        /\ \A i \in 1 .. m : Wrapped(body)[i + 1] = body[i]
    BY DEF Wrapped, Markers
  <1>5. ASSUME NEW k \in 1 .. m + 2
        PROVE  shown[k] = Wrapped(body)[k]
    <2>1. k = 1 \/ k = m + 2 \/ k - 1 \in 1 .. m
      BY <1>1
    <2>2. CASE k - 1 \in 1 .. m
      <3>1. (k - 1) + 1 = k /\ s + k - 1 = s + (k - 1)
        BY <1>1
      <3> QED BY <1>3, <1>4, <2>2, <3>1
    <2>3. CASE k = 1
      <3>1. s + k - 1 = s
        BY <1>1, <2>3
      <3> QED BY <1>3, <1>4, <2>3, <3>1
    <2>4. CASE k = m + 2
      <3>1. s + k - 1 = s + m + 1
        BY <1>1, <2>4
      <3> QED BY <1>3, <1>4, <2>4, <3>1
    <2> QED BY <2>1, <2>2, <2>3, <2>4
  <1>6. shown = Wrapped(body)
    <2>1. Wrapped(body) = [k \in 1 .. m + 2 |-> Wrapped(body)[k]]
      BY <1>4
    <2>2. shown = [k \in 1 .. m + 2 |-> shown[k]]
      OBVIOUS
    <2> HIDE DEF shown
    <2> QED BY <1>5, <2>1, <2>2
  <1> QED BY <1>2, <1>6, FrameHasBlock

LEMMA MarkersOf ==
  ASSUME NEW content, WellFormed(content)
  PROVE  /\ Places(content, Start) = {Position(content, Start)}
         /\ Places(content, End) = {Position(content, End)}
         /\ Position(content, Start) \in DOMAIN content
         /\ Position(content, End) \in DOMAIN content
         /\ Position(content, Start) < Position(content, End)
  <1>1. PICK s, e \in DOMAIN content :
           s < e /\ Places(content, Start) = {s} /\ Places(content, End) = {e}
    BY DEF WellFormed
  <1>2. Position(content, Start) = s /\ Position(content, End) = e
    BY <1>1 DEF Position
  <1> QED BY <1>1, <1>2

LEMMA LinesAroundBlock ==
  ASSUME NEW content \in Contents, WellFormed(content)
  PROVE  /\ SubSeq(content, 1, Position(content, Start) - 1) \in Seq(Lines)
         /\ SubSeq(content, Position(content, End) + 1, Len(content)) \in Seq(Lines)
  <1> DEFINE s == Position(content, Start)
             e == Position(content, End)
             before == SubSeq(content, 1, s - 1)
             after == SubSeq(content, e + 1, Len(content))
  <1>1. content \in Seq(Lines \cup Markers) /\ DOMAIN content = 1 .. Len(content)
        /\ Len(content) \in Nat
    BY DEF Contents
  <1>2. s \in DOMAIN content /\ e \in DOMAIN content /\ s < e
    BY MarkersOf
  <1>3. \A i \in DOMAIN content : i # s /\ i # e => content[i] \in Lines
    <2>1. \A i \in DOMAIN content : content[i] \in Lines \cup Markers
      BY <1>1
    <2> QED BY <2>1, MarkersOf DEF Places, Markers
  <1> HIDE DEF s, e
  <1>4. before \in Seq(Lines)
    <2>1. /\ before \in Seq(Lines \cup Markers) /\ Len(before) = s - 1
          /\ \A i \in 1 .. s - 1 : before[i] = content[i]
      BY <1>1, <1>2
    <2>2. \A i \in 1 .. s - 1 : i \in DOMAIN content /\ i # s /\ i # e
      BY <1>1, <1>2
    <2> HIDE DEF before
    <2>3. \A i \in 1 .. Len(before) : before[i] \in Lines
      BY <1>3, <2>1, <2>2
    <2> QED BY <2>1, <2>3, SeqDef
  <1>5. after \in Seq(Lines)
    <2>1. /\ after \in Seq(Lines \cup Markers) /\ Len(after) = Len(content) - e
          /\ \A i \in 1 .. Len(content) - e : after[i] = content[e + i]
      BY <1>1, <1>2
    <2>2. \A i \in 1 .. Len(content) - e : /\ e + i \in DOMAIN content
                                           /\ e + i # s /\ e + i # e
      BY <1>1, <1>2
    <2> HIDE DEF after
    <2>3. \A i \in 1 .. Len(after) : after[i] \in Lines
      BY <1>3, <2>1, <2>2
    <2> QED BY <2>1, <2>3, SeqDef
  <1> QED BY <1>4, <1>5 DEF s, e

LEMMA NoBlockIsLines ==
  ASSUME NEW content \in Contents, NoBlock(content)
  PROVE  content \in Seq(Lines) /\ Outside(content) = content
  <1>1. content \in Seq(Lines \cup Markers) /\ DOMAIN content = 1 .. Len(content)
    BY DEF Contents
  <1>2. \A i \in 1 .. Len(content) : content[i] \in Lines
    <2>1. \A i \in 1 .. Len(content) : content[i] \in Lines \cup Markers
      BY <1>1
    <2> QED BY <1>1, <2>1 DEF NoBlock, Places, Markers
  <1>3. ~WellFormed(content)
    BY DEF WellFormed, NoBlock
  <1> QED BY <1>1, <1>2, <1>3, SeqDef DEF Outside

Joins(S, joint, s, t) ==
    /\ joint \in Seq(S) /\ Len(joint) = Len(s) + Len(t)
    /\ \A i \in 1 .. Len(s) : joint[i] = s[i]
    /\ \A i \in 1 .. Len(t) : joint[Len(s) + i] = t[i]

LEMMA Joined ==
  ASSUME NEW S, NEW s \in Seq(S), NEW t \in Seq(S)
  PROVE  Joins(S, s \o t, s, t)
  <1>1. /\ s \o t \in Seq(S) /\ Len(s \o t) = Len(s) + Len(t)
        /\ Len(s) \in Nat /\ Len(t) \in Nat
        /\ \A i \in 1 .. Len(s) + Len(t) :
              (s \o t)[i] = IF i <= Len(s) THEN s[i] ELSE t[i - Len(s)]
    BY ConcatProperties
  <1>2. ASSUME NEW i \in 1 .. Len(t)
        PROVE  (s \o t)[Len(s) + i] = t[i]
    <2>1. /\ Len(s) + i \in 1 .. Len(s) + Len(t) /\ ~(Len(s) + i <= Len(s))
          /\ (Len(s) + i) - Len(s) = i
      BY <1>1
    <2> QED BY <1>1, <2>1
  <1>3. \A i \in 1 .. Len(s) : (s \o t)[i] = s[i]
    BY <1>1
  <1> QED BY <1>1, <1>2, <1>3 DEF Joins

LEMMA JoinFrames ==
  ASSUME NEW before \in Seq(Lines), NEW body \in Seq(Lines), NEW after \in Seq(Lines)
  PROVE  Frames(before \o Wrapped(body) \o after, before, body, after)
  <1> DEFINE content == before \o Wrapped(body) \o after
  <1>1. Len(before) \in Nat /\ Len(body) \in Nat /\ Len(after) \in Nat
    OBVIOUS
  <1>2. /\ Wrapped(body) \in Seq(Lines \cup Markers) /\ Len(Wrapped(body)) = Len(body) + 2
        /\ Wrapped(body)[1] = Start /\ Wrapped(body)[Len(body) + 2] = End
        /\ \A i \in 1 .. Len(body) : Wrapped(body)[i + 1] = body[i]
    BY DEF Wrapped, Markers
  <1> DEFINE part == before \o Wrapped(body)
             b == Len(before)
             m == Len(body)
  <1>3. /\ part \in Seq(Lines \cup Markers) /\ Len(part) = b + m + 2
        /\ \A i \in 1 .. b : part[i] = before[i]
        /\ \A i \in 1 .. m + 2 : part[b + i] = Wrapped(body)[i]
    <2>1. before \in Seq(Lines \cup Markers)
      OBVIOUS
    <2>2. Len(before) + (m + 2) = b + m + 2
      BY <1>1
    <2>3. /\ part \in Seq(Lines \cup Markers) /\ Len(part) = Len(before) + Len(Wrapped(body))
          /\ \A i \in 1 .. Len(before) : part[i] = before[i]
          /\ \A i \in 1 .. Len(Wrapped(body)) : part[Len(before) + i] = Wrapped(body)[i]
      <3>1. Joins(Lines \cup Markers, part, before, Wrapped(body))
        BY <1>2, <2>1, Joined
      <3> QED BY <3>1 DEF Joins
    <2> HIDE DEF part
    <2> QED BY <1>2, <2>2, <2>3
  <1>4. /\ content \in Seq(Lines \cup Markers) /\ Len(content) = b + m + 2 + Len(after)
        /\ \A i \in 1 .. b + m + 2 : content[i] = part[i]
        /\ \A i \in 1 .. Len(after) : content[b + m + 2 + i] = after[i]
    <2> HIDE DEF part
    <2>1. content = part \o after
      BY DEF part
    <2>2. after \in Seq(Lines \cup Markers)
      OBVIOUS
    <2>3. /\ content \in Seq(Lines \cup Markers) /\ Len(content) = Len(part) + Len(after)
          /\ \A i \in 1 .. Len(part) : content[i] = part[i]
          /\ \A i \in 1 .. Len(after) : content[Len(part) + i] = after[i]
      <3>1. Joins(Lines \cup Markers, content, part, after)
        BY <1>3, <2>1, <2>2, Joined
      <3> QED BY <3>1 DEF Joins
    <2> HIDE DEF content, b, m
    <2> QED BY <1>3, <2>3
  <1> HIDE DEF part, content
  <1>5. \A i \in 1 .. m + 2 : content[b + i] = Wrapped(body)[i]
    <2>1. \A i \in 1 .. m + 2 : b + i \in 1 .. b + m + 2
      BY <1>1
    <2> QED BY <1>3, <1>4, <2>1
  <1>6. /\ content[b + 1] = Start /\ content[b + 1 + m + 1] = End
        /\ \A i \in 1 .. m : content[b + 1 + i] = body[i]
    <2>1. 1 \in 1 .. m + 2 /\ m + 2 \in 1 .. m + 2 /\ \A i \in 1 .. m : i + 1 \in 1 .. m + 2
      BY <1>1
    <2>2. b + 1 + m + 1 = b + (m + 2) /\ \A i \in 1 .. m : b + 1 + i = b + (i + 1)
      BY <1>1
    <2> QED BY <1>2, <1>5, <2>1, <2>2
  <1>7. \A i \in 1 .. b : content[i] = before[i]
    BY <1>1, <1>3, <1>4
  <1>8. /\ Len(content) = b + 1 + m + 1 + Len(after)
        /\ \A i \in 1 .. Len(after) : content[b + 1 + m + 1 + i] = after[i]
    <2>1. b + 1 + m + 1 = b + m + 2
      BY <1>1
    <2> QED BY <1>1, <1>4, <2>1
  <1> QED BY <1>4, <1>6, <1>7, <1>8 DEF Frames, Contents, content

\* An export that is not refused puts its block among the lines that were there.
LEMMA Replaced ==
  ASSUME NEW content \in Contents, NEW body \in Seq(Lines),
         NEW written, written = ReplaceManagedBlock(content, Wrapped(body)),
         written # Malformed
  PROVE  \E before, after \in Seq(Lines) :
            Frames(written, before, body, after) /\ before \o after = Outside(content)
  <1>1. CASE NoBlock(content)
    <2>1. content \in Seq(Lines) /\ Outside(content) = content
      BY <1>1, NoBlockIsLines
    <2>2. <<>> \in Seq(Lines) /\ content \o <<>> = content
      BY <2>1
    <2>3. Frames(content \o Wrapped(body) \o <<>>, content, body, <<>>)
      BY <2>1, <2>2, JoinFrames
    <2>4. Wrapped(body) \in Seq(Lines \cup Markers)
      BY DEF Wrapped, Markers
    <2>5. content \o Wrapped(body) \o <<>> = content \o Wrapped(body)
      BY <2>4 DEF Contents
    <2>6. written = content \o Wrapped(body)
      BY <1>1 DEF ReplaceManagedBlock
    <2> QED BY <2>1, <2>2, <2>3, <2>5, <2>6
  <1>2. CASE WellFormed(content)
    <2> DEFINE before == SubSeq(content, 1, Position(content, Start) - 1)
               after == SubSeq(content, Position(content, End) + 1, Len(content))
    <2>1. before \in Seq(Lines) /\ after \in Seq(Lines)
      BY <1>2, LinesAroundBlock
    <2>2. ~NoBlock(content)
      BY <1>2 DEF WellFormed, NoBlock
    <2>3. written = before \o Wrapped(body) \o after
      BY <1>2, <2>2 DEF ReplaceManagedBlock
    <2>4. Outside(content) = before \o after
      BY <1>2 DEF Outside
    <2> HIDE DEF before, after
    <2> QED BY <2>1, <2>3, <2>4, JoinFrames
  <1>3. NoBlock(content) \/ WellFormed(content)
    BY DEF ReplaceManagedBlock
  <1> QED BY <1>1, <1>2, <1>3

-----------------------------------------------------------------------------
(* Suggestions *)

(* what an export may show *)
Proper(input) == input.memory \in Memories /\ input.scope \in Scopes

(* a transcript has no markers: it is never exported to *)
FilesHold ==
    /\ DOMAIN files = {MemoryFile, Chat}
    /\ files[MemoryFile] # Absent => files[MemoryFile] \in Contents
    /\ files[Chat] # Absent => files[Chat] \in Seq(Lines)

(* what may be proposed of what command suggests *)
Suitable(input, command, source) ==
    /\ Proper(input)
    /\ command.kind = "suggest" /\ command.from = "memory file" /\ WellFormed(source) =>
          \E k \in DOMAIN source : source[k] = input.quote /\ k \notin BlockAt(source)

LEMMA CandidateProper ==
  ASSUME NEW memory \in Memories, NEW quote, NEW source, NEW options, options.scope \in Scopes
  PROVE  Proper(Candidate(memory, quote, source, options))
  BY DEF Candidate, Proper

LEMMA Elements ==
  ASSUME NEW S, NEW s \in Seq(S)
  PROVE  DOMAIN s = 1 .. Len(s) /\ Len(s) \in Nat /\ \A k \in DOMAIN s : s[k] \in S
  OBVIOUS

LEMMA SomeOfSequence ==
  ASSUME NEW S, NEW s \in Seq(S), NEW chosen \in SUBSET (DOMAIN s)
  PROVE  /\ Ordered(chosen, Earlier) \in Seq(chosen)
         /\ \A k \in DOMAIN Ordered(chosen, Earlier) : s[Ordered(chosen, Earlier)[k]] \in S
  <1>1. DOMAIN s = 1 .. Len(s) /\ Len(s) \in Nat
    OBVIOUS
  <1>2. IsFiniteSet(1 .. Len(s))
    BY <1>1, FS_Interval
  <1>3. IsFiniteSet(chosen) /\ chosen \in SUBSET Nat
    BY <1>1, <1>2, FS_Subset
  <1>4. Ordered(chosen, Earlier) \in Seq(chosen)
    BY <1>3, AscendingIsSequence
  <1> DEFINE order == Ordered(chosen, Earlier)
  <1> HIDE DEF order
  <1>5. \A k \in DOMAIN order : order[k] \in chosen
    BY <1>4 DEF order
  <1>6. \A k \in DOMAIN order : s[order[k]] \in S
    BY <1>1, <1>5
  <1> QED BY <1>4, <1>6 DEF order

LEMMA SequenceOver ==
  ASSUME NEW S, NEW T, NEW order \in Seq(T), NEW s,
         DOMAIN s = DOMAIN order, s = [k \in DOMAIN s |-> s[k]],
         \A k \in DOMAIN order : s[k] \in S
  PROVE  s \in Seq(S)
  <1>1. DOMAIN order = 1 .. Len(order) /\ Len(order) \in Nat
    OBVIOUS
  <1>2. s \in [1 .. Len(order) -> S]
    BY <1>1
  <1> QED BY <1>1, <1>2

LEMMA DeduplicatedAmong ==
  ASSUME NEW S, NEW candidates \in Seq(S)
  PROVE  Deduplicated(candidates) \in Seq(S)
  <1> DEFINE same(i, j) == /\ candidates[i].memory = candidates[j].memory
                           /\ candidates[i].source = candidates[j].source
             first == {j \in DOMAIN candidates : \A i \in 1 .. j - 1 : ~same(i, j)}
             order == Ordered(first, Earlier)
             s == [k \in DOMAIN order |-> candidates[order[k]]]
  <1>1. Deduplicated(candidates) = s
    BY DEF Deduplicated
  <1>2. first \in SUBSET (DOMAIN candidates)
    OBVIOUS
  <1> HIDE DEF first
  <1>3. order \in Seq(first) /\ \A k \in DOMAIN order : candidates[order[k]] \in S
    BY <1>2, SomeOfSequence
  <1> HIDE DEF order
  <1>4. DOMAIN s = DOMAIN order /\ s = [k \in DOMAIN s |-> s[k]]
        /\ \A k \in DOMAIN order : s[k] \in S
    BY <1>3
  <1> HIDE DEF s
  <1>5. s \in Seq(S)
    BY <1>3, <1>4, SequenceOver
  <1> QED BY <1>1, <1>5

LEMMA LimitedAmong ==
  ASSUME NEW S, NEW candidates \in Seq(S), NEW limit \in Nat
  PROVE  Limited(candidates, limit) \in Seq(S)
  BY DEF Limited

LEMMA ManagedInBlock ==
  ASSUME NEW content \in Contents, WellFormed(content), NEW i \in DOMAIN content,
         content[i] \notin {Start, End}, i \in BlockAt(content)
  PROVE  \E s \in 1 .. i - 1 : /\ content[s] = Start
                               /\ \A k \in s .. i : content[k] # End
  <1> DEFINE b == Position(content, Start)
             e == Position(content, End)
  <1>1. /\ Places(content, Start) = {b} /\ Places(content, End) = {e}
        /\ b \in DOMAIN content /\ e \in DOMAIN content /\ b < e
    BY MarkersOf
  <1>2. i \in b .. e
    BY DEF BlockAt
  <1> HIDE DEF b, e
  <1>3. content[b] = Start /\ content[e] = End
        /\ \A k \in DOMAIN content : content[k] = End => k = e
    BY <1>1 DEF Places
  <1>4. DOMAIN content = 1 .. Len(content) /\ Len(content) \in Nat
    BY DEF Contents
  <1>5. i \in Nat /\ b \in Nat /\ e \in Nat /\ 1 <= b /\ e <= Len(content) /\ i <= Len(content)
    BY <1>1, <1>4
  <1>6. i # b /\ i # e
    BY <1>3
  <1>7. b <= i /\ i <= e
    BY <1>2, <1>5
  <1>8. b \in 1 .. i - 1
    BY <1>5, <1>6, <1>7
  <1>9. ASSUME NEW k \in b .. i
        PROVE  content[k] # End
    <2>1. k \in 1 .. Len(content) /\ k # e
      BY <1>5, <1>6, <1>7
    <2> QED BY <1>3, <1>4, <2>1
  <1> QED BY <1>3, <1>8, <1>9

LEMMA ImportSuits ==
  ASSUME NEW content \in Contents, NEW command, command.from = "memory file",
         command.options.scope \in Scopes
  PROVE  \E S : /\ ImportCandidates(content, command.options) \in Seq(S)
                /\ \A x \in S : Suitable(x, command, content)
  <1> DEFINE options == command.options
             managed(i) == \E s \in 1 .. i - 1 : /\ content[s] = Start
                                                 /\ \A k \in s .. i : content[k] # End
             open == {i \in DOMAIN content : /\ content[i] \notin {Start, End}
                                             /\ ~managed(i) /\ Bullet[content[i]] # Absent}
             order == Ordered(open, Earlier)
             found(i) == Candidate(Bullet[content[i]], content[i], MemoryFile, options)
             S == {found(i) : i \in open}
             s == [k \in DOMAIN order |-> found(order[k])]
  <1>1. ImportCandidates(content, options) = s
    BY DEF ImportCandidates
  <1> HIDE DEF order, s, S, found
  <1>2. open \in SUBSET (DOMAIN content)
    OBVIOUS
  <1>3. ASSUME NEW i \in open
        PROVE  Suitable(found(i), command, content)
    <2>1. /\ content[i] \notin {Start, End} /\ Bullet[content[i]] # Absent /\ ~managed(i)
          /\ i \in DOMAIN content
      BY <1>3
    <2> HIDE DEF open, managed
    <2>2. content[i] \in Lines
      <3>1. content[i] \in Lines \cup Markers
        BY <2>1, Elements DEF Contents
      <3> QED BY <2>1, <3>1 DEF Markers
    <2>3. Bullet[content[i]] \in Memories
      BY <2>1, <2>2, TextAssumption DEF TextAssumption
    <2>4. Proper(found(i)) /\ found(i).quote = content[i]
      <3>1. options.scope \in Scopes
        OBVIOUS
      <3> DEFINE c == Candidate(Bullet[content[i]], content[i], MemoryFile, options)
      <3>2. Proper(c) /\ c.quote = content[i]
        BY <2>3, <3>1 DEF Candidate, Proper
      <3>3. found(i) = c
        BY DEF found
      <3> HIDE DEF c
      <3> QED BY <3>2, <3>3
    <2>5. WellFormed(content) => i \notin BlockAt(content)
      BY <2>1, ManagedInBlock DEF managed
    <2> QED BY <2>1, <2>4, <2>5 DEF Suitable
  <1> HIDE DEF open
  <1>4. \A x \in S : Suitable(x, command, content)
    BY <1>3 DEF S
  <1>5. order \in Seq(open)
    <2>1. content \in Seq(Lines \cup Markers)
      BY DEF Contents
    <2> QED BY <1>2, <2>1, SomeOfSequence DEF order
  <1>6. \A k \in DOMAIN order : order[k] \in open
    BY <1>5, Elements
  <1>7. DOMAIN s = DOMAIN order /\ s = [k \in DOMAIN s |-> s[k]]
        /\ \A k \in DOMAIN order : s[k] \in S
    BY <1>6 DEF s, S
  <1>8. s \in Seq(S)
    BY <1>5, <1>7, SequenceOver
  <1> QED BY <1>1, <1>4, <1>8

Cued(source, options) ==
    {Candidate(e[1], e[2], source, options) : e \in Memories \X Lines}

LEMMA CuesProper ==
  ASSUME NEW line \in Lines, NEW source, NEW options
  PROVE  LineCandidates(line, source, options) \in Seq(Cued(source, options))
  <1> DEFINE S == Cued(source, options)
             cues == Cues[line]
             s == [k \in DOMAIN cues |-> Candidate(cues[k], line, source, options)]
  <1>1. cues \in Seq(Memories)
    BY TextAssumption DEF TextAssumption
  <1>2. LineCandidates(line, source, options) = s
    BY DEF LineCandidates
  <1> HIDE DEF cues
  <1>3. \A k \in DOMAIN cues : cues[k] \in Memories
    BY <1>1, Elements
  <1>4. ASSUME NEW k \in DOMAIN cues
        PROVE  s[k] \in S
    <2>1. <<cues[k], line>> \in Memories \X Lines
      BY <1>3
    <2> QED BY <2>1 DEF Cued
  <1>5. DOMAIN s = DOMAIN cues /\ s = [k \in DOMAIN s |-> s[k]]
    OBVIOUS
  <1> HIDE DEF s, S
  <1>6. s \in Seq(S)
    BY <1>1, <1>4, <1>5, SequenceOver
  <1> QED BY <1>2, <1>6 DEF S

LEMMA LinesSuit ==
  ASSUME NEW source, NEW command, command.from # "memory file",
         command.options.scope \in Scopes, NEW held
  PROVE  \A x \in Cued(source, command.options) : Suitable(x, command, held)
  <1> SUFFICES ASSUME NEW x \in Cued(source, command.options)
               PROVE  Suitable(x, command, held)
    OBVIOUS
  <1>1. PICK e \in Memories \X Lines : x = Candidate(e[1], e[2], source, command.options)
    BY DEF Cued
  <1>2. Proper(x)
    BY <1>1, CandidateProper
  <1> QED BY <1>2 DEF Suitable

LEMMA TranscriptProper ==
  ASSUME NEW content \in Seq(Lines), NEW options
  PROVE  TranscriptCandidates(content, options)
            \in Seq(Cued(Chat, options))
  <1> DEFINE S == Cued(Chat, options)
             seqs == [i \in DOMAIN content |-> LineCandidates(content[i], Chat, options)]
  <1>1. TranscriptCandidates(content, options) = FlattenSeq(seqs)
    BY DEF TranscriptCandidates
  <1>2. DOMAIN content = 1 .. Len(content) /\ Len(content) \in Nat
        /\ \A i \in DOMAIN content : content[i] \in Lines
    OBVIOUS
  <1>3. \A i \in DOMAIN content : LineCandidates(content[i], Chat, options) \in Seq(S)
    BY <1>2, CuesProper
  <1> HIDE DEF S
  <1>4. seqs \in [1 .. Len(content) -> Seq(S)]
    BY <1>2, <1>3
  <1> HIDE DEF seqs
  <1>5. seqs \in Seq(Seq(S))
    BY <1>2, <1>4
  <1>6. Len(seqs) \in Nat /\ (\A i \in 1 .. Len(seqs) : seqs[i] \in Seq(S))
        /\ (Len(seqs) = 0 => seqs = <<>>)
    BY <1>5
  <1>7. FlattenSeq(seqs) \in Seq(S)
    BY <1>6, FlattenedIsSequence
  <1> QED BY <1>1, <1>7 DEF S

LEMMA GitSuits ==
  ASSUME NEW changed, NEW command, command.from # "memory file",
         command.options.scope \in Scopes, NEW held
  PROVE  \E S : /\ GitCandidates(changed, command.options) \in Seq(S)
                /\ \A x \in S : Suitable(x, command, held)
  <1> DEFINE options == command.options
             known == {i \in DOMAIN GitFiles : GitFiles[i][1] \in changed}
             order == Ordered(known, Earlier)
             found(i) == Candidate(GitFiles[i][2], Absent, GitFiles[i][1], options)
             S == {found(i) : i \in known}
             s == [k \in DOMAIN order |-> found(order[k])]
  <1>1. GitCandidates(changed, options) = s
    BY DEF GitCandidates
  <1> HIDE DEF order, s, S, found
  <1>2. known \in SUBSET (DOMAIN GitFiles)
    OBVIOUS
  <1> HIDE DEF known
  <1>3. GitFiles \in Seq(ToSet(GitFiles)) /\ \A entry \in ToSet(GitFiles) : entry[2] \in Memories
    BY TextAssumption DEF TextAssumption
  <1>4. \A i \in known : GitFiles[i][2] \in Memories
    <2>1. \A i \in known : GitFiles[i] \in ToSet(GitFiles)
      BY <1>2, <1>3, Elements
    <2> QED BY <1>3, <2>1
  <1>5. \A i \in known : Suitable(found(i), command, held)
    BY <1>4, CandidateProper DEF found, Suitable
  <1>6. \A x \in S : Suitable(x, command, held)
    BY <1>5 DEF S
  <1>7. order \in Seq(known)
    BY <1>2, <1>3, SomeOfSequence DEF order
  <1>8. \A k \in DOMAIN order : order[k] \in known
    BY <1>7, Elements
  <1>9. DOMAIN s = DOMAIN order /\ s = [k \in DOMAIN s |-> s[k]]
        /\ \A k \in DOMAIN order : s[k] \in S
    BY <1>8 DEF s, S
  <1>10. s \in Seq(S)
    BY <1>7, <1>9, SequenceOver
  <1> QED BY <1>1, <1>6, <1>10

\* Whatever is suggested may be proposed, and a batch from the memory file shows nothing
\* of the managed block.
LEMMA SuggestedSuits ==
  ASSUME FilesHold, NEW p \in Procs, NEW command \in Commands[p], command.kind = "suggest",
         ~SuggestFails(command), NEW found \in Suggestions(command)
  PROVE  \E S : /\ Limited(Deduplicated(found), command.options.limit) \in Seq(S)
                /\ \A x \in S : Suitable(x, command, Read(MemoryFile))
  <1>1. /\ command.options.scope \in Scopes /\ command.options.limit \in Nat
        /\ command.from \in {"memory file", "transcript", "observation", "git diff"}
        /\ command.from = "observation" => command.line \in Lines
    BY ProposalsAssumption DEF ProposalsAssumption
  <1>2. \E S : found \in Seq(S) /\ \A x \in S : Suitable(x, command, Read(MemoryFile))
    <2>1. CASE command.from = "memory file"
      <3>1. files[MemoryFile] \in Contents /\ Read(MemoryFile) = files[MemoryFile]
        BY <2>1 DEF SuggestFails, FilesHold, Read
      <3>2. found = ImportCandidates(files[MemoryFile], command.options)
        BY <2>1 DEF Suggestions
      <3> QED BY <1>1, <2>1, <3>1, <3>2, ImportSuits
    <2>2. CASE command.from = "transcript"
      <3>1. files[Chat] \in Seq(Lines)
        BY <2>2 DEF SuggestFails, FilesHold
      <3>2. found = TranscriptCandidates(files[Chat], command.options)
        BY <2>2 DEF Suggestions
      <3>3. command.from # "memory file"
        BY <2>2
      <3> DEFINE S == Cued(Chat, command.options)
      <3>4. found \in Seq(S)
        BY <1>1, <3>1, <3>2, TranscriptProper
      <3>5. \A x \in S : Suitable(x, command, Read(MemoryFile))
        BY <1>1, <3>3, LinesSuit
      <3> HIDE DEF S
      <3> QED BY <3>4, <3>5
    <2>3. CASE command.from = "observation"
      <3>1. found = LineCandidates(command.line, "conversation", command.options)
        BY <2>3 DEF Suggestions
      <3>2. command.from # "memory file"
        BY <2>3
      <3> DEFINE S == Cued("conversation", command.options)
      <3>3. found \in Seq(S)
        BY <1>1, <2>3, <3>1, CuesProper
      <3>4. \A x \in S : Suitable(x, command, Read(MemoryFile))
        BY <1>1, <3>2, LinesSuit
      <3> HIDE DEF S
      <3> QED BY <3>3, <3>4
    <2>4. CASE command.from = "git diff"
      <3>1. \E changed : found = GitCandidates(changed, command.options)
        BY <2>4 DEF Suggestions
      <3>2. command.from # "memory file"
        BY <2>4
      <3> QED BY <1>1, <3>1, <3>2, GitSuits
    <2> QED BY <1>1, <2>1, <2>2, <2>3, <2>4
  <1>3. PICK S : found \in Seq(S) /\ \A x \in S : Suitable(x, command, Read(MemoryFile))
    BY <1>2
  <1> QED BY <1>1, <1>3, DeduplicatedAmong, LimitedAmong

-----------------------------------------------------------------------------
(* Decisions *)

LEMMA Verdict ==
  ASSUME NEW input, NEW content
  PROVE  Verification(input, content) \in Verdicts
  <1>1. VerifyFile(input, content) \in Verdicts
    BY DEF VerifyFile, Verdicts
  <1>2. CASE input.source = "manual"
    BY <1>2 DEF Verification, Verdicts
  <1>3. CASE input.source \in SourceTypes \ {"manual"}
    BY <1>3 DEF Verification, Verdicts
  <1>4. CASE input.source \notin SourceTypes
    <2>1. "manual" \in SourceTypes
      BY DEF SourceTypes
    <2> QED BY <1>1, <1>4, <2>1 DEF Verification
  <1> QED BY <1>2, <1>3, <1>4

\* Only the source types have other verdicts than those of a file.
LEMMA VerifiedIsFile ==
  ASSUME NEW input, NEW content, Verification(input, content) = "verified"
  PROVE  IsFile(input) /\ VerifyFile(input, content) = "verified"
  <1>1. CASE input.source = "manual"
    BY <1>1 DEF Verification
  <1>2. CASE input.source \in SourceTypes \ {"manual"}
    BY <1>2 DEF Verification
  <1>3. CASE input.source \notin SourceTypes
    <2>1. "manual" \in SourceTypes
      BY DEF SourceTypes
    <2> QED BY <1>3, <2>1 DEF Verification, IsFile
  <1> QED BY <1>1, <1>2, <1>3

\* A file is verified by evidence that is in it.
LEMMA VerifiedIsAttested ==
  ASSUME NEW input, NEW content, VerifyFile(input, content) = "verified"
  PROVE  Attested(input, content)
  <1>1. /\ content # Absent /\ ~(input.quote = Absent /\ input.hash = Absent)
        /\ input.hash \in {Absent, content}
        /\ input.quote # Absent => Holds(Excerpt(content, input.lines), input.quote)
    BY DEF VerifyFile
  <1>2. ASSUME Holds(Excerpt(content, input.lines), input.quote)
        PROVE  \E k \in DOMAIN content :
                  /\ content[k] = input.quote
                  /\ input.lines = Absent \/ k \in input.lines[1] .. input.lines[2]
    <2>1. CASE input.lines = Absent
      BY <1>2, <2>1 DEF Holds, Excerpt
    <2>2. CASE input.lines # Absent
      <3> DEFINE places == DOMAIN content \cap (input.lines[1] .. input.lines[2])
      <3>1. Excerpt(content, input.lines) = [i \in places |-> content[i]]
        BY <2>2 DEF Excerpt
      <3>2. \A i \in places : i \in DOMAIN content /\ i \in input.lines[1] .. input.lines[2]
        OBVIOUS
      <3> HIDE DEF places
      <3> QED BY <1>2, <3>1, <3>2 DEF Holds
    <2> QED BY <2>1, <2>2
  <1> QED BY <1>1, <1>2 DEF Attested

\* What is known of the source does not unblock a proposal, nor block it.
LEMMA BlockedIsUnsafe ==
  ASSUME NEW input, NEW verification, NEW config
  PROVE  /\ Classify(input, verification, config) = "block_no_persist"
            <=> Unsafe(input)
         /\ Decide(input, verification, config) = "block_no_persist"
            <=> Unsafe(input)
  <1>1. Classify(input, verification, config) = "block_no_persist" <=> Unsafe(input)
    BY DEF Classify
  <1> QED BY <1>1 DEF Decide, ReviewedIfLinked

\* What an acceptance with no review rests on.
LEMMA AcceptedCases ==
  ASSUME NEW input, NEW verification, NEW config,
         Decide(input, verification, config) = "auto_accept"
  PROVE  /\ Links(input) = {}
         /\ ~Unsafe(input) /\ ~Finds(input, "instruction")
         /\ ~Finds(input, "sensitive")
         /\ ~HoldsTerm(input, config.deny) /\ ~HoldsTerm(input, config.sensitive)
         /\ ~SourceNeedsReview(input, verification)
         /\ AssessedRisk(input, verification, config) = "low"
         /\ ~TrustNeedsReview(input, config)
         /\ config.needsVerified => verification = "verified"
  <1>1. Classify(input, verification, config) = "auto_accept" /\ Links(input) = {}
    BY DEF Decide, ReviewedIfLinked
  <1>2. ~Unsafe(input)
    BY <1>1 DEF Classify
  <1>3. ~(Finds(input, "instruction") \/ HoldsTerm(input, config.deny))
    BY <1>1, <1>2 DEF Classify
  <1>4. ~(\/ Finds(input, "sensitive") \/ HoldsTerm(input, config.sensitive)
          \/ SourceNeedsReview(input, verification) \/ KindNeedsReview(input)
          \/ AssessedRisk(input, verification, config) # "low"
          \/ TrustNeedsReview(input, config)
          \/ config.needsVerified /\ verification # "verified")
    BY <1>1, <1>2, <1>3 DEF Classify
  <1> QED BY <1>1, <1>2, <1>3, <1>4

LEMMA LowRisk ==
  ASSUME NEW input, NEW verification, NEW config,
         AssessedRisk(input, verification, config) = "low"
  PROVE  input.risk \in {Absent, "low"}
  BY DEF AssessedRisk, AtLeastMedium

\* A decision to accept, taken with a policy and a content of record, is justified.
LEMMA AcceptedIsJustified ==
  ASSUME NEW record, NEW config, NEW content, NEW file,
         Decide(record.input, Verification(record.input, content), config) = "auto_accept",
         content \in record.contents, file \in record.policies,
         config = LoadedPolicy(file), config # Malformed
  PROVE  Justified(record)
  <1> DEFINE input == record.input
             verification == Verification(input, content)
  <1>1. /\ Links(input) = {}
        /\ ~Unsafe(input) /\ ~Finds(input, "instruction")
        /\ ~Finds(input, "sensitive")
        /\ ~HoldsTerm(input, config.deny) /\ ~HoldsTerm(input, config.sensitive)
        /\ ~SourceNeedsReview(input, verification)
        /\ AssessedRisk(input, verification, config) = "low"
        /\ ~TrustNeedsReview(input, config)
        /\ config.needsVerified => verification = "verified"
    BY AcceptedCases
  <1>2. verification \in Verdicts /\ verification # Absent
    BY Verdict, PolicyAssumption DEF PolicyAssumption
  <1>3. verification = "verified" => IsFile(input) /\ Attested(input, content)
    BY VerifiedIsFile, VerifiedIsAttested
  <1> HIDE DEF verification, input
  <1>4. IsFile(input) \/ input.verify => verification = "verified"
    BY <1>1, <1>2 DEF SourceNeedsReview
  <1>5. input.risk \in {Absent, "low"}
    BY <1>1, LowRisk
  <1>6. /\ input.trust # "untrusted"
        /\ config.needsTrust => input.trust = "trusted"
    BY <1>1 DEF TrustNeedsReview
  <1>7. \A text \in Texts(input) : Terms[text] \cap (config.deny \cup config.sensitive) = {}
    BY <1>1 DEF HoldsTerm
  <1>8. ~Unsafe(input) /\ ~Finds(input, "instruction") /\ ~Finds(input, "sensitive")
    BY <1>1
  <1>9. /\ IsFile(input) => \E c \in record.contents : Attested(input, c)
        /\ input.verify => IsFile(input)
        /\ config.needsVerified => IsFile(input)
    BY <1>1, <1>3, <1>4
  <1>10. \E f \in record.policies :
            /\ LoadedPolicy(f) = config /\ LoadedPolicy(f) # Malformed
    OBVIOUS
  <1> QED BY <1>1, <1>5, <1>6, <1>7, <1>8, <1>9, <1>10 DEF Justified, input

-----------------------------------------------------------------------------
(* Commands under way *)

Fields == DOMAIN NoWork

LEMMA FieldsAre ==
  Fields = {"pc", "command", "queue", "at", "config", "verification", "records", "blocked",
            "plan", "exported", "source", "steady", "policies", "contents"}
  BY DEF Fields, NoWork

JobInput(job) == job.queue[job.at]

ContentIn(input, fs) == IF input.source \in DOMAIN fs THEN fs[input.source] ELSE Absent

Queued(job) == job.pc = "waiting" /\ job.command.kind # "export"

(* the policy was loaded for the proposal that it is at *)
Loaded(job) == job.pc \in {"verifying", "deciding", "foreseeing"} \/ Queued(job)

(* A proposal goes by a policy from while it was proposed, and by a content from then;
   and, while neither changes, by those that are in force. *)
JobHolds(job, pol, fs) ==
    /\ job.pc = "proposing" => pol \in job.policies
    /\ job.pc \in {"proposing", "verifying"} \/ Queued(job)
       => ContentIn(JobInput(job), fs) \in job.contents
    /\ Loaded(job) /\ job.pc # "foreseeing" =>
          job.config # Malformed /\ \E file \in job.policies : job.config = LoadedPolicy(file)
    /\ job.pc = "deciding" => \E content \in job.contents :
                                 job.verification = Verification(JobInput(job), content)
    /\ job.steady /\ Loaded(job) => job.config = LoadedPolicy(pol)
    /\ job.steady /\ job.pc = "deciding" =>
          job.verification = Verification(JobInput(job), ContentIn(JobInput(job), fs))

Jobs ==
    /\ DOMAIN work = Procs
    /\ \A p \in Procs : DOMAIN work[p] = Fields /\ JobHolds(work[p], policy, files)

(* what every decision was that was taken since the policy or a file last changed *)
Truth(input, pol, fs) ==
    Decide(input, Verification(input, ContentIn(input, fs)), LoadedPolicy(pol))

Judgements == \A j \in judged : j.decision = Truth(j.input, policy, files)

Records ==
    /\ \E S : ledger \in Seq(S)
    /\ \A i \in DOMAIN ledger : ledger[i].decision = "auto_accept" => Justified(ledger[i])

Unconcerned == {"idle", "suggesting", "previewing", "planning", "writing", "guarding",
                "viewing", "comparing"}

LEMMA UnconcernedHolds ==
  ASSUME NEW job, NEW pol, NEW fs,
         job.pc \in Unconcerned \/ (job.pc = "waiting" /\ job.command.kind = "export")
  PROVE  JobHolds(job, pol, fs)
  BY DEF JobHolds, Loaded, Queued, Unconcerned

LEMMA NoWorkHolds ==
  /\ DOMAIN NoWork = Fields /\ NoWork.pc = "idle"
  /\ \A pol, fs : JobHolds(NoWork, pol, fs)
  <1>1. NoWork.pc = "idle" /\ DOMAIN NoWork = Fields
    BY DEF NoWork, Fields
  <1> QED BY <1>1, UnconcernedHolds DEF Unconcerned

LEMMA TakenHolds ==
  ASSUME NEW job, DOMAIN job = Fields, job.pc \in {"proposing", "previewing"}
  PROVE  DOMAIN Taken(job) = Fields /\ JobHolds(Taken(job), policy, files)
  <1> DEFINE taken == Taken(job)
  <1>1. /\ DOMAIN taken = Fields /\ taken.pc = job.pc /\ taken.queue = job.queue
        /\ taken.at = job.at /\ taken.policies = {policy}
        /\ taken.contents = {SourceContent(JobInput(job))}
    BY FieldsAre DEF Taken, JobInput
  <1>2. SourceContent(JobInput(job)) = ContentIn(JobInput(job), files)
    BY DEF SourceContent, ContentIn
  <1>3. JobInput(taken) = JobInput(job)
    BY <1>1 DEF JobInput
  <1> HIDE DEF taken
  <1>4. JobHolds(taken, policy, files)
    BY <1>1, <1>2, <1>3 DEF JobHolds, Loaded, Queued
  <1> QED BY <1>1, <1>4 DEF taken

\* A step of one command, while the policy and the files stay.
LEMMA OneJob ==
  ASSUME Jobs, NEW p \in Procs, NEW job, work' = [work EXCEPT ![p] = job],
         DOMAIN job = Fields, JobHolds(job, policy, files), UNCHANGED <<policy, files>>
  PROVE  Jobs'
  <1>1. DOMAIN work' = Procs /\ work'[p] = job
        /\ \A other \in Procs : other # p => work'[other] = work[other]
    BY DEF Jobs
  <1>2. ASSUME NEW other \in Procs
        PROVE  DOMAIN work'[other] = Fields /\ JobHolds(work'[other], policy, files)
    <2>1. CASE other = p
      BY <1>1, <2>1
    <2>2. CASE other # p
      BY <1>1, <2>2 DEF Jobs
    <2> QED BY <2>1, <2>2
  <1> QED BY <1>1, <1>2 DEF Jobs

LEMMA OverJobs ==
  ASSUME Jobs, NEW p \in Procs, NEW job, NEW end, Over(p, job, end),
         UNCHANGED <<policy, files>>
  PROVE  Jobs'
  BY NoWorkHolds, OneJob DEF Over

LEMMA GoesJobs ==
  ASSUME Jobs, NEW p \in Procs, NEW job, Goes(p, job), DOMAIN job = Fields,
         JobHolds(job, policy, files), UNCHANGED <<policy, files>>
  PROVE  Jobs'
  BY OneJob DEF Goes

LEMMA NextJobs ==
  ASSUME Jobs, NEW p \in Procs, NEW job, NextProposal(p, job), DOMAIN job = Fields,
         UNCHANGED <<policy, files>>
  PROVE  Jobs'
  <1> DEFINE next == [job EXCEPT !.at = @ + 1]
             going == [next EXCEPT !.pc = "proposing"]
  <1>1. Over(p, next, "done") \/ Goes(p, Taken(going))
    BY DEF NextProposal
  <1>2. DOMAIN going = Fields /\ going.pc = "proposing"
    BY FieldsAre
  <1> HIDE DEF next, going
  <1>3. DOMAIN Taken(going) = Fields /\ JobHolds(Taken(going), policy, files)
    BY <1>2, TakenHolds
  <1> QED BY <1>1, <1>3, OverJobs, GoesJobs

\* A step that only moves a command on.
Moved(p) == Jobs' /\ UNCHANGED <<policy, files, ledger, judged>>

LEMMA BeginMoves ==
  ASSUME Jobs, NEW p \in Procs, NEW command \in Commands[p], Begin(p, command)
  PROVE  Moved(p)
  <1> DEFINE job == [NoWork EXCEPT !.command = command]
             proposing == [job EXCEPT !.queue = <<command.input>>,
                                      !.pc = IF command.kind = "propose" THEN "proposing"
                                             ELSE "previewing"]
             going(pc) == [job EXCEPT !.pc = pc]
  <1>1. UNCHANGED <<policy, files, ledger, judged>>
    BY DEF Begin, World
  <1>2. DOMAIN proposing = Fields /\ proposing.pc \in {"proposing", "previewing"}
    BY FieldsAre DEF NoWork, Fields
  <1>3. \A pc : /\ DOMAIN going(pc) = Fields /\ going(pc).pc = pc
                /\ going(pc).command = command
    BY FieldsAre DEF NoWork, Fields
  <1>4. CASE command.kind \in {"propose", "preview"}
    <2>1. Goes(p, Taken(proposing))
      BY <1>4 DEF Begin
    <2> HIDE DEF proposing
    <2>2. DOMAIN Taken(proposing) = Fields /\ JobHolds(Taken(proposing), policy, files)
      BY <1>2, TakenHolds
    <2> QED BY <1>1, <2>1, <2>2, GoesJobs DEF Moved
  <1>5. CASE command.kind = "suggest"
    <2>1. Goes(p, going("suggesting"))
      BY <1>5 DEF Begin
    <2> HIDE DEF going
    <2>2. JobHolds(going("suggesting"), policy, files)
      BY <1>3, UnconcernedHolds DEF Unconcerned
    <2> QED BY <1>1, <1>3, <2>1, <2>2, GoesJobs DEF Moved
  <1>6. CASE command.kind = "export"
    <2>1. Goes(p, going("waiting"))
      BY <1>6 DEF Begin
    <2> HIDE DEF going
    <2>2. JobHolds(going("waiting"), policy, files)
      BY <1>3, <1>6, UnconcernedHolds
    <2> QED BY <1>1, <1>3, <2>1, <2>2, GoesJobs DEF Moved
  <1>7. CASE command.kind = "guard"
    <2>1. Goes(p, going("guarding"))
      BY <1>7 DEF Begin
    <2> HIDE DEF going
    <2>2. JobHolds(going("guarding"), policy, files)
      BY <1>3, UnconcernedHolds DEF Unconcerned
    <2> QED BY <1>1, <1>3, <2>1, <2>2, GoesJobs DEF Moved
  <1>8. command.kind \in {"propose", "preview", "suggest", "export", "guard"}
    BY ProposalsAssumption DEF ProposalsAssumption
  <1> QED BY <1>4, <1>5, <1>6, <1>7, <1>8

\* What the step of a command that was loaded keeps of it.
LEMMA SuggestMoves ==
  ASSUME Jobs, NEW p \in Procs, Suggest(p)
  PROVE  Moved(p)
  <1>1. UNCHANGED <<policy, files, ledger, judged>>
    BY DEF Suggest, World
  <1>2. DOMAIN work[p] = Fields
    BY DEF Jobs
  <1>3. CASE SuggestFails(work[p].command)
    <2>1. Over(p, work[p], "failed")
      BY <1>3 DEF Suggest
    <2> QED BY <1>1, <2>1, OverJobs DEF Moved
  <1>4. CASE ~SuggestFails(work[p].command)
    <2> DEFINE job(found) ==
                  [work[p] EXCEPT !.queue = Limited(Deduplicated(found),
                                                    work[p].command.options.limit),
                                  !.source = Read(MemoryFile)]
               going(found) == [job(found) EXCEPT !.pc = "proposing"]
    <2>1. PICK found : Over(p, job(found), "done") \/ Goes(p, Taken(going(found)))
      BY <1>4 DEF Suggest
    <2>2. DOMAIN going(found) = Fields /\ going(found).pc = "proposing"
      BY <1>2, FieldsAre
    <2> HIDE DEF job, going
    <2>3. DOMAIN Taken(going(found)) = Fields /\ JobHolds(Taken(going(found)), policy, files)
      BY <2>2, TakenHolds
    <2> QED BY <1>1, <2>1, <2>3, OverJobs, GoesJobs DEF Moved
  <1> QED BY <1>3, <1>4

LEMMA EnterMoves ==
  ASSUME Jobs, NEW p \in Procs, EnterStore(p)
  PROVE  Moved(p)
  <1> DEFINE before == work[p]
             job == [before EXCEPT !.pc = IF before.command.kind = "export" THEN "planning"
                                          ELSE "verifying"]
  <1>1. UNCHANGED <<policy, files, ledger, judged>>
    BY DEF EnterStore, World
  <1>2. Goes(p, job) /\ before.pc = "waiting"
    BY DEF EnterStore
  <1>3. DOMAIN before = Fields /\ JobHolds(before, policy, files)
    BY DEF Jobs
  <1> HIDE DEF before
  <1>4. /\ DOMAIN job = Fields /\ job.command = before.command /\ job.queue = before.queue
        /\ job.at = before.at /\ job.config = before.config /\ job.steady = before.steady
        /\ job.policies = before.policies /\ job.contents = before.contents
        /\ job.pc = IF before.command.kind = "export" THEN "planning" ELSE "verifying"
    BY <1>3, FieldsAre
  <1> HIDE DEF job
  <1>5. CASE before.command.kind = "export"
    <2>1. JobHolds(job, policy, files)
      BY <1>4, <1>5, UnconcernedHolds DEF Unconcerned
    <2> QED BY <1>1, <1>2, <1>4, <2>1, GoesJobs DEF Moved
  <1>6. CASE before.command.kind # "export"
    <2>1. JobInput(job) = JobInput(before)
      BY <1>4 DEF JobInput
    <2>2. JobHolds(job, policy, files)
      BY <1>2, <1>3, <1>4, <1>6, <2>1 DEF JobHolds, Loaded, Queued
    <2> QED BY <1>1, <1>2, <1>4, <2>2, GoesJobs DEF Moved
  <1> QED BY <1>5, <1>6

LEMMA VerifyMoves ==
  ASSUME Jobs, NEW p \in Procs, VerifySource(p)
  PROVE  Moved(p)
  <1> DEFINE before == work[p]
             verification == Verification(JobInput(before), ContentIn(JobInput(before), files))
             job == [before EXCEPT !.pc = "deciding", !.verification = verification]
  <1>1. UNCHANGED <<policy, files, ledger, judged>>
    BY DEF VerifySource, World
  <1>2. before.pc = "verifying"
    BY DEF VerifySource
  <1>3. Over(p, before, "failed") \/ Goes(p, job)
    BY DEF VerifySource, Input, JobInput, SourceContent, ContentIn
  <1>4. DOMAIN before = Fields /\ JobHolds(before, policy, files)
    BY DEF Jobs
  <1> HIDE DEF before
  <1>5. /\ DOMAIN job = Fields /\ job.pc = "deciding" /\ job.queue = before.queue
        /\ job.at = before.at /\ job.config = before.config /\ job.steady = before.steady
        /\ job.policies = before.policies /\ job.contents = before.contents
        /\ job.verification = verification
    BY <1>4, FieldsAre
  <1>6. JobInput(job) = JobInput(before)
    BY <1>5 DEF JobInput
  <1>7. ContentIn(JobInput(before), files) \in before.contents
    BY <1>2, <1>4 DEF JobHolds
  <1> HIDE DEF job
  <1>8. JobHolds(job, policy, files)
    BY <1>2, <1>4, <1>5, <1>6, <1>7 DEF JobHolds, Loaded, Queued
  <1> QED BY <1>1, <1>3, <1>5, <1>8, OverJobs, GoesJobs DEF Moved

LEMMA PreviewLoads ==
  ASSUME Jobs, NEW p \in Procs, LoadPreviewPolicy(p)
  PROVE  Moved(p)
  <1> DEFINE before == work[p]
             job == [before EXCEPT !.pc = "foreseeing", !.config = LoadedPolicy(policy)]
  <1>1. UNCHANGED <<policy, files, ledger, judged>>
    BY DEF LoadPreviewPolicy, World
  <1>2. Over(p, before, "failed") \/ Goes(p, job)
    BY DEF LoadPreviewPolicy
  <1>3. DOMAIN before = Fields
    BY DEF Jobs
  <1> HIDE DEF before
  <1>4. DOMAIN job = Fields /\ job.pc = "foreseeing" /\ job.config = LoadedPolicy(policy)
    BY <1>3, FieldsAre
  <1> HIDE DEF job
  <1>5. JobHolds(job, policy, files)
    BY <1>4 DEF JobHolds, Loaded, Queued
  <1> QED BY <1>1, <1>2, <1>4, <1>5, OverJobs, GoesJobs DEF Moved

\* Exports and guards, and whatever ends a command.
LEMMA OthersMove ==
  ASSUME Jobs, NEW p \in Procs,
         \/ LockTimesOut(p) \/ PlanExport(p) \/ ReadForGuard(p) \/ PlanGuard(p)
         \/ CompareGuard(p) \/ StepFails(p)
  PROVE  Moved(p)
  <1>1. UNCHANGED <<policy, files, ledger, judged>>
    BY DEF LockTimesOut, PlanExport, ReadForGuard, PlanGuard, CompareGuard, StepFails, World
  <1>2. DOMAIN work[p] = Fields
    BY DEF Jobs
  <1> DEFINE planning == [work[p] EXCEPT !.pc = "writing", !.plan = Planned]
             viewing == [work[p] EXCEPT !.pc = "viewing", !.exported = AcceptedIds]
             comparing == [work[p] EXCEPT !.pc = "comparing",
                                          !.plan = ReplaceManagedBlock(Read(MemoryFile),
                                                       Block(work[p].exported))]
  <1>3. \/ \E job, end : Over(p, job, end)
        \/ Goes(p, planning) \/ Goes(p, viewing) \/ Goes(p, comparing)
    <2>1. CASE LockTimesOut(p)
      BY <2>1 DEF LockTimesOut
    <2>2. CASE PlanExport(p)
      BY <2>2 DEF PlanExport
    <2>3. CASE ReadForGuard(p)
      BY <2>3 DEF ReadForGuard
    <2>4. CASE PlanGuard(p)
      BY <2>4 DEF PlanGuard
    <2>5. CASE CompareGuard(p)
      BY <2>5 DEF CompareGuard
    <2>6. CASE StepFails(p)
      BY <2>6 DEF StepFails
    <2> QED BY <2>1, <2>2, <2>3, <2>4, <2>5, <2>6
  <1>4. /\ DOMAIN planning = Fields /\ planning.pc = "writing"
        /\ DOMAIN viewing = Fields /\ viewing.pc = "viewing"
        /\ DOMAIN comparing = Fields /\ comparing.pc = "comparing"
    BY <1>2, FieldsAre
  <1> HIDE DEF planning, viewing, comparing
  <1>5. /\ JobHolds(planning, policy, files) /\ JobHolds(viewing, policy, files)
        /\ JobHolds(comparing, policy, files)
    BY <1>4, UnconcernedHolds DEF Unconcerned
  <1> QED BY <1>1, <1>3, <1>4, <1>5, OverJobs, GoesJobs DEF Moved

-----------------------------------------------------------------------------
(* Steps that decide *)

LEMMA JudgedTruly ==
  ASSUME Judgements, NEW p \in Procs, NEW decision, Judge(p, decision),
         work[p].steady => decision = Truth(Input(p), policy, files),
         UNCHANGED <<policy, files>>
  PROVE  Judgements'
  <1> DEFINE new == [input |-> Input(p), decision |-> decision]
  <1>1. judged' = IF work[p].steady THEN judged \cup {new} ELSE judged
    BY DEF Judge
  <1>2. new.input = Input(p) /\ new.decision = decision
    OBVIOUS
  <1> HIDE DEF new
  <1>3. \A j \in judged' : j.decision = Truth(j.input, policy, files)
    BY <1>1, <1>2 DEF Judgements
  <1> QED BY <1>3 DEF Judgements

LEMMA Secret ==
  ASSUME NEW input, Unsafe(input), NEW pol, NEW fs
  PROVE  Truth(input, pol, fs) = "block_no_persist"
  BY BlockedIsUnsafe DEF Truth

LEMMA LoadSteps ==
  ASSUME Jobs, Judgements, NEW p \in Procs, LoadPolicy(p)
  PROVE  Jobs' /\ Judgements' /\ UNCHANGED ledger
  <1> DEFINE before == work[p]
             config == LoadedPolicy(policy)
             job == [before EXCEPT !.pc = "waiting", !.config = config]
             blocked == [before EXCEPT !.blocked = @ \cup {before.at}]
  <1>1. UNCHANGED <<policy, files, ledger>> /\ before.pc = "proposing"
    BY DEF LoadPolicy, World
  <1>2. \/ Over(p, before, "failed") /\ UNCHANGED judged
        \/ /\ Unsafe(Input(p)) /\ NextProposal(p, blocked)
           /\ Judge(p, "block_no_persist")
        \/ config # Malformed /\ Goes(p, job) /\ UNCHANGED judged
    <2>1. Classify(Input(p), Absent, config) = "block_no_persist" <=> Unsafe(Input(p))
      BY BlockedIsUnsafe
    <2> QED BY <2>1 DEF LoadPolicy, BlockProposal
  <1>3. DOMAIN before = Fields /\ JobHolds(before, policy, files)
    BY DEF Jobs
  <1> HIDE DEF before
  <1>4. CASE Over(p, before, "failed") /\ UNCHANGED judged
    BY <1>1, <1>4, OverJobs DEF Judgements
  <1>5. CASE /\ Unsafe(Input(p)) /\ NextProposal(p, blocked)
             /\ Judge(p, "block_no_persist")
    <2>1. DOMAIN blocked = Fields
      BY <1>3, FieldsAre
    <2> HIDE DEF blocked
    <2>2. Jobs'
      BY <1>1, <1>5, <2>1, NextJobs
    <2>3. Judgements'
      BY <1>1, <1>5, JudgedTruly, Secret
    <2> QED BY <1>1, <2>2, <2>3
  <1>6. CASE config # Malformed /\ Goes(p, job) /\ UNCHANGED judged
    <2>1. /\ DOMAIN job = Fields /\ job.pc = "waiting" /\ job.config = config
          /\ job.queue = before.queue /\ job.at = before.at
          /\ job.policies = before.policies /\ job.contents = before.contents
      BY <1>3, FieldsAre
    <2>2. JobInput(job) = JobInput(before)
      BY <2>1 DEF JobInput
    <2> HIDE DEF job
    <2>3. JobHolds(job, policy, files)
      BY <1>1, <1>3, <1>6, <2>1, <2>2 DEF JobHolds, Loaded, Queued
    <2> QED BY <1>1, <1>6, <2>1, <2>3, GoesJobs DEF Judgements
  <1> QED BY <1>2, <1>4, <1>5, <1>6

LEMMA PreviewSteps ==
  ASSUME Jobs, Judgements, NEW p \in Procs, Preview(p)
  PROVE  Jobs' /\ Judgements' /\ UNCHANGED ledger
  <1> DEFINE decision == Decide(Input(p), Verification(Input(p), SourceContent(Input(p))),
                                work[p].config)
  <1>1. /\ UNCHANGED <<policy, files, ledger>> /\ work[p].pc = "foreseeing"
        /\ Over(p, work[p], "done") /\ Judge(p, decision)
    BY DEF Preview, World
  <1>2. work[p].steady => work[p].config = LoadedPolicy(policy)
    BY <1>1 DEF Jobs, JobHolds, Loaded
  <1>3. work[p].steady => decision = Truth(Input(p), policy, files)
    BY <1>2 DEF Truth, SourceContent, ContentIn
  <1> HIDE DEF decision
  <1>4. Judgements'
    BY <1>1, <1>3, JudgedTruly
  <1> QED BY <1>1, <1>4, OverJobs

\* One more record, or one that is changed.
RecordFields == {"input", "status", "decision", "policies", "contents"}

Ledgered == Records /\ \A i \in DOMAIN ledger : DOMAIN ledger[i] = RecordFields

LEMMA RecordAdded ==
  ASSUME Ledgered, NEW record, ledger' = Append(ledger, record),
         DOMAIN record = RecordFields, record.decision = "auto_accept" => Justified(record)
  PROVE  Ledgered'
  <1>1. PICK S : ledger \in Seq(S)
    BY DEF Ledgered, Records
  <1>2. ledger \in Seq(S \cup {record}) /\ record \in S \cup {record}
    BY <1>1
  <1>3. /\ ledger' \in Seq(S \cup {record}) /\ Len(ledger') = Len(ledger) + 1
        /\ \A i \in 1 .. Len(ledger) : ledger'[i] = ledger[i]
        /\ ledger'[Len(ledger) + 1] = record
    BY <1>2, AppendProperties
  <1>4. /\ DOMAIN ledger = 1 .. Len(ledger) /\ Len(ledger) \in Nat
        /\ DOMAIN ledger' = 1 .. Len(ledger')
    BY <1>2, <1>3, LenProperties
  <1>5. 1 .. Len(ledger) + 1 = 1 .. Len(ledger) \cup {Len(ledger) + 1}
    BY <1>4
  <1>6. \A i \in DOMAIN ledger' : \/ i \in DOMAIN ledger /\ ledger'[i] = ledger[i]
                                  \/ ledger'[i] = record
    BY <1>3, <1>4, <1>5
  <1>7. \A i \in DOMAIN ledger' : /\ DOMAIN ledger'[i] = RecordFields
                                  /\ ledger'[i].decision = "auto_accept" => Justified(ledger'[i])
    BY <1>6 DEF Ledgered, Records
  <1>8. \E T : ledger' \in Seq(T)
    BY <1>3
  <1> QED BY <1>7, <1>8 DEF Ledgered, Records

LEMMA PersistSteps ==
  ASSUME Jobs, Judgements, Ledgered, NEW p \in Procs, Persist(p)
  PROVE  Jobs' /\ Judgements' /\ Ledgered'
  <1> DEFINE before == work[p]
             decision == Decide(Input(p), before.verification, before.config)
             record == RecordOf(p, decision)
             blocked == [before EXCEPT !.blocked = @ \cup {before.at}]
             listed == [before EXCEPT
                          !.records = Append(@, [at |-> before.at, id |-> Len(ledger) + 1])]
  <1>1. UNCHANGED <<policy, files>> /\ before.pc = "deciding" /\ Judge(p, decision)
    BY DEF Persist, World
  <1>2. \/ NextProposal(p, blocked) /\ UNCHANGED ledger
        \/ NextProposal(p, listed) /\ ledger' = Append(ledger, record)
    BY DEF Persist, BlockProposal
  <1>3. DOMAIN before = Fields /\ JobHolds(before, policy, files)
    BY DEF Jobs
  <1>4. Input(p) = JobInput(before)
    BY DEF Input, JobInput
  <1>5. /\ DOMAIN record = RecordFields /\ record.decision = decision
        /\ record.input = Input(p)
        /\ decision = "auto_accept" => record.policies = before.policies
                                       /\ record.contents = before.contents
    BY DEF RecordOf, RecordFields
  <1> HIDE DEF before, record
  <1>6. Jobs'
    <2>1. DOMAIN blocked = Fields /\ DOMAIN listed = Fields
      BY <1>3, FieldsAre
    <2> HIDE DEF blocked, listed
    <2> QED BY <1>1, <1>2, <2>1, NextJobs
  <1>7. before.steady => decision = Truth(Input(p), policy, files)
    BY <1>1, <1>3, <1>4 DEF JobHolds, Loaded, Truth
  <1>8. Judgements'
    <2> HIDE DEF decision
    <2> QED BY <1>1, <1>7, JudgedTruly DEF before
  <1>9. decision = "auto_accept" => Justified(record)
    <2>1. PICK content \in before.contents :
             before.verification = Verification(JobInput(before), content)
      BY <1>1, <1>3 DEF JobHolds
    <2>2. PICK file \in before.policies : before.config = LoadedPolicy(file)
      BY <1>1, <1>3 DEF JobHolds, Loaded
    <2>3. before.config # Malformed
      BY <1>1, <1>3 DEF JobHolds, Loaded
    <2>4. decision = Decide(record.input, Verification(record.input, content), before.config)
      BY <1>4, <1>5, <2>1
    <2> HIDE DEF decision
    <2> QED BY <1>5, <2>2, <2>3, <2>4, AcceptedIsJustified
  <1>10. Ledgered'
    <2> HIDE DEF decision, blocked, listed
    <2>1. CASE UNCHANGED ledger
      BY <2>1 DEF Ledgered, Records
    <2>2. CASE ledger' = Append(ledger, record)
      BY <1>5, <1>9, <2>2, RecordAdded
    <2> QED BY <1>2, <2>1, <2>2
  <1> QED BY <1>6, <1>8, <1>10

LEMMA ReviewSteps ==
  ASSUME Ledgered, NEW id \in DOMAIN ledger, NEW status, ReviewRecord(id, status)
  PROVE  Ledgered' /\ UNCHANGED <<work, policy, files, judged>>
  <1> DEFINE record == [ledger[id] EXCEPT !.status = status]
  <1>1. /\ ledger' = [ledger EXCEPT ![id] = record]
        /\ UNCHANGED <<work, policy, files, judged>>
    BY DEF ReviewRecord
  <1>2. /\ DOMAIN record = RecordFields /\ record.decision = ledger[id].decision
        /\ record.input = ledger[id].input /\ record.policies = ledger[id].policies
        /\ record.contents = ledger[id].contents
    BY DEF Ledgered, RecordFields
  <1> HIDE DEF record
  <1>3. record.decision = "auto_accept" => Justified(record)
    BY <1>2 DEF Ledgered, Records, Justified
  <1>4. PICK S : ledger \in Seq(S)
    BY DEF Ledgered, Records
  <1>5. ledger' \in Seq(S \cup {record})
    BY <1>1, <1>4
  <1>6. \A i \in DOMAIN ledger' : /\ DOMAIN ledger'[i] = RecordFields
                                  /\ ledger'[i].decision = "auto_accept" => Justified(ledger'[i])
    <2>1. DOMAIN ledger' = DOMAIN ledger
      BY <1>1
    <2>2. \A i \in DOMAIN ledger : ledger'[i] = ledger[i] \/ ledger'[i] = record
      BY <1>1
    <2> QED BY <1>2, <1>3, <2>1, <2>2 DEF Ledgered, Records
  <1>7. \E T : ledger' \in Seq(T)
    BY <1>5
  <1> QED BY <1>1, <1>6, <1>7 DEF Ledgered, Records

-----------------------------------------------------------------------------
(* The policy and the files change *)

LEMMA ContentChanges ==
  ASSUME NEW fs, NEW input, NEW file, NEW content
  PROVE  \/ ContentIn(input, [fs EXCEPT ![file] = content]) = ContentIn(input, fs)
         \/ /\ input.source = file
            /\ ContentIn(input, [fs EXCEPT ![file] = content]) = content
  BY DEF ContentIn

\* What a command holds to when a file gets a new content.
NotedJob(job, file, content) ==
    IF job.contents # {} /\ JobInput(job).source = file
    THEN [job EXCEPT !.contents = @ \cup {content}, !.steady = FALSE]
    ELSE [job EXCEPT !.steady = (job.pc = "idle")]

LEMMA NotedHolds ==
  ASSUME NEW job, DOMAIN job = Fields, NEW pol, NEW fs, NEW file, NEW content,
         JobHolds(job, pol, fs)
  PROVE  /\ DOMAIN NotedJob(job, file, content) = Fields
         /\ JobHolds(NotedJob(job, file, content), pol, [fs EXCEPT ![file] = content])
  <1> DEFINE new == NotedJob(job, file, content)
             fresh == [fs EXCEPT ![file] = content]
  <1>1. /\ DOMAIN new = Fields /\ new.pc = job.pc /\ new.command = job.command
        /\ new.queue = job.queue /\ new.at = job.at /\ new.config = job.config
        /\ new.verification = job.verification /\ new.policies = job.policies
        /\ job.contents \subseteq new.contents
        /\ job.contents # {} /\ JobInput(job).source = file => content \in new.contents
        /\ new.steady => job.pc = "idle"
    <2>1. CASE job.contents # {} /\ JobInput(job).source = file
      BY <2>1, FieldsAre DEF NotedJob
    <2>2. CASE ~(job.contents # {} /\ JobInput(job).source = file)
      BY <2>2, FieldsAre DEF NotedJob
    <2> QED BY <2>1, <2>2
  <1>2. JobInput(new) = JobInput(job)
    BY <1>1 DEF JobInput
  <1>3. \/ ContentIn(JobInput(job), fresh) = ContentIn(JobInput(job), fs)
        \/ /\ JobInput(job).source = file
           /\ ContentIn(JobInput(job), fresh) = content
    BY ContentChanges
  <1> HIDE DEF new, fresh
  <1>4. ContentIn(JobInput(job), fs) \in job.contents
        => ContentIn(JobInput(job), fresh) \in new.contents
    BY <1>1, <1>3
  <1>5. JobHolds(new, pol, fresh)
    BY <1>1, <1>2, <1>4 DEF JobHolds, Loaded, Queued
  <1> QED BY <1>1, <1>5 DEF new, fresh

LEMMA NotedJobs ==
  ASSUME Jobs, NEW file, NEW content
  PROVE  /\ DOMAIN Noted(file, content) = Procs
         /\ \A p \in Procs :
               /\ DOMAIN Noted(file, content)[p] = Fields
               /\ JobHolds(Noted(file, content)[p], policy, [files EXCEPT ![file] = content])
  <1>1. ASSUME NEW p \in Procs
        PROVE  Noted(file, content)[p] = NotedJob(work[p], file, content)
    BY DEF Noted, NotedJob, Input, JobInput, AtRest
  <1>2. DOMAIN Noted(file, content) = Procs
    BY DEF Noted
  <1>3. \A p \in Procs : DOMAIN work[p] = Fields /\ JobHolds(work[p], policy, files)
    BY DEF Jobs
  <1> QED BY <1>1, <1>2, <1>3, NotedHolds

LEMMA SaveSteps ==
  ASSUME Jobs, NEW file, NEW content, Save(file, content)
  PROVE  Jobs' /\ Judgements' /\ UNCHANGED ledger
  <1>1. /\ files' = [files EXCEPT ![file] = content] /\ work' = Noted(file, content)
        /\ judged' = {} /\ UNCHANGED <<policy, ledger>>
    BY DEF Save
  <1> QED BY <1>1, NotedJobs DEF Jobs, Judgements

LEMMA WriteSteps ==
  ASSUME Jobs, NEW p \in Procs, WriteExport(p)
  PROVE  Jobs' /\ Judgements' /\ UNCHANGED ledger
  <1> DEFINE plan == work[p].plan
             noted == Noted(MemoryFile, plan)
  <1>1. /\ files' = [files EXCEPT ![MemoryFile] = plan]
        /\ work' = [noted EXCEPT ![p] = NoWork]
        /\ judged' = {} /\ UNCHANGED <<policy, ledger>>
    BY DEF WriteExport
  <1> HIDE DEF plan
  <1>2. /\ DOMAIN noted = Procs
        /\ \A q \in Procs : DOMAIN noted[q] = Fields /\ JobHolds(noted[q], policy', files')
    BY <1>1, NotedJobs
  <1> HIDE DEF noted
  <1>3. \A q \in Procs : work'[q] = noted[q] \/ work'[q] = NoWork
    BY <1>1, <1>2
  <1>4. DOMAIN work' = Procs
    BY <1>1, <1>2
  <1>5. Jobs'
    BY <1>2, <1>3, <1>4, NoWorkHolds DEF Jobs
  <1> QED BY <1>1, <1>5 DEF Judgements

LEMMA EditSteps ==
  ASSUME Jobs, NEW file, EditPolicy(file)
  PROVE  Jobs' /\ Judgements' /\ UNCHANGED ledger
  <1> DEFINE edited(job) == [job EXCEPT !.steady = (job.pc = "idle"),
                                        !.policies = IF @ = {} THEN {} ELSE @ \cup {file}]
  <1>1. /\ policy' = file /\ judged' = {} /\ UNCHANGED <<files, ledger>>
        /\ work' = [p \in Procs |-> edited(work[p])]
    BY DEF EditPolicy, AtRest
  <1>2. ASSUME NEW job, DOMAIN job = Fields, JobHolds(job, policy, files)
        PROVE  DOMAIN edited(job) = Fields /\ JobHolds(edited(job), file, files)
    <2> DEFINE new == edited(job)
    <2>1. /\ DOMAIN new = Fields /\ new.pc = job.pc /\ new.command = job.command
          /\ new.queue = job.queue /\ new.at = job.at /\ new.config = job.config
          /\ new.verification = job.verification /\ new.contents = job.contents
          /\ job.policies \subseteq new.policies
          /\ job.policies # {} => file \in new.policies
          /\ new.steady => job.pc = "idle"
      BY <1>2, FieldsAre
    <2> HIDE DEF edited
    <2>2. JobInput(new) = JobInput(job)
      BY <2>1 DEF JobInput
    <2> HIDE DEF new
    <2>3. JobHolds(new, file, files)
      BY <1>2, <2>1, <2>2 DEF JobHolds, Loaded, Queued
    <2> QED BY <2>1, <2>3 DEF new
  <1> HIDE DEF edited
  <1>3. \A p \in Procs : DOMAIN work[p] = Fields /\ JobHolds(work[p], policy, files)
    BY DEF Jobs
  <1>4. Jobs'
    BY <1>1, <1>2, <1>3 DEF Jobs
  <1> QED BY <1>1, <1>4 DEF Judgements

-----------------------------------------------------------------------------
(* What is decided, previewed or accepted *)

IInv == Jobs /\ Judgements /\ Ledgered

LEMMA InitHolds == ProposalsInit => IInv
  <1> SUFFICES ASSUME ProposalsInit PROVE IInv
    OBVIOUS
  <1>1. work = [p \in Procs |-> NoWork] /\ judged = {} /\ ledger = <<>>
    BY DEF ProposalsInit
  <1>2. DOMAIN ledger = {} /\ \E S : ledger \in Seq(S)
    <2>1. ledger \in Seq({})
      BY <1>1
    <2>2. DOMAIN <<>> = {}
      OBVIOUS
    <2> QED BY <1>1, <2>1, <2>2
  <1>3. Jobs
    BY <1>1, NoWorkHolds DEF Jobs
  <1> HIDE DEF ProposalsInit
  <1>4. Ledgered
    BY <1>2 DEF Ledgered, Records
  <1>5. Judgements
    BY <1>1 DEF Judgements
  <1> QED BY <1>3, <1>4, <1>5 DEF IInv

LEMMA StepHolds ==
  ASSUME IInv, [ProposalsNext]_proposalVars
  PROVE  IInv'
  <1>1. ASSUME NEW p \in Procs, Moved(p) PROVE IInv'
    BY <1>1 DEF Moved, IInv, Judgements, Ledgered, Records
  <1>2. ASSUME Jobs' /\ Judgements' /\ UNCHANGED ledger PROVE IInv'
    BY <1>2 DEF IInv, Ledgered, Records
  <1>3. ASSUME NEW p \in Procs, CommandStep(p) PROVE IInv'
    <2>1. CASE Suggest(p)
      BY <1>1, <2>1, SuggestMoves DEF IInv
    <2>2. CASE LoadPolicy(p)
      BY <1>2, <2>2, LoadSteps DEF IInv
    <2>3. CASE EnterStore(p)
      BY <1>1, <2>3, EnterMoves DEF IInv
    <2>4. CASE VerifySource(p)
      BY <1>1, <2>4, VerifyMoves DEF IInv
    <2>5. CASE Persist(p)
      BY <2>5, PersistSteps DEF IInv
    <2>6. CASE LoadPreviewPolicy(p)
      BY <1>1, <2>6, PreviewLoads DEF IInv
    <2>7. CASE Preview(p)
      BY <1>2, <2>7, PreviewSteps DEF IInv
    <2>8. CASE WriteExport(p)
      BY <1>2, <2>8, WriteSteps DEF IInv
    <2>9. CASE \/ LockTimesOut(p) \/ PlanExport(p) \/ ReadForGuard(p) \/ PlanGuard(p)
               \/ CompareGuard(p) \/ StepFails(p)
      BY <1>1, <2>9, OthersMove DEF IInv
    <2> QED BY <1>3, <2>1, <2>2, <2>3, <2>4, <2>5, <2>6, <2>7, <2>8, <2>9 DEF CommandStep
  <1>4. ASSUME NEW p \in Procs, NEW command \in Commands[p], Begin(p, command) PROVE IInv'
    BY <1>1, <1>4, BeginMoves DEF IInv
  <1>5. ASSUME NEW id \in DOMAIN ledger, NEW status, ReviewRecord(id, status) PROVE IInv'
    BY <1>5, ReviewSteps DEF IInv, Jobs, Judgements
  <1>6. ASSUME NEW file, NEW content, Save(file, content) PROVE IInv'
    BY <1>2, <1>6, SaveSteps DEF IInv
  <1>7. ASSUME NEW marker, CutMarker(marker) PROVE IInv'
    BY <1>6, <1>7 DEF CutMarker
  <1>8. ASSUME NEW file, EditPolicy(file) PROVE IInv'
    BY <1>2, <1>8, EditSteps DEF IInv
  <1>9. CASE UNCHANGED proposalVars
    BY <1>9 DEF proposalVars, IInv, Jobs, Judgements, Ledgered, Records
  <1> QED BY <1>3, <1>4, <1>5, <1>6, <1>7, <1>8, <1>9 DEF ProposalsNext

\* For any commands, policies and files: while neither the policy nor a file changes,
\* the same memory comes to the same decision, foreseen or proposed (PreviewPredicts).
THEOREM Predicted == ProposalsSpec => []PreviewPredicts
  <1>1. IInv => PreviewPredicts
    BY DEF IInv, Judgements, PreviewPredicts
  <1> QED BY <1>1, InitHolds, StepHolds, PTL DEF ProposalsSpec

\* For any commands, policies and files, however they change: what is accepted with no
\* review is let through by a policy, and attested by a content, from while it was
\* proposed (AutoAcceptIsJustified).
THEOREM AcceptedJustified == ProposalsSpec => []AutoAcceptIsJustified
  <1>1. IInv => AutoAcceptIsJustified
    BY DEF IInv, Ledgered, Records, AutoAcceptIsJustified
  <1> QED BY <1>1, InitHolds, StepHolds, PTL DEF ProposalsSpec

-----------------------------------------------------------------------------
(* Batches, exports and guards under way *)

Recorded(job) == {job.records[k].at : k \in DOMAIN job.records}

(* what is reported of a batch so far: each proposal before the one it is at, once *)
Accounted(job) ==
    /\ job.at \in Nat \ {0} /\ \E S : job.records \in Seq(S)
    /\ Recorded(job) \cup job.blocked = 1 .. job.at - 1
    /\ Recorded(job) \cap job.blocked = {}
    /\ \A i \in job.blocked : Unsafe(job.queue[i])

Reported(job, led) ==
    \A k \in DOMAIN job.records :
       /\ job.records[k].id \in DOMAIN led
       /\ led[job.records[k].id].input = job.queue[job.records[k].at]

QueueSuits(job) ==
    \E S : job.queue \in Seq(S) /\ \A x \in S : Suitable(x, job.command, job.source)

Batch(job, led) == Accounted(job) /\ Reported(job, led) /\ QueueSuits(job)

Proposing(job) ==
    job.pc \in {"proposing", "previewing", "foreseeing", "verifying", "deciding"} \/ Queued(job)

(* A content that is to be written has the users' own lines, and one that a guard
   compares with the file shows what the guard saw accepted. *)
Exporting(job, led, own, raced) ==
    /\ job.pc = "writing" => job.plan \in Contents /\ (~raced => Outside(job.plan) = own)
    /\ job.pc \in {"viewing", "comparing"} => job.exported \in SUBSET (DOMAIN led)
    /\ job.pc = "comparing" =>
          \E before, after \in Seq(Lines) :
             Frames(job.plan, before, BodyOf(job.exported, led), after)

JobSound(p, job, led, own, raced) ==
    /\ Batch(job, led) /\ Exporting(job, led, own, raced)
    /\ Proposing(job) => job.at \in DOMAIN job.queue
    /\ job.pc \in {"previewing", "foreseeing"} => job.command.kind # "suggest"
    /\ job.pc = "suggesting" =>
          job.command.kind = "suggest" /\ job.command \in Commands[p] /\ job.at = 1
    /\ job.pc = "deciding" => Links(JobInput(job)) \subseteq DOMAIN led

LedgerSound(led) ==
    /\ \E S : led \in Seq(S)
    /\ \A i \in DOMAIN led : /\ Proper(led[i].input) /\ ~Unsafe(led[i].input)
                             /\ led[i].status \in Statuses
                             /\ Links(led[i].input) \subseteq 1 .. i - 1

OutcomeSound(out, led) ==
    LET job == out.work
    IN /\ out.end \in {"done", "failed"} /\ job.command.kind = "suggest" =>
             /\ Batch(job, led)
             /\ out.end = "done" /\ job.command.propose =>
                   job.at = Len(job.queue) + 1 \/ job.queue = <<>>
       /\ out.end = "matches" =>
             \E before, after, body \in Seq(Lines) :
                Frames(job.source, before, body, after) /\ body = BodyOf(job.exported, led)

(* what an export writes has the users' lines, unless they saved meanwhile *)
Kept == ~overlapped => Outside(Read(MemoryFile)) = kept

(* The inductive invariant: each command under way has accounted for what it proposed so
   far, each content to be written has the users' lines, each that a guard compares shows
   what it saw accepted, and so has what was told of the last command. *)
Sound ==
    /\ FilesHold /\ Kept /\ LedgerSound(ledger) /\ OutcomeSound(outcome, ledger)
    /\ \A p \in Procs : JobSound(p, work[p], ledger, kept, overlapped)

LEMMA LedgerShowable ==
  ASSUME NEW led, LedgerSound(led), NEW ids \in SUBSET (DOMAIN led)
  PROVE  Showable(ids, led)
  <1>1. PICK S : led \in Seq(S)
    BY DEF LedgerSound
  <1>2. DOMAIN led = 1 .. Len(led) /\ Len(led) \in Nat
    BY <1>1
  <1>3. IsFiniteSet(1 .. Len(led))
    BY <1>2, FS_Interval
  <1>4. IsFiniteSet(ids) /\ ids \in SUBSET Nat
    BY <1>2, <1>3, FS_Subset
  <1> QED BY <1>4 DEF Showable, LedgerSound, Proper

\* The fields of a command that say what it is at.
SameBatch(job, other) ==
    /\ job.command = other.command /\ job.queue = other.queue /\ job.at = other.at
    /\ job.records = other.records /\ job.blocked = other.blocked /\ job.source = other.source

LEMMA BatchStays ==
  ASSUME NEW job, NEW other, SameBatch(job, other), NEW led, Batch(other, led)
  PROVE  Batch(job, led) /\ JobInput(job) = JobInput(other)
  <1>1. Recorded(job) = Recorded(other)
    BY DEF SameBatch, Recorded
  <1> QED BY <1>1 DEF SameBatch, Batch, Accounted, Reported, QueueSuits, JobInput

LEMMA AlikeSound ==
  ASSUME NEW job, NEW other, SameBatch(job, other), job.pc = other.pc, job.plan = other.plan,
         job.exported = other.exported,
         NEW p, NEW led, NEW own, NEW raced, JobSound(p, other, led, own, raced)
  PROVE  JobSound(p, job, led, own, raced)
  <1>1. Batch(job, led) /\ JobInput(job) = JobInput(other)
    BY BatchStays DEF JobSound
  <1>2. Exporting(job, led, own, raced)
    BY DEF JobSound, Exporting
  <1> QED BY <1>1, <1>2 DEF JobSound, SameBatch, Proposing, Queued

\* Commands under way do not mind that the ledger goes on.
LEMMA SoundGrows ==
  ASSUME NEW led, NEW more, LedgerSound(led), Grown(led, more),
         NEW p, NEW job, NEW own, NEW raced, JobSound(p, job, led, own, raced)
  PROVE  JobSound(p, job, more, own, raced)
  <1>1. DOMAIN led \subseteq DOMAIN more
    BY DEF Grown
  <1>2. Reported(job, more)
    BY DEF JobSound, Batch, Reported, Grown
  <1>3. Exporting(job, more, own, raced)
    <2>1. ASSUME job.exported \in SUBSET (DOMAIN led)
          PROVE  BodyOf(job.exported, more) = BodyOf(job.exported, led)
      BY <2>1, LedgerShowable, BodyStays
    <2> QED BY <1>1, <2>1 DEF JobSound, Exporting
  <1> QED BY <1>1, <1>2, <1>3 DEF JobSound, Batch

LEMMA ContentHolds ==
  ASSUME FilesHold
  PROVE  Read(MemoryFile) \in Contents
  BY DEF FilesHold, Read, Contents

LEMMA NoWorkSound ==
  ASSUME NEW p, NEW led, NEW own, NEW raced
  PROVE  JobSound(p, NoWork, led, own, raced)
  <1>1. /\ NoWork.pc = "idle" /\ NoWork.queue = <<>> /\ NoWork.at = 1
        /\ NoWork.records = <<>> /\ NoWork.blocked = {}
    BY DEF NoWork
  <1>2. Recorded(NoWork) = {}
    BY <1>1 DEF Recorded
  <1>3. Accounted(NoWork)
    <2>1. 1 .. 1 - 1 = {} /\ <<>> \in Seq({})
      OBVIOUS
    <2> QED BY <1>1, <1>2, <2>1 DEF Accounted
  <1>4. Reported(NoWork, led)
    BY <1>1 DEF Reported
  <1>5. QueueSuits(NoWork)
    <2>1. <<>> \in Seq({})
      OBVIOUS
    <2> QED BY <1>1, <2>1 DEF QueueSuits
  <1> QED BY <1>1, <1>3, <1>4, <1>5 DEF JobSound, Batch, Exporting, Proposing, Queued

LEMMA ToldIs ==
  ASSUME NEW job
  PROVE  SameBatch(Told(job), job) /\ Told(job).exported = job.exported
  BY DEF Told, SameBatch, NoWork

LEMMA NoOutcomeSound ==
  ASSUME NEW led
  PROVE  OutcomeSound(NoOutcome, led)
  BY DEF OutcomeSound, NoOutcome

LEMMA GrownSelf ==
  ASSUME NEW led
  PROVE  Grown(led, led)
  BY DEF Grown

\* A step of one command, while the files stay.
LEMMA JobGoesOn ==
  ASSUME Sound, Jobs, NEW p \in Procs, NEW job, work' = [work EXCEPT ![p] = job],
         UNCHANGED <<files, kept, overlapped>>, Grown(ledger, ledger'), LedgerSound(ledger'),
         OutcomeSound(outcome', ledger'), JobSound(p, job, ledger', kept, overlapped)
  PROVE  Sound'
  <1>1. DOMAIN work = Procs
    BY DEF Jobs
  <1>2. ASSUME NEW q \in Procs
        PROVE  JobSound(q, work'[q], ledger', kept', overlapped')
    <2>1. CASE q = p
      <3>1. work'[q] = job
        BY <1>1, <2>1
      <3> QED BY <2>1, <3>1
    <2>2. CASE q # p
      <3>1. work'[q] = work[q]
        BY <1>1, <2>2
      <3>2. LedgerSound(ledger) /\ JobSound(q, work[q], ledger, kept, overlapped)
        BY DEF Sound
      <3>3. JobSound(q, work[q], ledger', kept, overlapped)
        BY <3>2, SoundGrows
      <3> QED BY <3>1, <3>3
    <2> QED BY <2>1, <2>2
  <1>3. FilesHold'
    BY DEF Sound, FilesHold
  <1>4. Kept'
    BY DEF Sound, Kept, Read
  <1> QED BY <1>2, <1>3, <1>4 DEF Sound

LEMMA OverKeeps ==
  ASSUME Sound, Jobs, NEW p \in Procs, NEW job, NEW end, Over(p, job, end),
         UNCHANGED <<files, kept, overlapped>>, Grown(ledger, ledger'), LedgerSound(ledger'),
         OutcomeSound([end |-> end, work |-> Told(job)], ledger')
  PROVE  Sound'
  <1>1. work' = [work EXCEPT ![p] = NoWork] /\ outcome' = [end |-> end, work |-> Told(job)]
    BY DEF Over
  <1>2. JobSound(p, NoWork, ledger', kept, overlapped)
    BY NoWorkSound
  <1> QED BY <1>1, <1>2, JobGoesOn

LEMMA GoesKeeps ==
  ASSUME Sound, Jobs, NEW p \in Procs, NEW job, Goes(p, job),
         UNCHANGED <<files, kept, overlapped>>, Grown(ledger, ledger'), LedgerSound(ledger'),
         JobSound(p, job, ledger', kept, overlapped)
  PROVE  Sound'
  <1>1. work' = [work EXCEPT ![p] = job] /\ outcome' = NoOutcome
    BY DEF Goes
  <1>2. OutcomeSound(outcome', ledger')
    BY <1>1, NoOutcomeSound
  <1> QED BY <1>1, <1>2, JobGoesOn

LEMMA EndSound ==
  ASSUME NEW job, NEW led, Batch(job, led), NEW end, end # "matches",
         end = "done" /\ job.command.kind = "suggest" /\ job.command.propose =>
            job.at = Len(job.queue) + 1 \/ job.queue = <<>>
  PROVE  OutcomeSound([end |-> end, work |-> Told(job)], led)
  <1> DEFINE told == Told(job)
             out == [end |-> end, work |-> told]
  <1>1. SameBatch(told, job)
    BY ToldIs
  <1>2. out.end = end /\ out.work = told
    OBVIOUS
  <1> HIDE DEF told, out
  <1>3. Batch(told, led)
    BY <1>1, BatchStays
  <1>4. told.command = job.command /\ told.at = job.at /\ told.queue = job.queue
    BY <1>1 DEF SameBatch
  <1>5. OutcomeSound(out, led)
    BY <1>2, <1>3, <1>4 DEF OutcomeSound
  <1> QED BY <1>5 DEF out, told

\* A command that fails, or ends with nothing to report.
LEMMA FailKeeps ==
  ASSUME Sound, Jobs, NEW p \in Procs, NEW end, Over(p, work[p], end),
         end \notin {"matches", "done"} \/ (end = "done" /\ work[p].command.kind # "suggest"),
         UNCHANGED <<files, kept, overlapped, ledger>>
  PROVE  Sound'
  <1>1. Batch(work[p], ledger) /\ LedgerSound(ledger)
    BY DEF Sound, JobSound
  <1>2. OutcomeSound([end |-> end, work |-> Told(work[p])], ledger)
    BY <1>1, EndSound
  <1>3. Grown(ledger, ledger') /\ LedgerSound(ledger')
        /\ OutcomeSound([end |-> end, work |-> Told(work[p])], ledger')
    BY <1>1, <1>2, GrownSelf
  <1> QED BY <1>3, OverKeeps

\* A command that goes on with the same batch.
LEMMA SameKeeps ==
  ASSUME Sound, Jobs, NEW p \in Procs, NEW job, Goes(p, job),
         UNCHANGED <<files, kept, overlapped, ledger>>, JobSound(p, job, ledger, kept, overlapped)
  PROVE  Sound'
  <1>1. LedgerSound(ledger)
    BY DEF Sound
  <1>2. Grown(ledger, ledger') /\ LedgerSound(ledger')
        /\ JobSound(p, job, ledger', kept, overlapped)
    BY <1>1, GrownSelf
  <1> QED BY <1>2, GoesKeeps

-----------------------------------------------------------------------------
(* Proposals of a batch *)

TakenFields(job) ==
    /\ SameBatch(Taken(job), job) /\ Taken(job).pc = job.pc
    /\ Taken(job).exported = job.exported /\ Taken(job).plan = job.plan

LEMMA TakenKeeps ==
  ASSUME NEW job, DOMAIN job = Fields
  PROVE  TakenFields(job)
  BY FieldsAre DEF TakenFields, Taken, SameBatch

LEMMA ProposesSound ==
  ASSUME NEW job, DOMAIN job = Fields, NEW p, NEW led, NEW own, NEW raced, Batch(job, led),
         job.pc = "proposing" \/ (job.pc = "previewing" /\ job.command.kind # "suggest"),
         job.at \in DOMAIN job.queue
  PROVE  JobSound(p, Taken(job), led, own, raced)
  <1>1. TakenFields(job)
    BY TakenKeeps
  <1> DEFINE taken == Taken(job)
  <1>2. /\ SameBatch(taken, job) /\ taken.pc = job.pc
    BY <1>1 DEF TakenFields
  <1> HIDE DEF taken
  <1>3. Batch(taken, led)
    BY <1>2, BatchStays
  <1>4. taken.at = job.at /\ taken.queue = job.queue /\ taken.command = job.command
    BY <1>2 DEF SameBatch
  <1>5. JobSound(p, taken, led, own, raced)
    BY <1>2, <1>3, <1>4 DEF JobSound, Exporting, Proposing, Queued
  <1> QED BY <1>5 DEF taken

\* The next of job, when job has one more that is accounted for.
LEMMA NextKeeps ==
  ASSUME Sound, Jobs, NEW p \in Procs, NEW job, NextProposal(p, job), DOMAIN job = Fields,
         UNCHANGED <<files, kept, overlapped>>, Grown(ledger, ledger'), LedgerSound(ledger'),
         Batch([job EXCEPT !.at = @ + 1], ledger'), job.at \in DOMAIN job.queue
  PROVE  Sound'
  <1> DEFINE next == [job EXCEPT !.at = @ + 1]
             going == [next EXCEPT !.pc = "proposing"]
  <1>1. IF next.at > Len(next.queue) THEN Over(p, next, "done") ELSE Goes(p, Taken(going))
    BY FieldsAre DEF NextProposal
  <1>2. Batch(next, ledger')
    OBVIOUS
  <1>3. /\ DOMAIN next = Fields /\ next.at = job.at + 1 /\ next.queue = job.queue
        /\ DOMAIN going = Fields /\ going.pc = "proposing" /\ SameBatch(going, next)
    BY FieldsAre DEF SameBatch
  <1> HIDE DEF next, going
  <1>4. PICK S : next.queue \in Seq(S)
    BY <1>2 DEF Batch, QueueSuits
  <1>5. DOMAIN next.queue = 1 .. Len(next.queue) /\ Len(next.queue) \in Nat
    BY <1>4, Elements
  <1>6. next.at \in 2 .. Len(next.queue) + 1
    BY <1>3, <1>5
  <1>7. CASE next.at > Len(next.queue)
    <2>1. Over(p, next, "done") /\ next.at = Len(next.queue) + 1
      BY <1>1, <1>5, <1>6, <1>7
    <2>2. OutcomeSound([end |-> "done", work |-> Told(next)], ledger')
      BY <1>2, <2>1, EndSound
    <2> QED BY <2>1, <2>2, OverKeeps
  <1>8. CASE ~(next.at > Len(next.queue))
    <2>1. Goes(p, Taken(going)) /\ next.at \in DOMAIN next.queue
      BY <1>1, <1>5, <1>6, <1>8
    <2>2. Batch(going, ledger') /\ going.at = next.at /\ going.queue = next.queue
      BY <1>2, <1>3, BatchStays DEF SameBatch
    <2>3. JobSound(p, Taken(going), ledger', kept, overlapped)
      BY <1>3, <2>1, <2>2, ProposesSound
    <2> QED BY <2>1, <2>3, GoesKeeps
  <1> QED BY <1>7, <1>8

LEMMA UpTo ==
  ASSUME NEW n \in Nat \ {0}
  PROVE  /\ 1 .. (n + 1) - 1 = (1 .. n - 1) \cup {n}
         /\ n \notin 1 .. n - 1 /\ n + 1 \in Nat \ {0}
  OBVIOUS

\* One more of a batch is blocked.
LEMMA BlockedCounts ==
  ASSUME NEW job, NEW next, NEW led, Batch(job, led), job.at \in DOMAIN job.queue,
         Unsafe(JobInput(job)),
         next.command = job.command, next.queue = job.queue, next.source = job.source,
         next.records = job.records, next.blocked = job.blocked \cup {job.at},
         next.at = job.at + 1
  PROVE  Batch(next, led)
  <1>1. Accounted(job) /\ Reported(job, led) /\ QueueSuits(job)
    BY DEF Batch
  <1>2. /\ 1 .. next.at - 1 = (1 .. job.at - 1) \cup {job.at}
        /\ job.at \notin 1 .. job.at - 1 /\ next.at \in Nat \ {0}
    BY <1>1, UpTo DEF Accounted
  <1>3. Recorded(next) = Recorded(job)
    BY DEF Recorded
  <1>4. /\ Recorded(next) \cup next.blocked = 1 .. next.at - 1
        /\ Recorded(next) \cap next.blocked = {}
    <2>1. Recorded(job) \cup job.blocked = 1 .. job.at - 1 /\ Recorded(job) \cap job.blocked = {}
      BY <1>1 DEF Accounted
    <2> QED BY <1>2, <1>3, <2>1
  <1>5. \A i \in next.blocked : Unsafe(next.queue[i])
    BY <1>1 DEF Accounted, JobInput
  <1>6. \E S : next.records \in Seq(S)
    BY <1>1 DEF Accounted
  <1>7. Accounted(next)
    BY <1>2, <1>4, <1>5, <1>6 DEF Accounted
  <1>8. Reported(next, led) /\ QueueSuits(next)
    BY <1>1 DEF Reported, QueueSuits
  <1> QED BY <1>7, <1>8 DEF Batch

\* One more of a batch is recorded, at the end of the ledger.
LEMMA RecordedCounts ==
  ASSUME NEW job, NEW next, NEW led, NEW more, Batch(job, led), Grown(led, more),
         NEW id, id \in DOMAIN more, more[id].input = JobInput(job),
         next.command = job.command, next.queue = job.queue, next.source = job.source,
         next.records = Append(job.records, [at |-> job.at, id |-> id]),
         next.blocked = job.blocked, next.at = job.at + 1
  PROVE  Batch(next, more)
  <1> DEFINE entry == [at |-> job.at, id |-> id]
             n == Len(job.records) + 1
  <1>1. Accounted(job) /\ Reported(job, led) /\ QueueSuits(job)
    BY DEF Batch
  <1>2. /\ 1 .. next.at - 1 = (1 .. job.at - 1) \cup {job.at}
        /\ job.at \notin 1 .. job.at - 1 /\ next.at \in Nat \ {0}
    BY <1>1, UpTo DEF Accounted
  <1>3. PICK S : job.records \in Seq(S)
    BY <1>1 DEF Accounted
  <1>4. entry.at = job.at /\ entry.id = id
    OBVIOUS
  <1> HIDE DEF entry
  <1>5. job.records \in Seq(S \cup {entry}) /\ entry \in S \cup {entry}
    BY <1>3
  <1>6. /\ next.records \in Seq(S \cup {entry}) /\ Len(next.records) = n
        /\ \A i \in 1 .. Len(job.records) : next.records[i] = job.records[i]
        /\ next.records[n] = entry
    BY <1>5, AppendProperties DEF entry
  <1>7. /\ DOMAIN job.records = 1 .. Len(job.records) /\ Len(job.records) \in Nat
        /\ DOMAIN next.records = 1 .. n
    BY <1>3, <1>6, LenProperties
  <1>8. DOMAIN next.records = DOMAIN job.records \cup {n}
    BY <1>7
  <1> HIDE DEF n
  <1>9. Recorded(next) = Recorded(job) \cup {job.at}
    BY <1>4, <1>6, <1>7, <1>8 DEF Recorded
  <1>10. /\ Recorded(next) \cup next.blocked = 1 .. next.at - 1
         /\ Recorded(next) \cap next.blocked = {}
    <2>1. Recorded(job) \cup job.blocked = 1 .. job.at - 1 /\ Recorded(job) \cap job.blocked = {}
      BY <1>1 DEF Accounted
    <2> QED BY <1>2, <1>9, <2>1
  <1>11. \A i \in next.blocked : Unsafe(next.queue[i])
    BY <1>1 DEF Accounted
  <1>12. Accounted(next)
    BY <1>2, <1>6, <1>10, <1>11 DEF Accounted
  <1>13. ASSUME NEW k \in DOMAIN next.records
         PROVE  /\ next.records[k].id \in DOMAIN more
                /\ more[next.records[k].id].input = next.queue[next.records[k].at]
    <2>1. CASE k \in DOMAIN job.records
      <3>1. next.records[k] = job.records[k]
        BY <1>6, <1>7, <2>1
      <3> QED BY <1>1, <2>1, <3>1 DEF Reported, Grown
    <2>2. CASE k = n
      BY <1>4, <1>6, <2>2 DEF JobInput
    <2> QED BY <1>8, <2>1, <2>2
  <1>14. QueueSuits(next)
    BY <1>1 DEF QueueSuits
  <1> QED BY <1>12, <1>13, <1>14 DEF Batch, Reported

LEMMA LedgerAppends ==
  ASSUME NEW led, NEW more, NEW record, LedgerSound(led), more = Append(led, record),
         Proper(record.input), ~Unsafe(record.input), record.status \in Statuses,
         Links(record.input) \subseteq DOMAIN led
  PROVE  /\ LedgerSound(more) /\ Grown(led, more)
         /\ Len(led) + 1 \in DOMAIN more /\ more[Len(led) + 1] = record
  <1> DEFINE n == Len(led) + 1
  <1>1. PICK S : led \in Seq(S)
    BY DEF LedgerSound
  <1>2. led \in Seq(S \cup {record}) /\ record \in S \cup {record}
    BY <1>1
  <1>3. /\ more \in Seq(S \cup {record}) /\ Len(more) = n
        /\ \A i \in 1 .. Len(led) : more[i] = led[i]
        /\ more[n] = record
    BY <1>2, AppendProperties
  <1>4. /\ DOMAIN led = 1 .. Len(led) /\ Len(led) \in Nat /\ DOMAIN more = 1 .. n
    BY <1>1, <1>3, LenProperties
  <1>5. DOMAIN more = DOMAIN led \cup {n} /\ DOMAIN led = 1 .. n - 1
    BY <1>4
  <1> HIDE DEF n
  <1>6. Grown(led, more)
    BY <1>3, <1>4, <1>5 DEF Grown
  <1>7. ASSUME NEW i \in DOMAIN more
        PROVE  /\ Proper(more[i].input) /\ ~Unsafe(more[i].input)
               /\ more[i].status \in Statuses /\ Links(more[i].input) \subseteq 1 .. i - 1
    <2>1. CASE i \in DOMAIN led
      <3>1. more[i] = led[i]
        BY <1>3, <1>4, <2>1
      <3> QED BY <2>1, <3>1 DEF LedgerSound
    <2>2. CASE i = n
      <3>1. more[i] = record
        BY <1>3, <2>2
      <3> QED BY <1>5, <2>2, <3>1
    <2> QED BY <1>5, <2>1, <2>2
  <1>8. LedgerSound(more)
    BY <1>3, <1>7 DEF LedgerSound
  <1>9. n \in DOMAIN more /\ more[n] = record
    BY <1>3, <1>5
  <1> QED BY <1>6, <1>8, <1>9 DEF n

-----------------------------------------------------------------------------
(* Steps of commands *)

LEMMA BeginKeeps ==
  ASSUME Sound, Jobs, NEW p \in Procs, NEW command \in Commands[p], Begin(p, command)
  PROVE  Sound'
  <1> DEFINE job == [NoWork EXCEPT !.command = command]
             proposing == [job EXCEPT !.queue = <<command.input>>,
                                      !.pc = IF command.kind = "propose" THEN "proposing"
                                             ELSE "previewing"]
             going(pc) == [job EXCEPT !.pc = pc]
  <1>1. UNCHANGED <<files, kept, overlapped, ledger>>
    BY DEF Begin, World
  <1>2. Batch(NoWork, ledger)
    BY NoWorkSound DEF JobSound
  <1>3. /\ NoWork.queue = <<>> /\ NoWork.at = 1 /\ NoWork.records = <<>> /\ NoWork.blocked = {}
        /\ DOMAIN NoWork = Fields
    BY DEF NoWork, Fields
  <1>4. LedgerSound(ledger) /\ Grown(ledger, ledger') /\ LedgerSound(ledger')
    BY <1>1, GrownSelf DEF Sound
  <1>5. \A pc : /\ going(pc).pc = pc /\ going(pc).command = command
                /\ going(pc).at = 1 /\ going(pc).records = <<>> /\ going(pc).blocked = {}
                /\ going(pc).queue = <<>>
    BY <1>3, FieldsAre
  <1>6. \A pc : Batch(going(pc), ledger)
    <2> SUFFICES ASSUME NEW pc PROVE Batch(going(pc), ledger)
      OBVIOUS
    <2> DEFINE new == going(pc)
    <2>1. new.queue = <<>> /\ new.at = 1 /\ new.records = <<>> /\ new.blocked = {}
      BY <1>5
    <2> HIDE DEF new, going
    <2>2. Recorded(new) = Recorded(NoWork)
      BY <1>3, <2>1 DEF Recorded
    <2>3. QueueSuits(new)
      <3>1. <<>> \in Seq({})
        OBVIOUS
      <3> QED BY <2>1, <3>1 DEF QueueSuits
    <2>4. Batch(new, ledger)
      BY <1>2, <1>3, <2>1, <2>2, <2>3 DEF Batch, Accounted, Reported
    <2> QED BY <2>4 DEF new
  <1>7. CASE command.kind \in {"propose", "preview"}
    <2>1. Goes(p, Taken(proposing))
      BY <1>7 DEF Begin
    <2>2. /\ DOMAIN proposing = Fields /\ proposing.queue = <<command.input>>
          /\ proposing.pc \in {"proposing", "previewing"} /\ proposing.command = command
          /\ proposing.at = 1 /\ proposing.records = <<>> /\ proposing.blocked = {}
      BY <1>3, FieldsAre
    <2> HIDE DEF proposing
    <2>3. Proper(command.input)
      BY <1>7, ProposalsAssumption DEF ProposalsAssumption, Proper
    <2>4. Suitable(command.input, proposing.command, proposing.source)
      BY <1>7, <2>2, <2>3 DEF Suitable
    <2>5. proposing.queue \in Seq({command.input}) /\ 1 \in DOMAIN proposing.queue
      BY <2>2
    <2>6. QueueSuits(proposing)
      BY <2>4, <2>5 DEF QueueSuits
    <2>7. Recorded(proposing) = Recorded(NoWork)
      BY <1>3, <2>2 DEF Recorded
    <2>8. Batch(proposing, ledger)
      BY <1>2, <1>3, <2>2, <2>6, <2>7 DEF Batch, Accounted, Reported
    <2>9. JobSound(p, Taken(proposing), ledger, kept, overlapped)
      BY <1>7, <2>2, <2>5, <2>8, ProposesSound
    <2> QED BY <1>1, <2>1, <2>9, SameKeeps
  <1>8. CASE command.kind = "suggest"
    <2>1. Goes(p, going("suggesting"))
      BY <1>8 DEF Begin
    <2> HIDE DEF going
    <2>2. JobSound(p, going("suggesting"), ledger, kept, overlapped)
      BY <1>5, <1>6, <1>8 DEF JobSound, Exporting, Proposing, Queued
    <2> QED BY <1>1, <2>1, <2>2, SameKeeps
  <1>9. CASE command.kind = "export"
    <2>1. Goes(p, going("waiting"))
      BY <1>9 DEF Begin
    <2> HIDE DEF going
    <2>2. JobSound(p, going("waiting"), ledger, kept, overlapped)
      BY <1>5, <1>6, <1>9 DEF JobSound, Exporting, Proposing, Queued
    <2> QED BY <1>1, <2>1, <2>2, SameKeeps
  <1>10. CASE command.kind = "guard"
    <2>1. Goes(p, going("guarding"))
      BY <1>10 DEF Begin
    <2> HIDE DEF going
    <2>2. JobSound(p, going("guarding"), ledger, kept, overlapped)
      BY <1>5, <1>6, <1>10 DEF JobSound, Exporting, Proposing, Queued
    <2> QED BY <1>1, <2>1, <2>2, SameKeeps
  <1>11. command.kind \in {"propose", "preview", "suggest", "export", "guard"}
    BY ProposalsAssumption DEF ProposalsAssumption
  <1> QED BY <1>7, <1>8, <1>9, <1>10, <1>11

LEMMA SuggestKeeps ==
  ASSUME Sound, Jobs, NEW p \in Procs, Suggest(p)
  PROVE  Sound'
  <1> DEFINE before == work[p]
             command == before.command
             job(found) == [before EXCEPT !.queue = Limited(Deduplicated(found),
                                                            command.options.limit),
                                          !.source = Read(MemoryFile)]
             going(found) == [job(found) EXCEPT !.pc = "proposing"]
  <1>1. UNCHANGED <<files, kept, overlapped, ledger>> /\ before.pc = "suggesting"
    BY DEF Suggest, World
  <1>2. DOMAIN before = Fields /\ FilesHold /\ LedgerSound(ledger)
    BY DEF Jobs, Sound
  <1>3. JobSound(p, before, ledger, kept, overlapped)
    BY DEF Sound
  <1>4. command.kind = "suggest" /\ command \in Commands[p] /\ before.at = 1
    BY <1>1, <1>3 DEF JobSound
  <1>5. CASE SuggestFails(command)
    <2>1. Over(p, before, "failed")
      BY <1>5 DEF Suggest
    <2> QED BY <1>1, <2>1, FailKeeps
  <1>6. CASE ~SuggestFails(command)
    <2>1. PICK found \in Suggestions(command) :
             IF job(found).queue = <<>> \/ ~command.propose THEN Over(p, job(found), "done")
             ELSE Goes(p, Taken(going(found)))
      BY <1>6 DEF Suggest
    <2>2. PICK S : /\ Limited(Deduplicated(found), command.options.limit) \in Seq(S)
                   /\ \A x \in S : Suitable(x, command, Read(MemoryFile))
      BY <1>2, <1>4, <1>6, SuggestedSuits
    <2> DEFINE j == job(found)
               g == going(found)
    <2>3. /\ DOMAIN g = Fields /\ g.pc = "proposing" /\ SameBatch(g, j)
          /\ j.command = command /\ j.at = 1 /\ j.source = Read(MemoryFile)
          /\ j.queue \in Seq(S) /\ j.records = before.records /\ j.blocked = before.blocked
      BY <1>2, <1>4, <2>2, FieldsAre DEF SameBatch
    <2>4. IF j.queue = <<>> \/ ~command.propose THEN Over(p, j, "done")
          ELSE Goes(p, Taken(g))
      BY <2>1
    <2> HIDE DEF j, g, job, going
    <2>5. QueueSuits(j)
      BY <2>2, <2>3 DEF QueueSuits
    <2>6. Recorded(before) \cup before.blocked = {}
      <3>1. 1 .. 1 - 1 = {}
        OBVIOUS
      <3> QED BY <1>3, <1>4, <3>1 DEF JobSound, Batch, Accounted
    <2>7. DOMAIN before.records = {} /\ Recorded(j) = Recorded(before)
      BY <2>3, <2>6 DEF Recorded
    <2>8. Batch(j, ledger)
      BY <1>3, <1>4, <2>3, <2>5, <2>6, <2>7 DEF JobSound, Batch, Accounted, Reported
    <2>9. Grown(ledger, ledger') /\ LedgerSound(ledger') /\ ledger' = ledger
      BY <1>1, <1>2, GrownSelf
    <2>10. CASE j.queue = <<>> \/ ~command.propose
      <3>1. Over(p, j, "done")
        BY <2>4, <2>10
      <3>2. OutcomeSound([end |-> "done", work |-> Told(j)], ledger)
        BY <2>3, <2>8, <2>10, EndSound
      <3> QED BY <1>1, <2>9, <3>1, <3>2, OverKeeps
    <2>11. CASE ~(j.queue = <<>> \/ ~command.propose)
      <3>1. Goes(p, Taken(g))
        BY <2>4, <2>11
      <3>2. Batch(g, ledger) /\ g.at = 1 /\ g.queue = j.queue
        BY <2>3, <2>8, BatchStays DEF SameBatch
      <3>3. 1 \in DOMAIN j.queue
        BY <2>3, <2>11
      <3>4. JobSound(p, Taken(g), ledger, kept, overlapped)
        BY <2>3, <3>2, <3>3, ProposesSound
      <3> QED BY <1>1, <3>1, <3>4, SameKeeps
    <2> QED BY <2>10, <2>11
  <1> QED BY <1>5, <1>6

LEMMA LoadKeeps ==
  ASSUME Sound, Jobs, NEW p \in Procs, LoadPolicy(p)
  PROVE  Sound'
  <1> DEFINE before == work[p]
             config == LoadedPolicy(policy)
             job == [before EXCEPT !.pc = "waiting", !.config = config]
             blocked == [before EXCEPT !.blocked = @ \cup {before.at}]
             next == [blocked EXCEPT !.at = @ + 1]
  <1>1. UNCHANGED <<files, kept, overlapped, ledger>> /\ before.pc = "proposing"
    BY DEF LoadPolicy, World
  <1>2. \/ Over(p, before, "failed")
        \/ Unsafe(Input(p)) /\ NextProposal(p, blocked)
        \/ Goes(p, job)
    <2>1. Classify(Input(p), Absent, config) = "block_no_persist" <=> Unsafe(Input(p))
      BY BlockedIsUnsafe
    <2> QED BY <2>1 DEF LoadPolicy, BlockProposal
  <1>3. DOMAIN before = Fields /\ LedgerSound(ledger)
        /\ JobSound(p, before, ledger, kept, overlapped) /\ Input(p) = JobInput(before)
    BY DEF Jobs, Sound, Input, JobInput
  <1>4. before.at \in DOMAIN before.queue /\ Batch(before, ledger)
    BY <1>1, <1>3 DEF JobSound, Proposing
  <1>5. CASE Over(p, before, "failed")
    BY <1>1, <1>5, FailKeeps
  <1> HIDE DEF before
  <1>6. CASE Unsafe(Input(p)) /\ NextProposal(p, blocked)
    <2>1. /\ DOMAIN blocked = Fields /\ blocked.at = before.at /\ blocked.queue = before.queue
          /\ next.at = before.at + 1 /\ next.queue = before.queue
          /\ next.command = before.command /\ next.source = before.source
          /\ next.records = before.records /\ next.blocked = before.blocked \cup {before.at}
      BY <1>3, FieldsAre
    <2> HIDE DEF next
    <2>2. Batch(next, ledger)
      BY <1>3, <1>4, <1>6, <2>1, BlockedCounts
    <2>3. Grown(ledger, ledger') /\ LedgerSound(ledger') /\ Batch(next, ledger')
      BY <1>1, <1>3, <2>2, GrownSelf
    <2>4. Batch([blocked EXCEPT !.at = @ + 1], ledger')
      BY <2>3 DEF next
    <2> HIDE DEF blocked
    <2> QED BY <1>1, <1>4, <1>6, <2>1, <2>3, <2>4, NextKeeps
  <1>7. CASE Goes(p, job)
    <2>1. SameBatch(job, before) /\ job.pc = "waiting"
      BY <1>3, FieldsAre DEF SameBatch
    <2> HIDE DEF job
    <2>2. Batch(job, ledger)
      BY <1>4, <2>1, BatchStays
    <2>3. job.at \in DOMAIN job.queue
      BY <1>4, <2>1 DEF SameBatch
    <2>4. JobSound(p, job, ledger, kept, overlapped)
      BY <2>1, <2>2, <2>3 DEF JobSound, Exporting
    <2> QED BY <1>1, <1>7, <2>4, SameKeeps
  <1> QED BY <1>2, <1>5, <1>6, <1>7

LEMMA EnterKeeps ==
  ASSUME Sound, Jobs, NEW p \in Procs, EnterStore(p)
  PROVE  Sound'
  <1> DEFINE before == work[p]
             job == [before EXCEPT !.pc = IF before.command.kind = "export" THEN "planning"
                                          ELSE "verifying"]
  <1>1. UNCHANGED <<files, kept, overlapped, ledger>> /\ before.pc = "waiting"
        /\ Goes(p, job)
    BY DEF EnterStore, World
  <1>2. DOMAIN before = Fields /\ JobSound(p, before, ledger, kept, overlapped)
    BY DEF Jobs, Sound
  <1> HIDE DEF before
  <1>3. SameBatch(job, before)
        /\ job.pc = IF before.command.kind = "export" THEN "planning" ELSE "verifying"
    BY <1>2, FieldsAre DEF SameBatch
  <1> HIDE DEF job
  <1>4. Batch(job, ledger)
    BY <1>2, <1>3, BatchStays DEF JobSound
  <1>5. job.pc = "verifying" => job.at \in DOMAIN job.queue
    BY <1>1, <1>2, <1>3 DEF JobSound, Proposing, Queued, SameBatch
  <1>6. JobSound(p, job, ledger, kept, overlapped)
    BY <1>3, <1>4, <1>5 DEF JobSound, Exporting, Proposing, Queued
  <1> QED BY <1>1, <1>6, SameKeeps

LEMMA VerifyKeeps ==
  ASSUME Sound, Jobs, NEW p \in Procs, VerifySource(p)
  PROVE  Sound'
  <1> DEFINE before == work[p]
             job == [before EXCEPT !.pc = "deciding",
                        !.verification = Verification(Input(p), SourceContent(Input(p)))]
  <1>1. UNCHANGED <<files, kept, overlapped, ledger>> /\ before.pc = "verifying"
    BY DEF VerifySource, World
  <1>2. \/ Over(p, before, "failed")
        \/ Links(Input(p)) \subseteq DOMAIN ledger /\ Goes(p, job)
    BY DEF VerifySource, BadReferences
  <1>3. CASE Over(p, before, "failed")
    BY <1>1, <1>3, FailKeeps
  <1>4. DOMAIN before = Fields /\ JobSound(p, before, ledger, kept, overlapped)
        /\ Input(p) = JobInput(before)
    BY DEF Jobs, Sound, Input, JobInput
  <1> HIDE DEF before
  <1>5. SameBatch(job, before) /\ job.pc = "deciding"
    BY <1>4, FieldsAre DEF SameBatch
  <1> HIDE DEF job
  <1>6. Batch(job, ledger) /\ JobInput(job) = JobInput(before)
    BY <1>4, <1>5, BatchStays DEF JobSound
  <1>7. job.at \in DOMAIN job.queue
    BY <1>1, <1>4, <1>5 DEF JobSound, Proposing, SameBatch
  <1>8. CASE Links(Input(p)) \subseteq DOMAIN ledger /\ Goes(p, job)
    <2>1. JobSound(p, job, ledger, kept, overlapped)
      BY <1>4, <1>5, <1>6, <1>7, <1>8 DEF JobSound, Exporting
    <2> QED BY <1>1, <1>8, <2>1, SameKeeps
  <1> QED BY <1>2, <1>3, <1>8

LEMMA PersistKeeps ==
  ASSUME Sound, Jobs, NEW p \in Procs, Persist(p)
  PROVE  Sound'
  <1> DEFINE before == work[p]
             decision == Decide(Input(p), before.verification, before.config)
             record == RecordOf(p, decision)
             blocked == [before EXCEPT !.blocked = @ \cup {before.at}]
             listed == [before EXCEPT
                          !.records = Append(@, [at |-> before.at, id |-> Len(ledger) + 1])]
             skipped == [blocked EXCEPT !.at = @ + 1]
             next == [listed EXCEPT !.at = @ + 1]
  <1>1. UNCHANGED <<files, kept, overlapped>> /\ before.pc = "deciding"
    BY DEF Persist, World
  <1>2. \/ decision = "block_no_persist" /\ NextProposal(p, blocked) /\ UNCHANGED ledger
        \/ /\ decision # "block_no_persist" /\ NextProposal(p, listed)
           /\ ledger' = Append(ledger, record)
    BY DEF Persist, BlockProposal
  <1>3. DOMAIN before = Fields /\ LedgerSound(ledger)
        /\ JobSound(p, before, ledger, kept, overlapped) /\ Input(p) = JobInput(before)
    BY DEF Jobs, Sound, Input, JobInput
  <1>4. decision = "block_no_persist" <=> Unsafe(Input(p))
    BY BlockedIsUnsafe
  <1>5. record.input = Input(p) /\ record.status = StatusOf(decision)
    BY DEF RecordOf
  <1>6. decision # "block_no_persist" => StatusOf(decision) \in Statuses
    <2>1. Classify(Input(p), before.verification, before.config)
             \in {"block_no_persist", "reject_audited", "review", "auto_accept"}
      <3>1. CASE Unsafe(Input(p))
        BY <3>1, BlockedIsUnsafe
      <3>2. CASE ~Unsafe(Input(p))
        <4>1. CASE Finds(Input(p), "instruction") \/ HoldsTerm(Input(p), before.config.deny)
          BY <3>2, <4>1 DEF Classify
        <4>2. CASE ~(Finds(Input(p), "instruction") \/ HoldsTerm(Input(p), before.config.deny))
          BY <3>2, <4>2 DEF Classify
        <4> QED BY <4>1, <4>2
      <3> QED BY <3>1, <3>2
    <2>2. decision \in {"block_no_persist", "reject_audited", "review", "auto_accept"}
      BY <2>1 DEF Decide, ReviewedIfLinked
    <2> HIDE DEF decision
    <2> QED BY <2>2 DEF StatusOf, Statuses
  <1> HIDE DEF before, record, decision
  <1>7. before.at \in DOMAIN before.queue /\ Batch(before, ledger)
        /\ Links(Input(p)) \subseteq DOMAIN ledger
    BY <1>1, <1>3 DEF JobSound, Proposing
  <1>8. Proper(Input(p))
    <2>1. PICK S : before.queue \in Seq(S)
                   /\ \A x \in S : Suitable(x, before.command, before.source)
      BY <1>7 DEF Batch, QueueSuits
    <2>2. JobInput(before) \in S
      BY <1>7, <2>1, Elements DEF JobInput
    <2> QED BY <1>3, <2>1, <2>2 DEF Suitable
  <1>9. CASE decision = "block_no_persist" /\ NextProposal(p, blocked) /\ UNCHANGED ledger
    <2>1. /\ DOMAIN blocked = Fields /\ blocked.at = before.at /\ blocked.queue = before.queue
          /\ skipped.at = before.at + 1 /\ skipped.queue = before.queue
          /\ skipped.command = before.command /\ skipped.source = before.source
          /\ skipped.records = before.records
          /\ skipped.blocked = before.blocked \cup {before.at}
      BY <1>3, FieldsAre
    <2> HIDE DEF skipped
    <2>2. Batch(skipped, ledger)
      BY <1>3, <1>4, <1>7, <1>9, <2>1, BlockedCounts
    <2>3. Grown(ledger, ledger') /\ LedgerSound(ledger') /\ Batch(skipped, ledger')
      BY <1>3, <1>9, <2>2, GrownSelf
    <2>4. Batch([blocked EXCEPT !.at = @ + 1], ledger')
      BY <2>3 DEF skipped
    <2> HIDE DEF blocked
    <2> QED BY <1>1, <1>7, <1>9, <2>1, <2>3, <2>4, NextKeeps
  <1>10. CASE /\ decision # "block_no_persist" /\ NextProposal(p, listed)
              /\ ledger' = Append(ledger, record)
    <2>1. /\ LedgerSound(ledger') /\ Grown(ledger, ledger')
          /\ Len(ledger) + 1 \in DOMAIN ledger' /\ ledger'[Len(ledger) + 1] = record
      BY <1>3, <1>4, <1>5, <1>6, <1>7, <1>8, <1>10, LedgerAppends
    <2>2. /\ DOMAIN listed = Fields /\ listed.at = before.at /\ listed.queue = before.queue
          /\ next.at = before.at + 1 /\ next.queue = before.queue
          /\ next.command = before.command /\ next.source = before.source
          /\ next.records = Append(before.records, [at |-> before.at, id |-> Len(ledger) + 1])
          /\ next.blocked = before.blocked
      BY <1>3, FieldsAre
    <2> HIDE DEF next
    <2>3. Batch(next, ledger')
      BY <1>3, <1>5, <1>7, <2>1, <2>2, RecordedCounts
    <2>4. Batch([listed EXCEPT !.at = @ + 1], ledger')
      BY <2>3 DEF next
    <2> HIDE DEF listed
    <2> QED BY <1>1, <1>7, <1>10, <2>1, <2>2, <2>4, NextKeeps
  <1> QED BY <1>2, <1>9, <1>10

LEMMA PreviewsKeep ==
  ASSUME Sound, Jobs, NEW p \in Procs, LoadPreviewPolicy(p) \/ Preview(p)
  PROVE  Sound'
  <1> DEFINE before == work[p]
             job == [before EXCEPT !.pc = "foreseeing", !.config = LoadedPolicy(policy)]
  <1>1. UNCHANGED <<files, kept, overlapped, ledger>>
        /\ before.pc \in {"previewing", "foreseeing"}
    BY DEF LoadPreviewPolicy, Preview, World
  <1>2. Over(p, before, "failed") \/ Over(p, before, "done") \/ Goes(p, job)
    BY DEF LoadPreviewPolicy, Preview
  <1>3. DOMAIN before = Fields /\ JobSound(p, before, ledger, kept, overlapped)
    BY DEF Jobs, Sound
  <1>4. before.command.kind # "suggest"
    BY <1>1, <1>3 DEF JobSound
  <1>5. CASE Over(p, before, "failed") \/ Over(p, before, "done")
    BY <1>1, <1>4, <1>5, FailKeeps
  <1> HIDE DEF before
  <1>6. CASE Goes(p, job)
    <2>1. SameBatch(job, before) /\ job.pc = "foreseeing"
      BY <1>3, FieldsAre DEF SameBatch
    <2> HIDE DEF job
    <2>2. Batch(job, ledger)
      BY <1>3, <2>1, BatchStays DEF JobSound
    <2>3. job.at \in DOMAIN job.queue /\ job.command.kind # "suggest"
      BY <1>1, <1>3, <1>4, <2>1 DEF JobSound, Proposing, SameBatch
    <2>4. JobSound(p, job, ledger, kept, overlapped)
      BY <2>1, <2>2, <2>3 DEF JobSound, Exporting
    <2> QED BY <1>1, <1>6, <2>4, SameKeeps
  <1> QED BY <1>2, <1>5, <1>6

LEMMA FailuresKeep ==
  ASSUME Sound, Jobs, NEW p \in Procs, LockTimesOut(p) \/ StepFails(p)
  PROVE  Sound'
  <1>1. UNCHANGED <<files, kept, overlapped, ledger>> /\ Over(p, work[p], "failed")
    BY DEF LockTimesOut, StepFails, World
  <1> QED BY <1>1, FailKeeps

\* What an export or a guard that shows ids would write.
LEMMA PlanFrames ==
  ASSUME Sound, NEW ids \in SUBSET (DOMAIN ledger), NEW planned,
         planned = ReplaceManagedBlock(Read(MemoryFile), Block(ids)), planned # Malformed
  PROVE  \E before, after \in Seq(Lines) :
            /\ Frames(planned, before, BodyOf(ids, ledger), after)
            /\ before \o after = Outside(Read(MemoryFile))
  <1> DEFINE body == BodyOf(ids, ledger)
             content == Read(MemoryFile)
  <1>1. content \in Contents
    BY ContentHolds DEF Sound
  <1>2. body \in Seq(Lines)
    BY LedgerShowable, BodyIsLines DEF Sound
  <1>3. planned = ReplaceManagedBlock(content, Wrapped(body))
    BY BlockIs
  <1> HIDE DEF body, content
  <1>4. \E before, after \in Seq(Lines) :
           Frames(planned, before, body, after) /\ before \o after = Outside(content)
    BY <1>1, <1>2, <1>3, Replaced
  <1> QED BY <1>4 DEF body, content

LEMMA PlanKeeps ==
  ASSUME Sound, Jobs, NEW p \in Procs, PlanExport(p)
  PROVE  Sound'
  <1> DEFINE before == work[p]
             planned == Planned
             job == [before EXCEPT !.pc = "writing", !.plan = planned]
  <1>1. UNCHANGED <<files, kept, overlapped, ledger>>
        /\ (Over(p, before, "failed") \/ (planned # Malformed /\ Goes(p, job)))
    BY DEF PlanExport, World
  <1>2. CASE Over(p, before, "failed")
    BY <1>1, <1>2, FailKeeps
  <1>3. CASE planned # Malformed /\ Goes(p, job)
    <2>1. planned = ReplaceManagedBlock(Read(MemoryFile), Block(AcceptedIds))
      BY <1>3 DEF Planned
    <2>2. AcceptedIds \in SUBSET (DOMAIN ledger)
      BY DEF AcceptedIds
    <2> HIDE DEF planned
    <2>3. PICK above, below \in Seq(Lines) :
             /\ Frames(planned, above, BodyOf(AcceptedIds, ledger), below)
             /\ above \o below = Outside(Read(MemoryFile))
      BY <1>3, <2>1, <2>2, PlanFrames
    <2>4. BodyOf(AcceptedIds, ledger) \in Seq(Lines)
      BY <2>2, LedgerShowable, BodyIsLines DEF Sound
    <2>5. planned \in Contents /\ Outside(planned) = Outside(Read(MemoryFile))
      BY <2>3, <2>4, FrameKeepsOutside DEF Frames
    <2>6. ~overlapped => Outside(planned) = kept
      BY <2>5 DEF Sound, Kept
    <2>7. DOMAIN before = Fields /\ JobSound(p, before, ledger, kept, overlapped)
      BY DEF Jobs, Sound
    <2> HIDE DEF before
    <2>8. SameBatch(job, before) /\ job.pc = "writing" /\ job.plan = planned
      BY <2>7, FieldsAre DEF SameBatch
    <2> HIDE DEF job
    <2>9. Batch(job, ledger)
      BY <2>7, <2>8, BatchStays DEF JobSound
    <2>10. JobSound(p, job, ledger, kept, overlapped)
      BY <2>5, <2>6, <2>8, <2>9 DEF JobSound, Exporting, Proposing, Queued
    <2> QED BY <1>1, <1>3, <2>10, SameKeeps
  <1> QED BY <1>1, <1>2, <1>3

LEMMA LookKeeps ==
  ASSUME Sound, Jobs, NEW p \in Procs, ReadForGuard(p)
  PROVE  Sound'
  <1> DEFINE before == work[p]
             job == [before EXCEPT !.pc = "viewing", !.exported = AcceptedIds]
  <1>1. UNCHANGED <<files, kept, overlapped, ledger>>
        /\ (Over(p, before, "blocked") \/ Goes(p, job))
    BY DEF ReadForGuard, World
  <1>2. CASE Over(p, before, "blocked")
    BY <1>1, <1>2, FailKeeps
  <1>3. CASE Goes(p, job)
    <2>1. AcceptedIds \in SUBSET (DOMAIN ledger)
      BY DEF AcceptedIds
    <2>2. DOMAIN before = Fields /\ JobSound(p, before, ledger, kept, overlapped)
      BY DEF Jobs, Sound
    <2> HIDE DEF before
    <2>3. SameBatch(job, before) /\ job.pc = "viewing" /\ job.exported = AcceptedIds
      BY <2>2, FieldsAre DEF SameBatch
    <2> HIDE DEF job
    <2>4. Batch(job, ledger)
      BY <2>2, <2>3, BatchStays DEF JobSound
    <2>5. JobSound(p, job, ledger, kept, overlapped)
      BY <2>1, <2>3, <2>4 DEF JobSound, Exporting, Proposing, Queued
    <2> QED BY <1>1, <1>3, <2>5, SameKeeps
  <1> QED BY <1>1, <1>2, <1>3

LEMMA GuardPlans ==
  ASSUME Sound, Jobs, NEW p \in Procs, PlanGuard(p)
  PROVE  Sound'
  <1> DEFINE before == work[p]
             planned == ReplaceManagedBlock(Read(MemoryFile), Block(before.exported))
             job == [before EXCEPT !.pc = "comparing", !.plan = planned]
  <1>1. UNCHANGED <<files, kept, overlapped, ledger>> /\ before.pc = "viewing"
        /\ (Over(p, before, "blocked") \/ (planned # Malformed /\ Goes(p, job)))
    BY DEF PlanGuard, World
  <1>2. CASE Over(p, before, "blocked")
    BY <1>1, <1>2, FailKeeps
  <1>3. CASE planned # Malformed /\ Goes(p, job)
    <2>1. DOMAIN before = Fields /\ JobSound(p, before, ledger, kept, overlapped)
      BY DEF Jobs, Sound
    <2>2. before.exported \in SUBSET (DOMAIN ledger)
      BY <1>1, <2>1 DEF JobSound, Exporting
    <2>3. planned = ReplaceManagedBlock(Read(MemoryFile), Block(before.exported))
      OBVIOUS
    <2> HIDE DEF planned, before
    <2>4. \E above, below \in Seq(Lines) :
             Frames(planned, above, BodyOf(before.exported, ledger), below)
      BY <1>3, <2>2, <2>3, PlanFrames
    <2>5. SameBatch(job, before) /\ job.pc = "comparing" /\ job.plan = planned
          /\ job.exported = before.exported
      BY <2>1, FieldsAre DEF SameBatch
    <2> HIDE DEF job
    <2>6. Batch(job, ledger)
      BY <2>1, <2>5, BatchStays DEF JobSound
    <2>7. JobSound(p, job, ledger, kept, overlapped)
      BY <2>2, <2>4, <2>5, <2>6 DEF JobSound, Exporting, Proposing, Queued
    <2> QED BY <1>1, <1>3, <2>7, SameKeeps
  <1> QED BY <1>1, <1>2, <1>3

LEMMA CompareKeeps ==
  ASSUME Sound, Jobs, NEW p \in Procs, CompareGuard(p)
  PROVE  Sound'
  <1> DEFINE before == work[p]
             job == [before EXCEPT !.source = Read(MemoryFile)]
             end == IF files[MemoryFile] = Absent THEN "missing"
                    ELSE IF files[MemoryFile] = before.plan THEN "matches" ELSE "differs"
             told == Told(job)
             out == [end |-> end, work |-> told]
  <1>1. UNCHANGED <<files, kept, overlapped, ledger>> /\ before.pc = "comparing"
        /\ Over(p, job, end)
    BY DEF CompareGuard, World
  <1>2. DOMAIN before = Fields /\ JobSound(p, before, ledger, kept, overlapped)
        /\ LedgerSound(ledger)
    BY DEF Jobs, Sound
  <1>3. end \in {"missing", "matches", "differs"}
    OBVIOUS
  <1>4. end = "matches" => Read(MemoryFile) = before.plan
    BY DEF Read
  <1> HIDE DEF before, end
  <1>5. job.source = Read(MemoryFile) /\ job.exported = before.exported
    BY <1>2, FieldsAre
  <1> HIDE DEF job
  <1>6. told.source = Read(MemoryFile) /\ told.exported = before.exported
    BY <1>5, ToldIs DEF SameBatch
  <1>7. out.end = end /\ out.work = told
    OBVIOUS
  <1> HIDE DEF told, out
  <1>8. end = "matches" =>
           \E before_, after, body \in Seq(Lines) :
              Frames(told.source, before_, body, after) /\ body = BodyOf(told.exported, ledger)
    <2> SUFFICES ASSUME end = "matches"
                 PROVE  \E before_, after, body \in Seq(Lines) :
                           /\ Frames(told.source, before_, body, after)
                           /\ body = BodyOf(told.exported, ledger)
      OBVIOUS
    <2>1. before.exported \in SUBSET (DOMAIN ledger)
          /\ \E above, below \in Seq(Lines) :
                Frames(before.plan, above, BodyOf(before.exported, ledger), below)
      BY <1>1, <1>2 DEF JobSound, Exporting
    <2>2. BodyOf(before.exported, ledger) \in Seq(Lines)
      BY <1>2, <2>1, LedgerShowable, BodyIsLines
    <2> QED BY <1>4, <1>6, <2>1, <2>2
  <1>9. OutcomeSound(out, ledger)
    BY <1>3, <1>7, <1>8 DEF OutcomeSound
  <1>10. Grown(ledger, ledger') /\ LedgerSound(ledger') /\ OutcomeSound(out, ledger')
    BY <1>1, <1>2, <1>9, GrownSelf
  <1>11. OutcomeSound([end |-> end, work |-> Told(job)], ledger')
    BY <1>10 DEF out, told
  <1> QED BY <1>1, <1>10, <1>11, OverKeeps

-----------------------------------------------------------------------------
(* Reviews and users *)

LEMMA ReviewKeeps ==
  ASSUME Sound, Jobs, NEW id \in DOMAIN ledger, NEW status \in Statuses, ReviewRecord(id, status),
         \A i \in DOMAIN ledger : DOMAIN ledger[i] = RecordFields
  PROVE  Sound'
  <1> DEFINE record == [ledger[id] EXCEPT !.status = status]
  <1>1. /\ ledger' = [ledger EXCEPT ![id] = record] /\ outcome' = NoOutcome
        /\ UNCHANGED <<files, kept, overlapped, work>>
    BY DEF ReviewRecord
  <1>2. record.input = ledger[id].input /\ record.status = status
    BY DEF RecordFields
  <1> HIDE DEF record
  <1>3. LedgerSound(ledger)
    BY DEF Sound
  <1>4. DOMAIN ledger' = DOMAIN ledger
        /\ \A i \in DOMAIN ledger : ledger'[i].input = ledger[i].input
                                    /\ ledger'[i].status \in Statuses
    BY <1>1, <1>2, <1>3 DEF LedgerSound
  <1>5. Grown(ledger, ledger')
    BY <1>4 DEF Grown
  <1>6. LedgerSound(ledger')
    <2>1. PICK S : ledger \in Seq(S)
      BY <1>3 DEF LedgerSound
    <2>2. ledger' \in Seq(S \cup {record})
      BY <1>1, <2>1
    <2>3. \A i \in DOMAIN ledger' :
             /\ Proper(ledger'[i].input) /\ ~Unsafe(ledger'[i].input)
             /\ ledger'[i].status \in Statuses /\ Links(ledger'[i].input) \subseteq 1 .. i - 1
      BY <1>3, <1>4 DEF LedgerSound
    <2> QED BY <2>2, <2>3 DEF LedgerSound
  <1>7. \A p \in Procs : JobSound(p, work'[p], ledger', kept', overlapped')
    <2> SUFFICES ASSUME NEW p \in Procs
                 PROVE  JobSound(p, work'[p], ledger', kept', overlapped')
      OBVIOUS
    <2>1. JobSound(p, work[p], ledger, kept, overlapped)
      BY DEF Sound
    <2>2. JobSound(p, work[p], ledger', kept, overlapped)
      BY <1>3, <1>5, <2>1, SoundGrows
    <2> QED BY <1>1, <2>2
  <1>8. OutcomeSound(outcome', ledger')
    BY <1>1, NoOutcomeSound
  <1>9. FilesHold' /\ Kept'
    BY <1>1 DEF Sound, FilesHold, Kept, Read
  <1> QED BY <1>6, <1>7, <1>8, <1>9 DEF Sound

LEMMA NotedAlike ==
  ASSUME Jobs, NEW file, NEW content, NEW p \in Procs
  PROVE  /\ SameBatch(Noted(file, content)[p], work[p])
         /\ Noted(file, content)[p].pc = work[p].pc
         /\ Noted(file, content)[p].plan = work[p].plan
         /\ Noted(file, content)[p].exported = work[p].exported
  <1> DEFINE job == work[p]
             noted == Noted(file, content)[p]
  <1>1. noted = IF job.contents # {} /\ Input(p).source = file
                THEN [job EXCEPT !.contents = @ \cup {content}, !.steady = FALSE]
                ELSE [job EXCEPT !.steady = AtRest(p)]
    BY DEF Noted
  <1>2. DOMAIN job = Fields
    BY DEF Jobs
  <1> HIDE DEF job, noted
  <1>3. /\ SameBatch(noted, job) /\ noted.pc = job.pc
        /\ noted.plan = job.plan /\ noted.exported = job.exported
    <2>1. CASE job.contents # {} /\ Input(p).source = file
      BY <1>1, <1>2, <2>1, FieldsAre DEF SameBatch
    <2>2. CASE ~(job.contents # {} /\ Input(p).source = file)
      BY <1>1, <1>2, <2>2, FieldsAre DEF SameBatch
    <2> QED BY <2>1, <2>2
  <1> QED BY <1>3 DEF job, noted

LEMMA WriteKeeps ==
  ASSUME Sound, Jobs, NEW p \in Procs, WriteExport(p)
  PROVE  Sound'
  <1> DEFINE plan == work[p].plan
             noted == Noted(MemoryFile, plan)
  <1>1. /\ files' = [files EXCEPT ![MemoryFile] = plan]
        /\ work' = [noted EXCEPT ![p] = NoWork] /\ outcome' = NoOutcome
        /\ UNCHANGED <<kept, overlapped, ledger>> /\ work[p].pc = "writing"
    BY DEF WriteExport
  <1>2. plan \in Contents /\ (~overlapped => Outside(plan) = kept)
    BY <1>1 DEF Sound, JobSound, Exporting
  <1> HIDE DEF plan
  <1>3. FilesHold' /\ files'[MemoryFile] = plan
    BY <1>1, <1>2, TextAssumption DEF Sound, FilesHold, TextAssumption
  <1>4. Kept'
    BY <1>1, <1>2, <1>3, MarkersApart DEF Kept, Read
  <1>5. ASSUME NEW q \in Procs
        PROVE  JobSound(q, work'[q], ledger', kept', overlapped')
    <2>1. DOMAIN noted = Procs
      BY DEF Noted
    <2>2. /\ SameBatch(noted[q], work[q]) /\ noted[q].pc = work[q].pc
          /\ noted[q].plan = work[q].plan /\ noted[q].exported = work[q].exported
      BY NotedAlike
    <2> HIDE DEF noted
    <2>3. work'[q] = NoWork \/ work'[q] = noted[q]
      BY <1>1, <2>1
    <2>4. JobSound(q, work[q], ledger, kept, overlapped)
      BY DEF Sound
    <2>5. JobSound(q, noted[q], ledger, kept, overlapped)
      BY <2>2, <2>4, AlikeSound
    <2> QED BY <1>1, <2>3, <2>5, NoWorkSound
  <1>6. OutcomeSound(outcome', ledger')
    BY <1>1, NoOutcomeSound
  <1>7. LedgerSound(ledger')
    BY <1>1 DEF Sound
  <1> QED BY <1>3, <1>4, <1>5, <1>6, <1>7 DEF Sound

\* While users save the memory file, an export that is at it is noted as overlapped, so
\* that what it is about to write need not hold their lines.
LEMMA SaveKeeps ==
  ASSUME Sound, Jobs, NEW file \in {MemoryFile, Chat}, NEW content, Save(file, content),
         content # Absent => content \in Contents,
         file = Chat /\ content # Absent => content \in Seq(Lines)
  PROVE  Sound'
  <1> DEFINE noted == Noted(file, content)
  <1>1. /\ files' = [files EXCEPT ![file] = content] /\ work' = noted
        /\ outcome' = NoOutcome /\ UNCHANGED ledger
    BY DEF Save
  <1>2. IF file = MemoryFile
        THEN /\ kept' = IF content = Absent THEN <<>> ELSE Outside(content)
             /\ overlapped' = (overlapped \/ \E p \in Procs : work[p].pc = "writing")
        ELSE UNCHANGED <<kept, overlapped>>
    BY DEF Save
  <1>3. FilesHold' /\ files'[file] = content
        /\ (file # MemoryFile => files'[MemoryFile] = files[MemoryFile])
    BY <1>1, TextAssumption DEF Sound, FilesHold, TextAssumption
  <1>4. Outside(<<>>) = <<>>
    <2>1. NoBlock(<<>>) /\ <<>> \in Contents
      BY DEF NoBlock, Places, Contents
    <2> QED BY <2>1, NoBlockIsLines
  <1>5. Kept'
    <2>1. CASE file = MemoryFile
      BY <1>2, <1>3, <1>4, <2>1 DEF Kept, Read
    <2>2. CASE file # MemoryFile
      BY <1>2, <1>3, <2>2 DEF Sound, Kept, Read
    <2> QED BY <2>1, <2>2
  <1>6. ASSUME NEW q \in Procs
        PROVE  JobSound(q, work'[q], ledger', kept', overlapped')
    <2>1. /\ SameBatch(noted[q], work[q]) /\ noted[q].pc = work[q].pc
          /\ noted[q].plan = work[q].plan /\ noted[q].exported = work[q].exported
      BY NotedAlike
    <2> HIDE DEF noted
    <2>2. JobSound(q, work[q], ledger, kept, overlapped)
      BY DEF Sound
    <2>3. JobSound(q, noted[q], ledger, kept, overlapped)
      BY <2>1, <2>2, AlikeSound
    <2>4. CASE work[q].pc = "writing" /\ file = MemoryFile
      <3>1. overlapped'
        BY <1>2, <2>4
      <3> QED BY <1>1, <2>3, <3>1 DEF JobSound, Exporting
    <2>5. CASE work[q].pc # "writing"
      BY <1>1, <2>1, <2>3, <2>5 DEF JobSound, Exporting
    <2>6. CASE file # MemoryFile
      BY <1>1, <1>2, <2>3, <2>6
    <2> QED BY <2>4, <2>5, <2>6
  <1>7. OutcomeSound(outcome', ledger')
    BY <1>1, NoOutcomeSound
  <1>8. LedgerSound(ledger')
    BY <1>1 DEF Sound
  <1> QED BY <1>3, <1>5, <1>6, <1>7, <1>8 DEF Sound

LEMMA CutKeeps ==
  ASSUME Sound, Jobs, NEW marker, CutMarker(marker)
  PROVE  Sound'
  <1> DEFINE content == files[MemoryFile]
  <1>1. content # Absent
        /\ \E i \in Places(content, marker) : Save(MemoryFile, RemoveAt(content, i))
    BY DEF CutMarker
  <1>2. content \in Seq(Lines \cup Markers)
    BY <1>1 DEF Sound, FilesHold, Contents
  <1> HIDE DEF content
  <1>3. PICK i \in DOMAIN content : Save(MemoryFile, RemoveAt(content, i))
    BY <1>1 DEF Places
  <1>4. RemoveAt(content, i) \in Contents
    BY <1>2 DEF RemoveAt, Contents
  <1>5. MemoryFile # Chat
    BY TextAssumption DEF TextAssumption
  <1> QED BY <1>3, <1>4, <1>5, SaveKeeps

LEMMA EditKeeps ==
  ASSUME Sound, Jobs, NEW file, EditPolicy(file)
  PROVE  Sound'
  <1>1. /\ UNCHANGED <<files, kept, overlapped, ledger>> /\ outcome' = NoOutcome
        /\ work' = [p \in Procs |->
                      [work[p] EXCEPT !.steady = AtRest(p),
                                      !.policies = IF @ = {} THEN {} ELSE @ \cup {file}]]
    BY DEF EditPolicy
  <1>2. ASSUME NEW q \in Procs
        PROVE  JobSound(q, work'[q], ledger', kept', overlapped')
    <2> DEFINE job == work[q]
               edited == [job EXCEPT !.steady = AtRest(q),
                                     !.policies = IF @ = {} THEN {} ELSE @ \cup {file}]
    <2>1. work'[q] = edited
      BY <1>1
    <2>2. DOMAIN job = Fields /\ JobSound(q, job, ledger, kept, overlapped)
      BY DEF Jobs, Sound
    <2> HIDE DEF job
    <2>3. /\ SameBatch(edited, job) /\ edited.pc = job.pc
          /\ edited.plan = job.plan /\ edited.exported = job.exported
      BY <2>2, FieldsAre DEF SameBatch
    <2> HIDE DEF edited
    <2>4. JobSound(q, edited, ledger, kept, overlapped)
      BY <2>2, <2>3, AlikeSound
    <2> QED BY <1>1, <2>1, <2>4
  <1>3. OutcomeSound(outcome', ledger')
    BY <1>1, NoOutcomeSound
  <1>4. LedgerSound(ledger') /\ FilesHold' /\ Kept'
    BY <1>1 DEF Sound, FilesHold, Kept, Read
  <1> QED BY <1>2, <1>3, <1>4 DEF Sound

-----------------------------------------------------------------------------
(* Batches, the users' lines, and what a guard saw *)

LEMMA InitSound == ProposalsInit => Sound
  <1> SUFFICES ASSUME ProposalsInit PROVE Sound
    OBVIOUS
  <1>1. /\ ledger = <<>> /\ work = [p \in Procs |-> NoWork] /\ outcome = NoOutcome
    BY DEF ProposalsInit
  <1>2. PICK save \in Saves :
           /\ save[1] = MemoryFile /\ save[2] # Absent /\ NoBlock(save[2])
           /\ files = [f \in {MemoryFile, Chat} |->
                          IF f = MemoryFile THEN save[2]
                          ELSE (CHOOSE s \in Saves : s[1] = Chat /\ s[2] # Absent)[2]]
           /\ kept = save[2]
    BY DEF ProposalsInit
  <1> DEFINE talk == CHOOSE s \in Saves : s[1] = Chat /\ s[2] # Absent
  <1>3. talk \in Saves /\ talk[1] = Chat /\ talk[2] # Absent
    BY TextAssumption DEF TextAssumption
  <1>4. /\ DOMAIN files = {MemoryFile, Chat} /\ files[MemoryFile] = save[2]
        /\ files[Chat] = talk[2]
    BY <1>2, TextAssumption DEF TextAssumption
  <1> HIDE DEF talk
  <1>5. save[2] \in Contents /\ talk[2] \in Seq(Lines)
    BY <1>2, <1>3, TextAssumption DEF TextAssumption
  <1>6. FilesHold
    BY <1>4, <1>5 DEF FilesHold
  <1>7. Kept
    <2>1. Read(MemoryFile) = save[2]
      BY <1>2, <1>4 DEF Read
    <2>2. Outside(save[2]) = save[2]
      BY <1>2, <1>5, NoBlockIsLines
    <2> QED BY <1>2, <2>1, <2>2 DEF Kept
  <1>8. LedgerSound(ledger)
    <2>1. <<>> \in Seq({}) /\ DOMAIN <<>> = {}
      OBVIOUS
    <2> QED BY <1>1, <2>1 DEF LedgerSound
  <1>9. OutcomeSound(outcome, ledger)
    BY <1>1, NoOutcomeSound
  <1>10. \A p \in Procs : JobSound(p, work[p], ledger, kept, overlapped)
    BY <1>1, NoWorkSound
  <1> QED BY <1>6, <1>7, <1>8, <1>9, <1>10 DEF Sound

LEMMA StepSound ==
  ASSUME Sound, IInv, [ProposalsNext]_proposalVars
  PROVE  Sound'
  <1>1. Jobs /\ \A i \in DOMAIN ledger : DOMAIN ledger[i] = RecordFields
    BY DEF IInv, Ledgered
  <1>2. ASSUME NEW p \in Procs, CommandStep(p) PROVE Sound'
    <2>1. CASE Suggest(p)
      BY <1>1, <2>1, SuggestKeeps
    <2>2. CASE LoadPolicy(p)
      BY <1>1, <2>2, LoadKeeps
    <2>3. CASE EnterStore(p)
      BY <1>1, <2>3, EnterKeeps
    <2>4. CASE LockTimesOut(p) \/ StepFails(p)
      BY <1>1, <2>4, FailuresKeep
    <2>5. CASE VerifySource(p)
      BY <1>1, <2>5, VerifyKeeps
    <2>6. CASE Persist(p)
      BY <1>1, <2>6, PersistKeeps
    <2>7. CASE LoadPreviewPolicy(p) \/ Preview(p)
      BY <1>1, <2>7, PreviewsKeep
    <2>8. CASE PlanExport(p)
      BY <1>1, <2>8, PlanKeeps
    <2>9. CASE WriteExport(p)
      BY <1>1, <2>9, WriteKeeps
    <2>10. CASE ReadForGuard(p)
      BY <1>1, <2>10, LookKeeps
    <2>11. CASE PlanGuard(p)
      BY <1>1, <2>11, GuardPlans
    <2>12. CASE CompareGuard(p)
      BY <1>1, <2>12, CompareKeeps
    <2> QED BY <1>2, <2>1, <2>2, <2>3, <2>4, <2>5, <2>6, <2>7, <2>8, <2>9, <2>10, <2>11, <2>12
            DEF CommandStep
  <1>3. ASSUME NEW p \in Procs, NEW command \in Commands[p], Begin(p, command) PROVE Sound'
    BY <1>1, <1>3, BeginKeeps
  <1>4. ASSUME NEW id \in DOMAIN ledger, NEW status \in {"accepted", "rejected", "retired"},
               ReviewRecord(id, status)
        PROVE  Sound'
    <2>1. status \in Statuses
      BY DEF Statuses
    <2> QED BY <1>1, <1>4, <2>1, ReviewKeeps
  <1>5. ASSUME NEW save \in Saves, Save(save[1], save[2]) PROVE Sound'
    <2>1. /\ save[1] \in {MemoryFile, Chat}
          /\ save[2] # Absent => save[2] \in Contents
          /\ save[1] = Chat /\ save[2] # Absent => save[2] \in Seq(Lines)
      BY TextAssumption DEF TextAssumption
    <2> QED BY <1>1, <1>5, <2>1, SaveKeeps
  <1>6. ASSUME NEW marker, CutMarker(marker) PROVE Sound'
    BY <1>1, <1>6, CutKeeps
  <1>7. ASSUME NEW file, EditPolicy(file) PROVE Sound'
    BY <1>1, <1>7, EditKeeps
  <1>8. CASE UNCHANGED proposalVars
    BY <1>8 DEF proposalVars, Sound, FilesHold, Kept, Read
  <1> QED BY <1>2, <1>3, <1>4, <1>5, <1>6, <1>7, <1>8 DEF ProposalsNext

LEMMA SoundInvariant == ProposalsSpec => []Sound
  <1> QED BY InitHolds, StepHolds, InitSound, StepSound, PTL DEF ProposalsSpec

\* Whatever is proposed in batches, by whomever and however often: each of a batch is
\* recorded or blocked once, what is recorded is in the ledger as it was proposed, no
\* record holds a secret, and a batch from the memory file shows nothing of the managed
\* block (BatchIsAccounted).
THEOREM BatchesAccounted == ProposalsSpec => []BatchIsAccounted
  <1>1. Sound => BatchIsAccounted
    <2> SUFFICES ASSUME Sound PROVE BatchIsAccounted
      OBVIOUS
    <2> DEFINE job == outcome.work
    <2>1. \A i \in DOMAIN ledger : ~Unsafe(ledger[i].input)
      BY DEF Sound, LedgerSound
    <2>2. ASSUME outcome.end \in {"done", "failed"}, job.command.kind = "suggest"
          PROVE  /\ Batch(job, ledger)
                 /\ outcome.end = "done" /\ job.command.propose =>
                       job.at = Len(job.queue) + 1 \/ job.queue = <<>>
      BY <2>2 DEF Sound, OutcomeSound
    <2> DEFINE recorded == {job.records[k].at : k \in DOMAIN job.records}
    <2>3. recorded = Recorded(job)
      BY DEF Recorded
    <2> HIDE DEF job, recorded
    <2>4. ASSUME outcome.end \in {"done", "failed"}, job.command.kind = "suggest"
          PROVE  /\ recorded \cup job.blocked = 1 .. job.at - 1
                 /\ recorded \cap job.blocked = {}
                 /\ \A i \in job.blocked : Unsafe(job.queue[i])
      BY <2>2, <2>3, <2>4 DEF Batch, Accounted
    <2>5. ASSUME outcome.end \in {"done", "failed"}, job.command.kind = "suggest"
          PROVE  \A k \in DOMAIN job.records :
                    ledger[job.records[k].id].input = job.queue[job.records[k].at]
      BY <2>2, <2>5 DEF Batch, Reported
    <2>6. ASSUME outcome.end \in {"done", "failed"}, job.command.kind = "suggest",
                 job.command.from = "memory file", WellFormed(job.source),
                 NEW i \in DOMAIN job.queue
          PROVE  \E k \in DOMAIN job.source :
                    job.source[k] = job.queue[i].quote /\ k \notin BlockAt(job.source)
      <3>1. PICK S : job.queue \in Seq(S)
                     /\ \A x \in S : Suitable(x, job.command, job.source)
        BY <2>2, <2>6 DEF Batch, QueueSuits
      <3>2. job.queue[i] \in S
        BY <3>1, Elements
      <3> QED BY <2>6, <3>1, <3>2 DEF Suitable
    <2> QED BY <2>1, <2>2, <2>4, <2>5, <2>6 DEF BatchIsAccounted, job, recorded
  <1> QED BY <1>1, SoundInvariant, PTL

\* For any files, exports and saves, in any order: the lines beside the managed block are
\* those that the users saved, unless they saved between the read and the write of an
\* export (UserTextIsKept).
THEOREM UserTextStays == ProposalsSpec => []UserTextIsKept
  <1>1. Sound => UserTextIsKept
    BY DEF Sound, Kept, UserTextIsKept
  <1> QED BY <1>1, SoundInvariant, PTL

\* For any exports and saves between the looks of a guard: one that finds a match has seen
\* a block that shows what was accepted when it looked at the ledger (GuardSawTheBlock).
THEOREM GuardSaw == ProposalsSpec => []GuardSawTheBlock
  <1>1. Sound => GuardSawTheBlock
    <2> SUFFICES ASSUME Sound, outcome.end = "matches"
                 PROVE  /\ WellFormed(outcome.work.source)
                        /\ [k \in 1 .. Cardinality(BlockAt(outcome.work.source)) |->
                              outcome.work.source[Position(outcome.work.source, Start) + k - 1]]
                           = Block(outcome.work.exported)
      BY DEF GuardSawTheBlock
    <2> DEFINE job == outcome.work
    <2>1. PICK before, after, body \in Seq(Lines) :
             Frames(job.source, before, body, after) /\ body = BodyOf(job.exported, ledger)
      BY DEF Sound, OutcomeSound
    <2>2. Block(job.exported) = Wrapped(body)
      BY <2>1, BlockIs
    <2> HIDE DEF job
    <2>3. WellFormed(job.source)
      BY <2>1, FrameHasBlock
    <2>4. [k \in 1 .. Cardinality(BlockAt(job.source)) |->
              job.source[Position(job.source, Start) + k - 1]] = Wrapped(body)
      BY <2>1, FrameShowsBody
    <2> QED BY <2>2, <2>3, <2>4 DEF job
  <1> QED BY <1>1, SoundInvariant, PTL

-----------------------------------------------------------------------------
(* The lock and the counters *)

Inside == {"verifying", "deciding", "planning", "writing"}

Locked ==
    /\ holder \in Procs \cup {Nobody}
    /\ \A p \in Procs : holder = p <=> work[p].pc \in Inside

\* A step of p, which stays on its side of the lock, takes it, or gives it back.
Crosses(p, pc) ==
    \/ holder' = holder /\ (work[p].pc \in Inside <=> pc \in Inside)
    \/ holder = Nobody /\ holder' = p /\ pc \in Inside
    \/ work[p].pc \in Inside /\ holder' = Nobody /\ pc \notin Inside

LEMMA LockStays ==
  ASSUME Jobs, Locked, NEW p \in Procs, NEW job, work' = [work EXCEPT ![p] = job],
         Crosses(p, job.pc)
  PROVE  Locked'
  <1>1. Nobody \notin Procs
    BY ProposalsAssumption DEF ProposalsAssumption
  <1>2. work'[p] = job /\ \A q \in Procs : q # p => work'[q] = work[q]
    BY DEF Jobs
  <1>3. \A q \in Procs : holder = q <=> work[q].pc \in Inside
    BY DEF Locked
  <1>4. holder' \in Procs \cup {Nobody}
    BY DEF Locked, Crosses
  <1>5. ASSUME NEW q \in Procs
        PROVE  holder' = q <=> work'[q].pc \in Inside
    <2> HIDE DEF Inside
    <2>1. CASE q = p
      BY <1>1, <1>2, <1>3, <2>1 DEF Crosses
    <2>2. CASE q # p
      BY <1>1, <1>2, <1>3, <2>2 DEF Crosses
    <2> QED BY <2>1, <2>2
  <1> QED BY <1>4, <1>5 DEF Locked

LEMMA OverUnlocks ==
  ASSUME Jobs, Locked, NEW p \in Procs, NEW job, NEW end, Over(p, job, end),
         \/ holder' = holder /\ work[p].pc \notin Inside
         \/ holder' = Nobody /\ work[p].pc \in Inside
  PROVE  Locked'
  <1>1. work' = [work EXCEPT ![p] = NoWork] /\ NoWork.pc = "idle"
    BY NoWorkHolds DEF Over
  <1>2. Crosses(p, NoWork.pc)
    BY <1>1 DEF Crosses, Inside
  <1> QED BY <1>1, <1>2, LockStays

LEMMA GoesLocked ==
  ASSUME Jobs, Locked, NEW p \in Procs, NEW job, Goes(p, job), Crosses(p, job.pc)
  PROVE  Locked'
  BY LockStays DEF Goes

LEMMA TakenUnlocked ==
  ASSUME Jobs, Locked, NEW p \in Procs, NEW job, Goes(p, Taken(job)), DOMAIN job = Fields,
         job.pc \in {"proposing", "previewing"},
         \/ holder' = holder /\ work[p].pc \notin Inside
         \/ holder' = Nobody /\ work[p].pc \in Inside
  PROVE  Locked'
  <1>1. Taken(job).pc = job.pc
    BY TakenKeeps DEF TakenFields
  <1>2. Crosses(p, Taken(job).pc)
    BY <1>1 DEF Crosses, Inside
  <1> QED BY <1>2, GoesLocked

LEMMA NextUnlocked ==
  ASSUME Jobs, Locked, NEW p \in Procs, NEW job, NextProposal(p, job), DOMAIN job = Fields,
         \/ holder' = holder /\ work[p].pc \notin Inside
         \/ holder' = Nobody /\ work[p].pc \in Inside
  PROVE  Locked'
  <1> DEFINE next == [job EXCEPT !.at = @ + 1]
             going == [next EXCEPT !.pc = "proposing"]
  <1>1. Over(p, next, "done") \/ Goes(p, Taken(going))
    BY DEF NextProposal
  <1>2. DOMAIN going = Fields /\ going.pc = "proposing"
    BY FieldsAre
  <1> HIDE DEF next, going
  <1> QED BY <1>1, <1>2, OverUnlocks, TakenUnlocked

LEMMA OutsideSteps ==
  ASSUME Jobs, Locked, NEW p \in Procs,
         \/ \E command \in Commands[p] : Begin(p, command)
         \/ Suggest(p) \/ LoadPolicy(p) \/ LockTimesOut(p) \/ LoadPreviewPolicy(p)
         \/ Preview(p) \/ ReadForGuard(p) \/ PlanGuard(p) \/ CompareGuard(p)
  PROVE  Locked'
  <1>1. holder' = holder
    BY DEF Begin, Suggest, LoadPolicy, LockTimesOut, LoadPreviewPolicy, Preview, ReadForGuard,
           PlanGuard, CompareGuard
  <1>2. work[p].pc \notin Inside
    <2>1. CASE \E command \in Commands[p] : Begin(p, command)
      BY <2>1 DEF Begin, AtRest, Inside
    <2>2. CASE \/ Suggest(p) \/ LoadPolicy(p) \/ LockTimesOut(p) \/ LoadPreviewPolicy(p)
               \/ Preview(p) \/ ReadForGuard(p) \/ PlanGuard(p) \/ CompareGuard(p)
      BY <2>2 DEF Suggest, LoadPolicy, LockTimesOut, LoadPreviewPolicy, Preview, ReadForGuard,
                  PlanGuard, CompareGuard, Inside
    <2> QED BY <2>1, <2>2
  <1>3. DOMAIN work[p] = Fields /\ DOMAIN NoWork = Fields
    BY DEF Jobs, Fields
  <1>4. ASSUME NEW job, NEW end, Over(p, job, end) PROVE Locked'
    BY <1>1, <1>2, <1>4, OverUnlocks
  <1>5. ASSUME NEW job, Goes(p, job), job.pc \notin Inside PROVE Locked'
    BY <1>1, <1>2, <1>5, GoesLocked DEF Crosses
  <1>6. ASSUME NEW job, Goes(p, Taken(job)), DOMAIN job = Fields,
               job.pc \in {"proposing", "previewing"}
        PROVE  Locked'
    BY <1>1, <1>2, <1>6, TakenUnlocked
  <1>7. ASSUME NEW command \in Commands[p], Begin(p, command) PROVE Locked'
    <2> DEFINE job == [NoWork EXCEPT !.command = command]
               proposing == [job EXCEPT !.queue = <<command.input>>,
                                        !.pc = IF command.kind = "propose" THEN "proposing"
                                               ELSE "previewing"]
               going(pc) == [job EXCEPT !.pc = pc]
    <2>1. \/ Goes(p, Taken(proposing)) \/ Goes(p, going("suggesting"))
          \/ Goes(p, going("waiting")) \/ Goes(p, going("guarding"))
      <3>1. command.kind \in {"propose", "preview", "suggest", "export", "guard"}
        BY ProposalsAssumption DEF ProposalsAssumption
      <3>2. CASE command.kind \in {"propose", "preview"}
        BY <1>7, <3>2 DEF Begin
      <3>3. CASE command.kind = "suggest"
        BY <1>7, <3>3 DEF Begin
      <3>4. CASE command.kind = "export"
        BY <1>7, <3>4 DEF Begin
      <3>5. CASE command.kind = "guard"
        BY <1>7, <3>5 DEF Begin
      <3> QED BY <3>1, <3>2, <3>3, <3>4, <3>5
    <2>2. DOMAIN proposing = Fields /\ proposing.pc \in {"proposing", "previewing"}
      BY <1>3, FieldsAre
    <2>3. \A pc : going(pc).pc = pc
      BY <1>3, FieldsAre
    <2> HIDE DEF job, proposing, going
    <2>4. /\ going("suggesting").pc \notin Inside /\ going("waiting").pc \notin Inside
          /\ going("guarding").pc \notin Inside
      BY <2>3 DEF Inside
    <2> QED BY <1>5, <1>6, <2>1, <2>2, <2>4
  <1>8. ASSUME Suggest(p) PROVE Locked'
    <2> DEFINE job(found) ==
                  [work[p] EXCEPT !.queue = Limited(Deduplicated(found),
                                                    work[p].command.options.limit),
                                  !.source = Read(MemoryFile)]
               going(found) == [job(found) EXCEPT !.pc = "proposing"]
    <2>1. \/ Over(p, work[p], "failed")
          \/ \E found : Over(p, job(found), "done") \/ Goes(p, Taken(going(found)))
      BY <1>8 DEF Suggest
    <2>2. \A found : DOMAIN going(found) = Fields /\ going(found).pc = "proposing"
      BY <1>3, FieldsAre
    <2> HIDE DEF job, going
    <2> QED BY <1>4, <1>6, <2>1, <2>2
  <1>9. ASSUME LoadPolicy(p) PROVE Locked'
    <2> DEFINE blocked == [work[p] EXCEPT !.blocked = @ \cup {work[p].at}]
               job == [work[p] EXCEPT !.pc = "waiting", !.config = LoadedPolicy(policy)]
    <2>1. \/ Over(p, work[p], "failed") \/ NextProposal(p, blocked) \/ Goes(p, job)
      BY <1>9 DEF LoadPolicy, BlockProposal
    <2>2. DOMAIN blocked = Fields /\ job.pc = "waiting"
      BY <1>3, FieldsAre
    <2> HIDE DEF blocked, job
    <2>3. job.pc \notin Inside
      BY <2>2 DEF Inside
    <2> QED BY <1>1, <1>2, <1>4, <1>5, <2>1, <2>2, <2>3, NextUnlocked
  <1>10. ASSUME LoadPreviewPolicy(p) PROVE Locked'
    <2> DEFINE job == [work[p] EXCEPT !.pc = "foreseeing", !.config = LoadedPolicy(policy)]
    <2>1. Over(p, work[p], "failed") \/ Goes(p, job)
      BY <1>10 DEF LoadPreviewPolicy
    <2>2. job.pc \notin Inside
      BY <1>3, FieldsAre DEF Inside
    <2> HIDE DEF job
    <2> QED BY <1>4, <1>5, <2>1, <2>2
  <1>11. ASSUME ReadForGuard(p) PROVE Locked'
    <2> DEFINE job == [work[p] EXCEPT !.pc = "viewing", !.exported = AcceptedIds]
    <2>1. Over(p, work[p], "blocked") \/ Goes(p, job)
      BY <1>11 DEF ReadForGuard
    <2>2. job.pc \notin Inside
      BY <1>3, FieldsAre DEF Inside
    <2> HIDE DEF job
    <2> QED BY <1>4, <1>5, <2>1, <2>2
  <1>12. ASSUME PlanGuard(p) PROVE Locked'
    <2> DEFINE job == [work[p] EXCEPT !.pc = "comparing",
                                      !.plan = ReplaceManagedBlock(Read(MemoryFile),
                                                   Block(work[p].exported))]
    <2>1. Over(p, work[p], "blocked") \/ Goes(p, job)
      BY <1>12 DEF PlanGuard
    <2>2. job.pc \notin Inside
      BY <1>3, FieldsAre DEF Inside
    <2> HIDE DEF job
    <2> QED BY <1>4, <1>5, <2>1, <2>2
  <1>13. CASE LockTimesOut(p) \/ Preview(p) \/ CompareGuard(p)
    <2>1. \E job, end : Over(p, job, end)
      BY <1>13 DEF LockTimesOut, Preview, CompareGuard
    <2> QED BY <1>4, <2>1
  <1> QED BY <1>7, <1>8, <1>9, <1>10, <1>11, <1>12, <1>13

LEMMA InsideSteps ==
  ASSUME Jobs, Locked, NEW p \in Procs,
         EnterStore(p) \/ VerifySource(p) \/ Persist(p) \/ PlanExport(p) \/ StepFails(p)
  PROVE  Locked'
  <1>1. DOMAIN work[p] = Fields
    BY DEF Jobs
  <1>2. CASE EnterStore(p)
    <2> DEFINE job == [work[p] EXCEPT !.pc = IF work[p].command.kind = "export"
                                             THEN "planning" ELSE "verifying"]
    <2>1. Goes(p, job) /\ holder = Nobody /\ holder' = p
      BY <1>2 DEF EnterStore
    <2>2. job.pc \in Inside
      BY <1>1, FieldsAre DEF Inside
    <2> HIDE DEF job
    <2> QED BY <2>1, <2>2, GoesLocked DEF Crosses
  <1>3. CASE VerifySource(p)
    <2> DEFINE job == [work[p] EXCEPT !.pc = "deciding",
                          !.verification = Verification(Input(p), SourceContent(Input(p)))]
    <2>1. /\ work[p].pc = "verifying"
          /\ \/ holder' = Nobody /\ Over(p, work[p], "failed")
             \/ holder' = holder /\ Goes(p, job)
      BY <1>3 DEF VerifySource
    <2>2. job.pc = "deciding"
      BY <1>1, FieldsAre
    <2> HIDE DEF job
    <2>3. work[p].pc \in Inside /\ job.pc \in Inside
      BY <2>1, <2>2 DEF Inside
    <2> QED BY <2>1, <2>3, GoesLocked, OverUnlocks DEF Crosses
  <1>4. CASE Persist(p)
    <2> DEFINE blocked == [work[p] EXCEPT !.blocked = @ \cup {work[p].at}]
               listed == [work[p] EXCEPT
                            !.records = Append(@, [at |-> work[p].at, id |-> Len(ledger) + 1])]
    <2>1. /\ work[p].pc = "deciding" /\ holder' = Nobody
          /\ NextProposal(p, blocked) \/ NextProposal(p, listed)
      BY <1>4 DEF Persist, BlockProposal
    <2>2. DOMAIN blocked = Fields /\ DOMAIN listed = Fields
      BY <1>1, FieldsAre
    <2> HIDE DEF blocked, listed
    <2>3. work[p].pc \in Inside
      BY <2>1 DEF Inside
    <2> QED BY <2>1, <2>2, <2>3, NextUnlocked
  <1>5. CASE PlanExport(p)
    <2> DEFINE job == [work[p] EXCEPT !.pc = "writing", !.plan = Planned]
    <2>1. /\ work[p].pc = "planning"
          /\ \/ holder' = Nobody /\ Over(p, work[p], "failed")
             \/ holder' = holder /\ Goes(p, job)
      BY <1>5 DEF PlanExport
    <2>2. job.pc = "writing"
      BY <1>1, FieldsAre
    <2> HIDE DEF job
    <2>3. work[p].pc \in Inside /\ job.pc \in Inside
      BY <2>1, <2>2 DEF Inside
    <2> QED BY <2>1, <2>3, GoesLocked, OverUnlocks DEF Crosses
  <1>6. CASE StepFails(p)
    <2>1. Over(p, work[p], "failed") /\ holder' = IF holder = p THEN Nobody ELSE holder
      BY <1>6 DEF StepFails
    <2>2. holder = p <=> work[p].pc \in Inside
      BY DEF Locked
    <2> QED BY <2>1, <2>2, OverUnlocks
  <1> QED BY <1>2, <1>3, <1>4, <1>5, <1>6

\* Users, and an export that writes.
LEMMA UserSteps ==
  ASSUME Jobs, Locked,
         \/ \E p \in Procs : WriteExport(p)
         \/ \E file, content : Save(file, content)
         \/ \E marker : CutMarker(marker)
         \/ \E file : EditPolicy(file)
         \/ \E id, status : ReviewRecord(id, status)
  PROVE  Locked'
  <1>1. CASE \E p \in Procs : WriteExport(p)
    <2>1. PICK p \in Procs : WriteExport(p)
      BY <1>1
    <2> DEFINE noted == Noted(MemoryFile, work[p].plan)
    <2>2. work' = [noted EXCEPT ![p] = NoWork] /\ holder' = Nobody /\ work[p].pc = "writing"
      BY <2>1 DEF WriteExport
    <2>3. DOMAIN noted = Procs /\ \A q \in Procs : noted[q].pc = work[q].pc
      <3>1. DOMAIN noted = Procs
        BY DEF Noted
      <3>2. \A q \in Procs : noted[q].pc = work[q].pc
        BY NotedAlike
      <3> QED BY <3>1, <3>2
    <2> HIDE DEF noted
    <2>4. holder = p /\ NoWork.pc = "idle" /\ Nobody \notin Procs
      BY <2>2, NoWorkHolds, ProposalsAssumption DEF Locked, Inside, ProposalsAssumption
    <2>5. \A q \in Procs : work'[q].pc \notin Inside
      <3> SUFFICES ASSUME NEW q \in Procs PROVE work'[q].pc \notin Inside
        OBVIOUS
      <3>1. CASE q = p
        BY <2>2, <2>3, <2>4, <3>1 DEF Inside
      <3>2. CASE q # p
        BY <2>2, <2>3, <2>4, <3>2 DEF Locked
      <3> QED BY <3>1, <3>2
    <2> QED BY <2>2, <2>4, <2>5 DEF Locked
  <1>2. ASSUME NEW file, NEW content, Save(file, content) PROVE Locked'
    <2>1. work' = Noted(file, content) /\ holder' = holder
      BY <1>2 DEF Save
    <2>2. \A p \in Procs : work'[p].pc = work[p].pc
      BY <2>1, NotedAlike
    <2> QED BY <2>1, <2>2 DEF Locked
  <1>3. CASE \E marker : CutMarker(marker)
    BY <1>2, <1>3 DEF CutMarker
  <1>4. CASE \E file : EditPolicy(file)
    <2>1. holder' = holder /\ \A p \in Procs : work'[p].pc = work[p].pc
      <3>1. PICK file : EditPolicy(file)
        BY <1>4
      <3>2. work' = [p \in Procs |->
                       [work[p] EXCEPT !.steady = AtRest(p),
                                       !.policies = IF @ = {} THEN {} ELSE @ \cup {file}]]
        BY <3>1 DEF EditPolicy
      <3>3. ASSUME NEW p \in Procs PROVE work'[p].pc = work[p].pc
        <4>1. DOMAIN work[p] = Fields
          BY DEF Jobs
        <4> QED BY <3>2, <4>1, FieldsAre
      <3> QED BY <3>1, <3>3 DEF EditPolicy
    <2> QED BY <2>1 DEF Locked
  <1>5. CASE \E id, status : ReviewRecord(id, status)
    BY <1>5 DEF ReviewRecord, Locked
  <1> QED BY <1>1, <1>2, <1>3, <1>4, <1>5

Counted ==
    /\ policy \in PolicyFiles
    /\ begun \in 0 .. MaxCommands /\ saves \in 0 .. MaxSaves /\ reviews \in 0 .. MaxReviews

Typed == Locked /\ Counted

LEMMA InitTyped == ProposalsInit => Typed
  <1> SUFFICES ASSUME ProposalsInit PROVE Typed
    OBVIOUS
  <1>1. /\ policy = Absent /\ holder = Nobody /\ work = [p \in Procs |-> NoWork]
        /\ begun = 0 /\ saves = 0 /\ reviews = 0
    BY DEF ProposalsInit
  <1>2. Locked
    BY <1>1, NoWorkHolds, ProposalsAssumption DEF Locked, Inside, ProposalsAssumption
  <1>3. Counted
    <2>1. /\ Absent \in PolicyFiles
          /\ MaxCommands \in Nat /\ MaxSaves \in Nat /\ MaxReviews \in Nat
      BY ProposalsAssumption DEF ProposalsAssumption
    <2> QED BY <1>1, <2>1 DEF Counted
  <1> QED BY <1>2, <1>3 DEF Typed

LEMMA StepCounts ==
  ASSUME Counted, [ProposalsNext]_proposalVars
  PROVE  Counted'
  <1>1. /\ MaxCommands \in Nat /\ MaxSaves \in Nat /\ MaxReviews \in Nat
    BY ProposalsAssumption DEF ProposalsAssumption
  <1>2. CASE UNCHANGED <<policy, begun, saves, reviews>>
    BY <1>2 DEF Counted
  <1>3. ASSUME NEW p \in Procs, CommandStep(p) PROVE Counted'
    <2>1. UNCHANGED <<policy, begun, saves, reviews>>
      BY <1>3 DEF CommandStep, Suggest, LoadPolicy, EnterStore, LockTimesOut, VerifySource,
         Persist, LoadPreviewPolicy, Preview, PlanExport, WriteExport, ReadForGuard, PlanGuard,
         CompareGuard, StepFails, World
    <2> QED BY <1>2, <2>1
  <1>4. ASSUME NEW p \in Procs, NEW command \in Commands[p], Begin(p, command) PROVE Counted'
    <2>1. begun < MaxCommands /\ begun' = begun + 1 /\ UNCHANGED <<policy, saves, reviews>>
      BY <1>4 DEF Begin, World
    <2> QED BY <1>1, <2>1 DEF Counted
  <1>5. ASSUME NEW id, NEW status, ReviewRecord(id, status) PROVE Counted'
    <2>1. reviews < MaxReviews /\ reviews' = reviews + 1 /\ UNCHANGED <<policy, begun, saves>>
      BY <1>5 DEF ReviewRecord
    <2> QED BY <1>1, <2>1 DEF Counted
  <1>6. ASSUME NEW file, NEW content, Save(file, content) PROVE Counted'
    <2>1. saves < MaxSaves /\ saves' = saves + 1 /\ UNCHANGED <<policy, begun, reviews>>
      BY <1>6 DEF Save
    <2> QED BY <1>1, <2>1 DEF Counted
  <1>7. ASSUME NEW file \in PolicyFiles, EditPolicy(file) PROVE Counted'
    <2>1. saves < MaxSaves /\ saves' = saves + 1 /\ policy' = file /\ UNCHANGED <<begun, reviews>>
      BY <1>7 DEF EditPolicy
    <2> QED BY <1>1, <2>1 DEF Counted
  <1>8. ASSUME NEW marker, CutMarker(marker) PROVE Counted'
    BY <1>6, <1>8 DEF CutMarker
  <1>9. CASE UNCHANGED proposalVars
    BY <1>2, <1>9 DEF proposalVars
  <1> QED BY <1>3, <1>4, <1>5, <1>6, <1>7, <1>8, <1>9 DEF ProposalsNext

LEMMA StepTyped ==
  ASSUME Typed, IInv, [ProposalsNext]_proposalVars
  PROVE  Typed'
  <1>1. Jobs /\ Locked /\ Counted
    BY DEF IInv, Typed
  <1>2. Counted'
    BY <1>1, StepCounts
  <1>3. ASSUME NEW p \in Procs, CommandStep(p) PROVE Locked'
    BY <1>1, <1>3, OutsideSteps, InsideSteps, UserSteps DEF CommandStep
  <1>4. ASSUME NEW p \in Procs, NEW command \in Commands[p], Begin(p, command) PROVE Locked'
    BY <1>1, <1>4, OutsideSteps
  <1>5. ASSUME \/ \E file, content : Save(file, content)
               \/ \E marker : CutMarker(marker)
               \/ \E file : EditPolicy(file)
               \/ \E id, status : ReviewRecord(id, status)
        PROVE  Locked'
    BY <1>1, <1>5, UserSteps
  <1>6. Locked'
    <2>1. CASE UNCHANGED proposalVars
      BY <1>1, <2>1 DEF proposalVars, Locked
    <2>2. CASE ProposalsNext
      BY <1>3, <1>4, <1>5, <2>2 DEF ProposalsNext
    <2> QED BY <2>1, <2>2
  <1> QED BY <1>2, <1>6 DEF Typed

\* For any commands of any number of processes: the process that has the store lock is the
\* one that is within it, whatever fails there; no link of a record names a later one or
\* one that is not there; and the policy, the files and the statuses have their shapes
\* (ProposalsTypeOK).
THEOREM WellTyped == ProposalsSpec => []ProposalsTypeOK
  <1>1. Typed /\ Sound => ProposalsTypeOK
    BY DEF Typed, Locked, Inside, Counted, Sound, FilesHold, LedgerSound, ProposalsTypeOK
  <1> QED BY <1>1, InitHolds, StepHolds, InitTyped, StepTyped, SoundInvariant, PTL
          DEF ProposalsSpec

=============================================================================
