-------------------------- MODULE Relationships_proofs --------------------------
(***************************************************************************)
(* Theorems about Relationships, for ledgers of any size and any links:    *)
(* the search finds a cycle exactly if there is one, reports only simple   *)
(* cycles, and no acceptance closes one unasked.                           *)
(***************************************************************************)
EXTENDS Relationships, SequenceTheorems, WellFoundedInduction, TLAPS

LEMMA Pushed ==
  ASSUME NEW S, NEW s \in Seq(S), NEW x \in S
  PROVE  /\ Append(s, x) \in Seq(S)
         /\ Len(s) \in Nat /\ DOMAIN s = 1..Len(s)
         /\ Len(Append(s, x)) = Len(s) + 1
         /\ DOMAIN Append(s, x) = 1..(Len(s) + 1)
         /\ Append(s, x)[Len(s) + 1] = x
         /\ \A i \in 1..Len(s) : Append(s, x)[i] = s[i]
  OBVIOUS

LEMMA Popped ==
  ASSUME NEW S, NEW s \in Seq(S), s # <<>>
  PROVE  /\ Front(s) \in Seq(S)
         /\ Len(s) \in Nat \ {0} /\ DOMAIN s = 1..Len(s)
         /\ Last(s) = s[Len(s)] /\ Last(s) \in S
         /\ Len(Front(s)) = Len(s) - 1
         /\ DOMAIN Front(s) = 1..(Len(s) - 1)
         /\ \A i \in 1..(Len(s) - 1) : Front(s)[i] = s[i]
<1>1. Len(s) \in Nat \ {0} /\ DOMAIN s = 1..Len(s) /\ \A i \in 1..Len(s) : s[i] \in S
  BY EmptySeq
<1>2. /\ Front(s) \in Seq(S) /\ Len(Front(s)) = Len(s) - 1
      /\ \A i \in 1..(Len(s) - 1) : Front(s)[i] = s[i]
  BY <1>1, SubSeqProperties DEF Front
<1>3. Last(s) = s[Len(s)] /\ Last(s) \in S
  BY <1>1 DEF Last
<1> QED BY <1>1, <1>2, <1>3

-----------------------------------------------------------------------------
(* The search: its stack, what is explored, what is reported *)

\* The stack is a path of records whose visit is not over.
Stacked ==
    /\ \A i, j \in 1..Len(stack) : stack[i] = stack[j] => i = j
    /\ \A i \in 1..Len(stack) : stack[i] \notin visited
    /\ \A i \in 1..(Len(stack) - 1) : stack[i + 1] \in Successors(stack[i])

PendingLinks ==
    /\ \A x \in records : pending[x] \subseteq Successors(x)
    /\ \A x \in visited : pending[x] = {}

\* As long as no cycle was found, a link that was followed from the stack leads to a
\* record whose visit is over, or to the next of the stack; and the records whose visit
\* is over lead only to each other, and around no cycle.
Explored ==
    cycles = {} =>
        /\ \A i \in 1..Len(stack) : \A y \in Successors(stack[i]) \ pending[stack[i]] :
              y \in visited \/ (i < Len(stack) /\ y = stack[i + 1])
        /\ \A x \in visited : Successors(x) \subseteq visited
        /\ \A set \in SUBSET visited : ~Cyclic(set)

\* What is reported is closed under its own links.
Reported ==
    \A c \in cycles :
        /\ c # {}
        /\ \A link \in c : link[2] \in Successors(link[1]) \cap Members(c)

\* A record that names itself is reported as soon as that link is followed.
SelfLinks ==
    \A x \in visited \cup ToSet(stack) :
        x \in Successors(x) \ pending[x] => {<<x, x>>} \in cycles

\* What the phases of the acceptance stand for.
Decided ==
    /\ phase \in {"searching", "accepted"} => Permitted
    /\ phase = "accepted" => Searched /\ (CandidateCycles = {} \/ "override" \in flags)

SearchInv == Stacked /\ PendingLinks /\ Explored /\ Reported /\ SelfLinks

IInv == TypeOK /\ SearchInv /\ Decided

LEMMA InvInit == Init => IInv
<1> SUFFICES ASSUME Init PROVE IInv
  OBVIOUS
<1>1. stack = <<>> /\ Len(stack) = 0 /\ stack \in Seq(records) /\ ToSet(stack) = {}
  BY EmptySeq DEF Init, ToSet
<1>2. TypeOK
  BY <1>1 DEF Init, TypeOK, Phases
<1>3. Stacked /\ PendingLinks /\ SelfLinks
  BY <1>1 DEF Init, Stacked, PendingLinks, SelfLinks, Successors
<1>4. Explored /\ Reported
  BY <1>1 DEF Init, Explored, Reported, Cyclic
<1>5. Decided
  BY DEF Init, Decided
<1> QED BY <1>2, <1>3, <1>4, <1>5 DEF IInv, SearchInv

\* A record is entered: it was neither visited nor on the stack, and the link that led
\* to it is followed.
LEMMA PushSearch ==
  ASSUME IInv, NEW x \in records, x \notin visited, x \notin ToSet(stack),
         stack' = Append(stack, x),
         UNCHANGED <<input, visited, cycles>>,
         \/ /\ stack = <<>>
            /\ pending' = [pending EXCEPT ![x] = Successors(x)]
         \/ /\ stack # <<>>
            /\ x \in pending[Last(stack)]
            /\ pending' = [pending EXCEPT ![Last(stack)] = @ \ {x}, ![x] = Successors(x)]
  PROVE  /\ stack' \in Seq(records) /\ pending' \in [records -> SUBSET records]
         /\ SearchInv'
<1> DEFINE n == Len(stack)
<1>1. /\ stack \in Seq(records) /\ pending \in [records -> SUBSET records]
      /\ visited \subseteq records
  BY DEF IInv, TypeOK
<1>2. /\ stack' \in Seq(records) /\ n \in Nat /\ DOMAIN stack = 1..n
      /\ Len(stack') = n + 1 /\ DOMAIN stack' = 1..(n + 1)
      /\ stack'[n + 1] = x /\ \A i \in 1..n : stack'[i] = stack[i]
  BY <1>1, Pushed
<1>3. \A i \in 1..n : stack[i] \in records /\ stack[i] # x
  BY <1>1, <1>2 DEF ToSet
<1>4. stack = <<>> <=> n = 0
  BY <1>1, EmptySeq
<1>5. stack # <<>> => n \in 1..n /\ Last(stack) = stack[n]
  BY <1>2, <1>4 DEF Last
<1>6. Successors(x) \subseteq records /\ \A y : Successors(y)' = Successors(y)
  BY DEF Successors, input
<1>7. pending' \in [records -> SUBSET records] /\ pending'[x] = Successors(x)
  BY <1>1, <1>3, <1>5, <1>6
<1>8. \A y \in records \ {x} :
         \/ pending'[y] = pending[y]
         \/ /\ n > 0 /\ y = stack[n] /\ x \in pending[y]
            /\ pending'[y] = pending[y] \ {x}
  BY <1>1, <1>2, <1>4, <1>5
<1>9. Stacked'
  <2>1. \A i \in 1..(n + 1) : stack'[i] \notin visited
    BY <1>2 DEF IInv, SearchInv, Stacked
  <2>2. \A i, j \in 1..(n + 1) : stack'[i] = stack'[j] => i = j
    BY <1>2, <1>3 DEF IInv, SearchInv, Stacked
  <2>3. n > 0 => x \in Successors(stack[n])
    BY <1>3, <1>4, <1>5 DEF IInv, SearchInv, PendingLinks
  <2>4. \A i \in 1..n : stack'[i + 1] \in Successors(stack'[i])
    BY <1>2, <2>3 DEF IInv, SearchInv, Stacked
  <2> QED BY <1>2, <1>6, <2>1, <2>2, <2>4 DEF Stacked
<1>10. PendingLinks'
  <2>1. \A y \in records : pending'[y] \subseteq Successors(y)
    BY <1>7, <1>8 DEF IInv, SearchInv, PendingLinks
  <2>2. \A y \in visited : pending'[y] = {}
    <3>1. \A y \in visited : y \in records \ {x} /\ \A i \in 1..n : y # stack[i]
      BY <1>1 DEF IInv, SearchInv, Stacked
    <3>2. n > 0 => n \in 1..n
      BY <1>2
    <3> QED BY <1>8, <3>1, <3>2 DEF IInv, SearchInv, PendingLinks
  <2> QED BY <1>6, <2>1, <2>2 DEF PendingLinks, input
<1>11. Explored'
  <2> SUFFICES ASSUME cycles = {} PROVE Explored'
    BY DEF Explored
  <2>1. ASSUME NEW i \in 1..(n + 1), NEW y \in Successors(stack'[i]) \ pending'[stack'[i]]
        PROVE  y \in visited \/ (i < n + 1 /\ y = stack'[i + 1])
    <3>1. CASE i = n + 1
      BY <1>2, <1>7, <2>1, <3>1
    <3>2. CASE i \in 1..n /\ y \in Successors(stack[i]) \ pending[stack[i]]
      <4>1. y \in visited \/ (i < n /\ y = stack[i + 1])
        BY <3>2 DEF IInv, SearchInv, Explored
      <4> QED BY <1>2, <3>2, <4>1
    <3>3. CASE i \in 1..n /\ y \notin Successors(stack[i]) \ pending[stack[i]]
      <4>1. stack'[i] = stack[i] /\ stack[i] \in records \ {x}
        BY <1>2, <1>3, <3>3
      <4>2. y = x /\ stack[i] = stack[n] /\ n \in 1..n
        BY <1>2, <1>8, <2>1, <3>3, <4>1
      <4>3. i = n
        BY <3>3, <4>2 DEF IInv, SearchInv, Stacked
      <4> QED BY <1>2, <4>2, <4>3
    <3> QED BY <1>2, <3>1, <3>2, <3>3
  <2>2. /\ \A z \in visited : Successors(z) \subseteq visited
        /\ \A set \in SUBSET visited : ~Cyclic(set)
    BY DEF IInv, SearchInv, Explored
  <2>3. \A set : Cyclic(set)' <=> Cyclic(set)
    BY <1>6 DEF Cyclic
  <2> QED BY <1>2, <1>6, <2>1, <2>2, <2>3 DEF Explored
<1>12. Reported'
  BY <1>6 DEF IInv, SearchInv, Reported, Members
<1>13. SelfLinks'
  <2>1. ToSet(stack') = ToSet(stack) \cup {x}
    BY <1>2 DEF ToSet
  <2>2. ASSUME NEW y \in visited \cup ToSet(stack), y \in Successors(y) \ pending'[y]
        PROVE  {<<y, y>>} \in cycles
    <3>1. y \in records \ {x}
      BY <1>1, <1>2, <1>3 DEF ToSet
    <3>2. y \in Successors(y) \ pending[y]
      BY <1>8, <2>2, <3>1
    <3> QED BY <3>2 DEF IInv, SearchInv, SelfLinks
  <2> QED BY <1>6, <1>7, <2>1, <2>2 DEF SelfLinks
<1> QED BY <1>2, <1>7, <1>9, <1>10, <1>11, <1>12, <1>13 DEF SearchInv

\* A link that leads back up the stack closes a cycle; if the record at hand names
\* itself, that cycle is this one link.
LEMMA CycleFound ==
  ASSUME IInv, NEW x \in records, stack # <<>>, x \in pending[Last(stack)],
         x \in ToSet(stack)
  PROVE  /\ CycleFrom(x) # {} /\ CycleFrom(x) \in SUBSET (records \X records)
         /\ \A link \in CycleFrom(x) :
               link[2] \in Successors(link[1]) \cap Members(CycleFrom(x))
         /\ x = Last(stack) => CycleFrom(x) = {<<x, x>>}
<1> DEFINE n == Len(stack)
           start == CHOOSE i \in DOMAIN stack : stack[i] = x
           next(i) == IF i = n THEN x ELSE stack[i + 1]
<1>1. n \in Nat \ {0} /\ DOMAIN stack = 1..n /\ Last(stack) = stack[n]
  BY Popped DEF IInv, TypeOK
<1>2. start \in 1..n /\ stack[start] = x
  BY <1>1 DEF ToSet
<1>3. /\ \A i \in 1..n : stack[i] \in records
      /\ \A i, j \in 1..n : stack[i] = stack[j] => i = j
      /\ \A i \in 1..(n - 1) : stack[i + 1] \in Successors(stack[i])
      /\ x \in Successors(stack[n])
  <2>1. \A i \in 1..n : stack[i] \in records
    BY <1>1 DEF IInv, TypeOK
  <2>2. stack[n] \in records
    BY <1>1, <2>1
  <2> QED BY <1>1, <2>1, <2>2 DEF IInv, SearchInv, Stacked, PendingLinks
<1>4. CycleFrom(x) = {<<stack[i], next(i)>> : i \in start..n}
  BY DEF CycleFrom
<1> HIDE DEF start, n
<1>5. n \in start..n /\ \A i \in start..n : i \in 1..n
  BY <1>1, <1>2
<1>6. ASSUME NEW i \in start..n
      PROVE  /\ next(i) \in records /\ next(i) \in Successors(stack[i])
             /\ \E j \in start..n : next(i) = stack[j]
  <2>1. CASE i = n
    <3>1. start \in start..n
      BY <1>1, <1>2
    <3> QED BY <1>2, <1>3, <2>1, <3>1
  <2>2. CASE i # n
    <3>1. i \in 1..(n - 1) /\ i + 1 \in 1..n /\ i + 1 \in start..n
      BY <1>1, <1>2, <2>2
    <3>2. next(i) = stack[i + 1]
      BY <2>2
    <3> HIDE DEF next
    <3> QED BY <1>3, <3>1, <3>2
  <2> QED BY <2>1, <2>2
<1> HIDE DEF next
<1>7. \A link \in CycleFrom(x) :
         link[2] \in Successors(link[1]) \cap Members(CycleFrom(x))
  <2>1. ASSUME NEW j \in start..n PROVE stack[j] \in Members(CycleFrom(x))
    <3>1. <<stack[j], next(j)>> \in CycleFrom(x)
      BY <1>4
    <3> QED BY <3>1 DEF Members
  <2>2. ASSUME NEW i \in start..n
        PROVE  next(i) \in Successors(stack[i]) \cap Members(CycleFrom(x))
    BY <1>6, <2>1
  <2> QED BY <1>4, <2>2
<1>8. ASSUME x = Last(stack) PROVE CycleFrom(x) = {<<x, x>>}
  <2>1. start = n
    BY <1>1, <1>2, <1>3, <1>8
  <2>2. start..n = {n} /\ next(n) = x
    BY <1>1, <2>1 DEF next
  <2> QED BY <1>1, <1>4, <1>8, <2>2
<1>9. CycleFrom(x) # {}
  BY <1>4, <1>5
<1>10. CycleFrom(x) \in SUBSET (records \X records)
  BY <1>3, <1>4, <1>5, <1>6
<1> QED BY <1>7, <1>8, <1>9, <1>10

\* A link is followed to a record that was entered before.
LEMMA RevisitSearch ==
  ASSUME IInv, NEW x \in records, stack # <<>>, x \in pending[Last(stack)],
         x \in visited \cup ToSet(stack),
         pending' = [pending EXCEPT ![Last(stack)] = @ \ {x}],
         cycles' = IF x \in visited THEN cycles ELSE cycles \cup {CycleFrom(x)},
         UNCHANGED <<input, stack, visited>>
  PROVE  /\ pending' \in [records -> SUBSET records]
         /\ cycles' \subseteq SUBSET (records \X records)
         /\ SearchInv'
<1> DEFINE n == Len(stack)
           top == Last(stack)
<1>1. /\ stack \in Seq(records) /\ n \in Nat \ {0} /\ DOMAIN stack = 1..n
      /\ top = stack[n] /\ top \in records
      /\ pending \in [records -> SUBSET records] /\ visited \subseteq records
      /\ cycles \subseteq SUBSET (records \X records)
  BY Popped DEF IInv, TypeOK
<1>2. n \in 1..n /\ top \notin visited
  BY <1>1 DEF IInv, SearchInv, Stacked
<1> HIDE DEF top
<1>3. /\ pending' \in [records -> SUBSET records]
      /\ pending'[top] = pending[top] \ {x}
      /\ \A y \in records \ {top} : pending'[y] = pending[y]
  BY <1>1 DEF top
<1>4. \A y : Successors(y)' = Successors(y)
  BY DEF Successors, input
<1>5. Stacked'
  BY <1>4 DEF IInv, SearchInv, Stacked
<1>6. PendingLinks'
  <2>1. \A y \in records : pending'[y] \subseteq Successors(y)
    BY <1>3 DEF IInv, SearchInv, PendingLinks
  <2>2. \A y \in visited : pending'[y] = {}
    BY <1>1, <1>2, <1>3 DEF IInv, SearchInv, PendingLinks
  <2> QED BY <1>4, <2>1, <2>2 DEF PendingLinks, input
<1>7. ASSUME NEW y \in records, y \in Successors(y) \ pending'[y],
             y \notin Successors(y) \ pending[y]
      PROVE  y = top /\ y = x
  BY <1>3, <1>7
<1>8. CASE x \in visited
  <2>1. cycles' = cycles
    BY <1>8
  <2>2. ASSUME cycles = {}, NEW i \in 1..n, NEW y \in Successors(stack[i]) \ pending'[stack[i]]
        PROVE  y \in visited \/ (i < n /\ y = stack[i + 1])
    <3>1. stack[i] \in records
      BY <1>1
    <3>2. CASE y \in pending[stack[i]]
      BY <1>3, <1>8, <2>2, <3>1, <3>2
    <3>3. CASE y \notin pending[stack[i]]
      BY <2>2, <3>3 DEF IInv, SearchInv, Explored
    <3> QED BY <3>2, <3>3
  <2>3. Explored'
    <3>1. \A set : Cyclic(set)' <=> Cyclic(set)
      BY <1>4 DEF Cyclic
    <3>2. cycles = {} => /\ \A z \in visited : Successors(z) \subseteq visited
                         /\ \A set \in SUBSET visited : ~Cyclic(set)
      BY DEF IInv, SearchInv, Explored
    <3> QED BY <1>4, <2>1, <2>2, <3>1, <3>2 DEF Explored
  <2>4. Reported'
    BY <1>4, <2>1 DEF IInv, SearchInv, Reported, Members
  <2>5. SelfLinks'
    <3>1. ASSUME NEW y \in visited \cup ToSet(stack), y \in Successors(y) \ pending'[y]
          PROVE  {<<y, y>>} \in cycles
      <4>1. y \in records
        BY <1>1 DEF ToSet
      <4>2. y \in Successors(y) \ pending[y]
        BY <1>2, <1>7, <1>8, <3>1, <4>1
      <4> QED BY <4>2 DEF IInv, SearchInv, SelfLinks
    <3> QED BY <1>4, <2>1, <3>1 DEF SelfLinks
  <2> QED BY <1>1, <1>3, <1>5, <1>6, <2>1, <2>3, <2>4, <2>5 DEF SearchInv
<1>9. CASE x \notin visited
  <2> DEFINE found == CycleFrom(x)
  <2>1. cycles' = cycles \cup {found} /\ x \in ToSet(stack)
    BY <1>9
  <2>2. /\ found # {} /\ found \in SUBSET (records \X records)
        /\ \A link \in found : link[2] \in Successors(link[1]) \cap Members(found)
        /\ x = top => found = {<<x, x>>}
    BY <2>1, CycleFound DEF top
  <2> HIDE DEF found
  <2>3. Explored'
    BY <2>1 DEF Explored
  <2>4. Reported'
    BY <1>4, <2>1, <2>2 DEF IInv, SearchInv, Reported, Members
  <2>5. SelfLinks'
    <3>1. ASSUME NEW y \in visited \cup ToSet(stack), y \in Successors(y) \ pending'[y]
          PROVE  {<<y, y>>} \in cycles'
      <4>1. y \in records
        BY <1>1 DEF ToSet
      <4>2. CASE y \in Successors(y) \ pending[y]
        <5>1. {<<y, y>>} \in cycles
          BY <4>2 DEF IInv, SearchInv, SelfLinks
        <5> QED BY <2>1, <5>1
      <4>3. CASE y \notin Successors(y) \ pending[y]
        <5>1. y = top /\ y = x
          BY <1>7, <3>1, <4>1, <4>3
        <5> QED BY <2>1, <2>2, <5>1
      <4> QED BY <4>2, <4>3
    <3> QED BY <1>4, <3>1 DEF SelfLinks
  <2> QED BY <1>1, <1>3, <1>5, <1>6, <2>1, <2>2, <2>3, <2>4, <2>5 DEF SearchInv
<1> QED BY <1>8, <1>9

\* The record at hand has no link left: its visit is over.
LEMMA LeaveSearch ==
  ASSUME IInv, Leave
  PROVE  /\ stack' \in Seq(records) /\ visited' \subseteq records
         /\ SearchInv'
<1> DEFINE n == Len(stack)
           top == Last(stack)
<1>1. /\ stack' \in Seq(records) /\ n \in Nat \ {0} /\ DOMAIN stack = 1..n
      /\ top = stack[n] /\ top \in records
      /\ Len(stack') = n - 1 /\ DOMAIN stack' = 1..(n - 1)
      /\ \A i \in 1..(n - 1) : stack'[i] = stack[i]
  BY Popped DEF IInv, TypeOK, Leave
<1>2. visited \subseteq records
  BY DEF IInv, TypeOK
<1>3. /\ pending[top] = {} /\ visited' = visited \cup {top}
      /\ pending' = pending /\ cycles' = cycles /\ records' = records
      /\ \A y : Successors(y)' = Successors(y)
  BY DEF Leave, Successors, input
<1> HIDE DEF top
<1>4. n \in 1..n /\ top \notin visited /\ \A i \in 1..(n - 1) : stack[i] # top
  BY <1>1 DEF IInv, SearchInv, Stacked
<1>5. Stacked'
  <2>1. /\ \A i, j \in 1..n : stack[i] = stack[j] => i = j
        /\ \A i \in 1..n : stack[i] \notin visited
        /\ \A i \in 1..(n - 1) : stack[i + 1] \in Successors(stack[i])
    BY DEF IInv, SearchInv, Stacked
  <2>2. /\ \A i \in 1..(n - 1) : i \in 1..n
        /\ \A i \in 1..((n - 1) - 1) :
              i \in 1..(n - 1) /\ i + 1 \in 1..(n - 1)
    <3>1. n \in Nat
      BY <1>1
    <3> HIDE DEF n
    <3> QED BY <3>1
  <2>3. \A i \in 1..(n - 1) : stack[i] \notin visited'
    BY <1>3, <1>4, <2>1, <2>2
  <2> QED BY <1>1, <1>3, <2>1, <2>2, <2>3 DEF Stacked
<1>6. PendingLinks'
  BY <1>3 DEF IInv, SearchInv, PendingLinks
<1>7. Explored'
  <2> SUFFICES ASSUME cycles = {} PROVE Explored'
    BY <1>3 DEF Explored
  <2>1. Successors(top) \subseteq visited
    BY <1>1, <1>3, <1>4 DEF IInv, SearchInv, Explored
  <2>2. \A z \in visited : Successors(z) \subseteq visited
    BY DEF IInv, SearchInv, Explored
  <2>3. ASSUME NEW set \in SUBSET visited', Cyclic(set) PROVE FALSE
    <3>1. Cyclic(set \ {top})
      <4>1. \A z \in set : Successors(z) \cap (set \ {top}) # {}
        BY <1>3, <1>4, <2>1, <2>2, <2>3 DEF Cyclic
      <4> QED BY <2>3, <4>1 DEF Cyclic
    <3>2. set \ {top} \in SUBSET visited
      BY <1>3
    <3> QED BY <3>1, <3>2 DEF IInv, SearchInv, Explored
  <2>4. ASSUME NEW i \in 1..(n - 1), NEW y \in Successors(stack[i]) \ pending[stack[i]]
        PROVE  y \in visited' \/ (i < n - 1 /\ y = stack'[i + 1])
    <3>1. i \in 1..n /\ (i < n - 1 => i + 1 \in 1..(n - 1)) /\ (~(i < n - 1) => i + 1 = n)
      <4>1. n \in Nat \ {0}
        BY <1>1
      <4> HIDE DEF n
      <4> QED BY <2>4, <4>1
    <3>2. y \in visited \/ y = stack[i + 1]
      BY <2>4, <3>1 DEF IInv, SearchInv, Explored
    <3> QED BY <1>1, <1>3, <3>1, <3>2
  <2>5. \A set : Cyclic(set)' <=> Cyclic(set)
    BY <1>3 DEF Cyclic
  <2> QED BY <1>1, <1>3, <2>1, <2>2, <2>3, <2>4, <2>5 DEF Explored
<1>8. Reported'
  BY <1>3 DEF IInv, SearchInv, Reported, Members
<1>9. SelfLinks'
  <2>1. visited' \cup ToSet(stack') \subseteq visited \cup ToSet(stack)
    BY <1>1, <1>3, <1>4 DEF ToSet
  <2> QED BY <1>3, <2>1 DEF IInv, SearchInv, SelfLinks
<1> QED BY <1>1, <1>2, <1>3, <1>5, <1>6, <1>7, <1>8, <1>9 DEF SearchInv

\* A step of the acceptance leaves the search as it is.
LEMMA QuietSearch ==
  ASSUME SearchInv, UNCHANGED <<input, search>>
  PROVE  SearchInv'
<1>1. /\ stack' = stack /\ pending' = pending /\ visited' = visited /\ cycles' = cycles
      /\ records' = records /\ \A y : Successors(y)' = Successors(y)
  BY DEF search, input, Successors
<1> QED BY <1>1 DEF SearchInv, Stacked, PendingLinks, Explored, Reported, SelfLinks,
                    Cyclic, Members

-----------------------------------------------------------------------------
(* The steps *)

LEMMA InvNext == IInv /\ [Next]_vars => IInv'
<1> SUFFICES ASSUME IInv, [Next]_vars PROVE IInv'
  OBVIOUS
<1>1. ASSUME UNCHANGED <<input, search>>, phase' \in Phases,
             phase' = "searching" => Permitted,
             phase' = "accepted" => /\ Permitted /\ Searched
                                    /\ CandidateCycles = {} \/ "override" \in flags
      PROVE  IInv'
  <2>1. TypeOK'
    BY <1>1 DEF IInv, TypeOK, input, search
  <2>2. SearchInv'
    BY <1>1, QuietSearch DEF IInv
  <2>3. /\ Permitted' <=> Permitted
        /\ Searched' <=> Searched
        /\ CandidateCycles' = CandidateCycles /\ flags' = flags
    BY <1>1 DEF input, search, Permitted, Superseded, Searched, CandidateCycles,
                AcceptedNext, Members
  <2>4. Decided'
    BY <1>1, <2>3 DEF Decided
  <2> QED BY <2>1, <2>2, <2>4 DEF IInv
<1>2. ASSUME UNCHANGED <<input, phase>>, phase # "accepted",
             stack' \in Seq(records), pending' \in [records -> SUBSET records],
             visited' \subseteq records, cycles' \subseteq SUBSET (records \X records),
             SearchInv'
      PROVE  IInv'
  <2>1. TypeOK'
    BY <1>2 DEF IInv, TypeOK, input
  <2>2. Permitted' <=> Permitted
    BY <1>2 DEF input, Permitted, Superseded
  <2>3. Decided'
    BY <1>2, <2>2 DEF IInv, Decided
  <2> QED BY <1>2, <2>1, <2>3 DEF IInv
<1>3. stack # <<>> => phase # "accepted"
  BY DEF IInv, Decided, Searched
<1>4. /\ stack \in Seq(records) /\ pending \in [records -> SUBSET records]
      /\ visited \subseteq records /\ cycles \subseteq SUBSET (records \X records)
      /\ phase \in Phases
  BY DEF IInv, TypeOK
<1>5. CASE Deny \/ Search \/ Accept \/ RefuseCycle
  <2>1. /\ UNCHANGED <<input, search>> /\ phase' \in Phases
        /\ phase' = "searching" => Permitted
        /\ phase' = "accepted" => /\ phase = "searching" /\ Searched
                                  /\ CandidateCycles = {} \/ "override" \in flags
    BY <1>5 DEF Deny, Search, Accept, RefuseCycle, Phases
  <2>2. phase = "searching" => Permitted
    BY DEF IInv, Decided
  <2> QED BY <1>1, <2>1, <2>2
<1>6. CASE UNCHANGED vars
  <2>1. UNCHANGED <<input, search>> /\ phase' = phase
    BY <1>6 DEF vars
  <2> QED BY <1>1, <1>4, <2>1 DEF IInv, Decided
<1>7. ASSUME NEW x \in records, Visit(x) PROVE IInv'
  <2>1. /\ stack = <<>> /\ x \notin visited /\ phase = "searching"
        /\ stack' = Append(stack, x) /\ pending' = [pending EXCEPT ![x] = Successors(x)]
        /\ UNCHANGED <<input, phase, visited, cycles>>
    BY <1>7 DEF Visit, Enter
  <2>2. x \notin ToSet(stack)
    BY <2>1, EmptySeq DEF ToSet
  <2>3. /\ stack' \in Seq(records) /\ pending' \in [records -> SUBSET records]
        /\ SearchInv'
    BY <2>1, <2>2, PushSearch
  <2> QED BY <1>2, <1>4, <2>1, <2>3
<1>8. ASSUME NEW x \in records, Follow(x) PROVE IInv'
  <2>1. stack # <<>> /\ x \in pending[Last(stack)] /\ UNCHANGED <<input, phase, visited>>
    BY <1>8 DEF Follow
  <2>2. CASE x \in visited \cup ToSet(stack)
    <3>1. /\ pending' = [pending EXCEPT ![Last(stack)] = @ \ {x}]
          /\ cycles' = IF x \in visited THEN cycles ELSE cycles \cup {CycleFrom(x)}
          /\ UNCHANGED stack
      BY <1>8, <2>2 DEF Follow
    <3>2. /\ pending' \in [records -> SUBSET records]
          /\ cycles' \subseteq SUBSET (records \X records)
          /\ SearchInv'
      BY <2>1, <2>2, <3>1, RevisitSearch
    <3> QED BY <1>2, <1>3, <1>4, <2>1, <3>1, <3>2
  <2>3. CASE x \notin visited \cup ToSet(stack)
    <3>1. /\ stack' = Append(stack, x) /\ UNCHANGED cycles
          /\ pending' = [pending EXCEPT ![Last(stack)] = @ \ {x}, ![x] = Successors(x)]
      BY <1>8, <2>3 DEF Follow
    <3>2. /\ stack' \in Seq(records) /\ pending' \in [records -> SUBSET records]
          /\ SearchInv'
      BY <2>1, <2>3, <3>1, PushSearch
    <3> QED BY <1>2, <1>3, <1>4, <2>1, <3>1, <3>2
  <2> QED BY <2>2, <2>3
<1>9. ASSUME Leave PROVE IInv'
  <2>1. stack # <<>> /\ UNCHANGED <<input, phase, pending, cycles>>
    BY <1>9 DEF Leave
  <2>2. stack' \in Seq(records) /\ visited' \subseteq records /\ SearchInv'
    BY <1>9, LeaveSearch
  <2> QED BY <1>2, <1>3, <1>4, <2>1, <2>2
<1> QED BY <1>5, <1>6, <1>7, <1>8, <1>9 DEF Next, Ended

\* What the code can rely on in every state of a search and of its acceptance.
THEOREM Invariance == Spec => []IInv
<1> QED BY InvInit, InvNext, PTL DEF Spec

-----------------------------------------------------------------------------
(* The theorems *)

\* The variables keep their types, for any set of ids (detectSupersessionCycles,
\* resolveRelationshipAcceptance).
THEOREM TypeCorrect == Spec => []TypeOK
<1>1. IInv => TypeOK
  BY DEF IInv
<1> QED BY <1>1, Invariance, PTL

LEMMA Exact == IInv => FindsCyclesIfAny
<1> SUFFICES ASSUME IInv, Searched
             PROVE  cycles = {} <=> \A set \in SUBSET records : ~Cyclic(set)
  BY DEF FindsCyclesIfAny
<1>1. ASSUME cycles = {} PROVE \A set \in SUBSET records : ~Cyclic(set)
  BY <1>1 DEF IInv, SearchInv, Explored, Searched
<1>2. ASSUME NEW c \in cycles PROVE \E set \in SUBSET records : Cyclic(set)
  <2>1. /\ c # {} /\ c \in SUBSET (records \X records)
        /\ \A link \in c : link[2] \in Successors(link[1]) \cap Members(c)
    BY DEF IInv, TypeOK, SearchInv, Reported
  <2>2. Members(c) \in SUBSET records /\ Members(c) # {}
    BY <2>1 DEF Members
  <2>3. \A x \in Members(c) : Successors(x) \cap Members(c) # {}
    BY <2>1 DEF Members
  <2> QED BY <2>2, <2>3 DEF Cyclic
<1> QED BY <1>1, <1>2

\* A finished search has reported nothing exactly if the links of the ledger form no
\* cycle, however many records and links there are and in whatever order they are
\* followed (detectSupersessionCycles).
THEOREM SearchIsExact == Spec => []FindsCyclesIfAny
<1> QED BY Exact, Invariance, PTL

LEMMA Asked == IInv => NoAcceptedCycleUnasked
<1> SUFFICES ASSUME IInv, phase = "accepted", "override" \notin flags,
                    OnCycle(candidate, AcceptedNext)
             PROVE  FALSE
  BY DEF NoAcceptedCycleUnasked
<1>1. Permitted /\ Searched /\ CandidateCycles = {}
  BY DEF IInv, Decided
<1>2. candidate \in records /\ flags \subseteq {"retire", "override"}
  BY DEF IInv, TypeOK
<1>3. Successors(candidate) \cap AcceptedNext \subseteq {candidate}
  <2>1. CASE "retire" \in flags
    BY <2>1 DEF AcceptedNext, Superseded, Successors
  <2>2. CASE "retire" \notin flags
    <3>1. Superseded = {}
      BY <1>1, <1>2, <2>2 DEF Permitted
    <3> QED BY <2>2, <3>1 DEF AcceptedNext, Superseded, Successors
  <2> QED BY <2>1, <2>2
<1>4. candidate \in Successors(candidate)
  <2> SUFFICES ASSUME candidate \notin Successors(candidate) PROVE FALSE
    OBVIOUS
  <2>1. Successors(candidate) \cap AcceptedNext = {}
    BY <1>3
  <2> QED BY <2>1 DEF OnCycle
<1>5. {<<candidate, candidate>>} \in cycles
  BY <1>1, <1>2, <1>4 DEF IInv, SearchInv, SelfLinks, PendingLinks, Searched
<1>6. Members({<<candidate, candidate>>}) = {candidate} /\ candidate \in AcceptedNext
  BY DEF Members, AcceptedNext
<1> QED BY <1>1, <1>5, <1>6 DEF CandidateCycles

\* No acceptance without an override closes a cycle of accepted records, in a ledger of
\* any size: what the search may miss, the question of which records the candidate
\* supersedes has already ruled out (resolveRelationshipAcceptance).
THEOREM NoUnaskedCycle == Spec => []NoAcceptedCycleUnasked
<1> QED BY Asked, Invariance, PTL

-----------------------------------------------------------------------------
(* What is reported is one simple cycle *)

Simple(c) ==
    /\ \A link \in c : link[2] \in Successors(link[1]) \cap Members(c)
    /\ \A link, other \in c : link[1] = other[1] <=> link[2] = other[2]
    /\ \A set \in SUBSET Members(c) :
          (\A link \in c : link[1] \in set => link[2] \in set) => set \in {{}, Members(c)}

LEMMA Least ==
  ASSUME NEW T \in SUBSET Nat, T # {}
  PROVE  \E m \in T : \A n \in T : m <= n
<1> DEFINE R == OpToRel(<, Nat)
<1>1. IsWellFoundedOn(R, Nat)
  BY NatLessThanWellFounded
<1>2. \A n, m \in Nat : <<n, m>> \in R <=> n < m
  BY DEF OpToRel
<1> HIDE DEF R
<1>3. PICK m \in T : \A n \in T : <<n, m>> \notin R
  <2>1. \E m \in T : \A n \in T : <<n, m>> \notin R
    BY <1>1, WFMin, Zenon
  <2> QED BY <2>1
<1>4. ASSUME NEW n \in T PROVE m <= n
  <2>1. n \in Nat /\ m \in Nat /\ <<n, m>> \notin R
    BY <1>3
  <2> QED BY <2>1, <1>2
<1> QED BY <1>4

\* What holds of one place and is handed on to the next holds from there on.
LEMMA HandedOn ==
  ASSUME NEW n \in Nat, NEW k \in 1..n, NEW f, NEW set, f[k] \in set,
         \A i \in k..(n - 1) : f[i] \in set => f[i + 1] \in set
  PROVE  \A i \in k..n : f[i] \in set
<1> DEFINE T == {i \in k..n : f[i] \notin set}
<1> SUFFICES ASSUME T # {} PROVE FALSE
  OBVIOUS
<1>1. T \in SUBSET Nat
  OBVIOUS
<1>2. PICK m \in T : \A i \in T : m <= i
  <2> HIDE DEF T
  <2> QED BY <1>1, Least
<1>3. m \in k..n /\ f[m] \notin set /\ m # k
  OBVIOUS
<1>4. m - 1 \in k..(n - 1) /\ (m - 1) + 1 = m
  BY <1>3
<1>5. f[m - 1] \in set
  <2>1. m - 1 \in k..n /\ ~(m <= m - 1)
    BY <1>4
  <2> QED BY <1>2, <2>1
<1> QED BY <1>3, <1>4, <1>5

LEMMA CycleIsSimple ==
  ASSUME IInv, NEW x \in records, stack # <<>>, x \in pending[Last(stack)],
         x \in ToSet(stack)
  PROVE  Simple(CycleFrom(x))
<1> DEFINE n == Len(stack)
           start == CHOOSE i \in DOMAIN stack : stack[i] = x
           next(i) == IF i = n THEN x ELSE stack[i + 1]
           c == CycleFrom(x)
<1>1. n \in Nat \ {0} /\ DOMAIN stack = 1..n
  BY Popped DEF IInv, TypeOK
<1>2. start \in 1..n /\ stack[start] = x
  BY <1>1 DEF ToSet
<1>3. \A i, j \in 1..n : stack[i] = stack[j] => i = j
  BY DEF IInv, SearchInv, Stacked
<1>4. c = {<<stack[i], next(i)>> : i \in start..n}
  BY DEF CycleFrom
<1>5. \A link \in c : link[2] \in Successors(link[1]) \cap Members(c)
  BY CycleFound
<1> HIDE DEF start, n, c
<1>6. /\ n \in start..n /\ \A i \in start..n : i \in 1..n
      /\ next(n) = stack[start] /\ \A i \in start..(n - 1) : next(i) = stack[i + 1]
  BY <1>1, <1>2
<1> HIDE DEF next
<1>7. Members(c) = {stack[i] : i \in start..n}
  <2>1. \A i \in start..n : <<stack[i], next(i)>>[1] = stack[i]
    OBVIOUS
  <2>2. ASSUME NEW y \in Members(c) PROVE y \in {stack[i] : i \in start..n}
    <3>1. PICK link \in c : y = link[1]
      BY <2>2 DEF Members
    <3>2. PICK i \in start..n : link = <<stack[i], next(i)>>
      BY <1>4, <3>1
    <3> QED BY <3>1, <3>2
  <2>3. ASSUME NEW i \in start..n PROVE stack[i] \in Members(c)
    <3>1. <<stack[i], next(i)>> \in c
      BY <1>4
    <3> QED BY <2>1, <3>1 DEF Members
  <2> QED BY <2>2, <2>3
<1>8. ASSUME NEW i \in start..n, NEW j \in start..n PROVE next(i) = next(j) => i = j
  <2>1. \A k \in start..n : k # n => k \in start..(n - 1) /\ k + 1 \in 1..n /\ k + 1 # start
    BY <1>1, <1>2
  <2>2. start \in 1..n
    BY <1>2
  <2>3. CASE i = n /\ j # n
    BY <1>3, <1>6, <2>1, <2>2, <2>3
  <2>4. CASE i # n /\ j = n
    BY <1>3, <1>6, <2>1, <2>2, <2>4
  <2>5. CASE i # n /\ j # n
    <3>1. next(i) = stack[i + 1] /\ next(j) = stack[j + 1]
      BY <1>6, <2>1, <2>5
    <3>2. stack[i + 1] = stack[j + 1] => i + 1 = j + 1
      BY <1>3, <2>1, <2>5
    <3> QED BY <1>1, <1>2, <3>1, <3>2
  <2> QED BY <2>3, <2>4, <2>5
<1>9. \A link, other \in c : link[1] = other[1] <=> link[2] = other[2]
  <2>1. ASSUME NEW i \in start..n, NEW j \in start..n
        PROVE  stack[i] = stack[j] <=> next(i) = next(j)
    BY <1>3, <1>6, <1>8
  <2> QED BY <1>4, <2>1
<1>10. ASSUME NEW set \in SUBSET Members(c), set # {},
              \A link \in c : link[1] \in set => link[2] \in set
       PROVE  set = Members(c)
  <2>1. \A i \in start..n : stack[i] \in set => next(i) \in set
    <3>1. \A i \in start..n : <<stack[i], next(i)>> \in c
      BY <1>4
    <3> QED BY <1>10, <3>1
  <2>2. \A i \in start..(n - 1) : stack[i] \in set => stack[i + 1] \in set
    BY <1>1, <1>2, <1>6, <2>1
  <2>3. PICK k \in start..n : stack[k] \in set
    BY <1>7, <1>10
  <2>4. stack[n] \in set
    <3>1. k \in 1..n /\ n \in Nat /\ \A i \in k..(n - 1) : i \in start..(n - 1)
      BY <1>1, <1>2, <2>3
    <3>2. \A i \in k..n : stack[i] \in set
      BY <2>2, <2>3, <3>1, HandedOn
    <3> QED BY <3>1, <3>2
  <2>5. stack[start] \in set
    BY <1>6, <2>1, <2>4
  <2>6. \A i \in start..n : stack[i] \in set
    BY <1>1, <1>2, <2>2, <2>5, HandedOn
  <2> QED BY <1>7, <2>6
<1> QED BY <1>5, <1>9, <1>10 DEF Simple, c

SimpleReports == \A c \in cycles : Simple(c)

LEMMA SimpleNext == IInv /\ SimpleReports /\ [Next]_vars => SimpleReports'
<1> SUFFICES ASSUME IInv, SimpleReports, [Next]_vars PROVE SimpleReports'
  OBVIOUS
<1>1. \A c \in cycles' : c \in cycles \/ Simple(c)
  <2>1. ASSUME NEW x \in records, Follow(x) PROVE \A c \in cycles' : c \in cycles \/ Simple(c)
    <3>1. CASE x \in ToSet(stack) /\ x \notin visited
      BY <2>1, <3>1, CycleIsSimple DEF Follow
    <3>2. CASE ~(x \in ToSet(stack) /\ x \notin visited)
      BY <2>1, <3>2 DEF Follow
    <3> QED BY <3>1, <3>2
  <2> QED BY <2>1 DEF Next, Deny, Search, Visit, Leave, Accept, RefuseCycle, Ended, search, vars
<1>2. UNCHANGED input
  BY DEF Next, Deny, Search, Visit, Follow, Leave, Accept, RefuseCycle, Ended, vars
<1>3. \A c : Simple(c)' <=> Simple(c)
  BY <1>2 DEF Simple, Successors, Members, input
<1> QED BY <1>1, <1>3 DEF SimpleReports

\* Whatever the links and the order they are followed in, each reported cycle is one
\* closed path of links: nothing that leads into it, nothing that leads off it, and
\* not two cycles taken together (pushCycle).
THEOREM ReportsAreSimple == Spec => []ReportsSimpleCycles
<1>1. Init => SimpleReports
  BY DEF Init, SimpleReports
<1>2. SimpleReports <=> ReportsSimpleCycles
  BY DEF SimpleReports, Simple, ReportsSimpleCycles
<1> QED BY <1>1, <1>2, SimpleNext, Invariance, PTL DEF Spec
===============================================================================
