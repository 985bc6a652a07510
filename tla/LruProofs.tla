------------------------------ MODULE LruProofs -----------------------------
(***************************************************************************)
(* Theorems about LruList, for every number of frames.  The inductive      *)
(* invariant is that some row of the frames is strung on the pointers, in  *)
(* both directions; the walks of the properties then yield that row.       *)
(***************************************************************************)
EXTENDS LruList, WellFoundedInduction, TLAPS

(* The node at each place of the list, with the dummies at its ends. *)
At(row, i) == IF i = 0 THEN head ELSE IF i = NumFrames + 1 THEN tail ELSE row[i]

Distinct(row) == \A i, j \in Position : row[i] = row[j] => i = j

Strung(row, nx, pv) ==
  /\ row \in Orders /\ IsPermutation(row) /\ Distinct(row)
  /\ nx \in [Node -> Node \cup {null}] /\ pv \in [Node -> Node \cup {null}]
  /\ \A i \in 0 .. NumFrames : /\ nx[At(row, i)] = At(row, i + 1)
                               /\ pv[At(row, i + 1)] = At(row, i)
  /\ nx[tail] = null /\ pv[head] = null

(* Frames further back in the row were used earlier. *)
ByAge(row, use) == \A i, j \in Position : i < j => use[row[j]] < use[row[i]]

History ==
  /\ clock \in 0 .. MaxAccess
  /\ lastUse \in [Frame -> (-NumFrames) .. MaxAccess]
  /\ \A f \in Frame : lastUse[f] <= clock

ListInv == History /\ \E row \in Orders : Strung(row, next, prev) /\ ByAge(row, lastUse)

-----------------------------------------------------------------------------
LEMMA Sizes ==
  /\ NumFrames \in Nat \ {0} /\ MaxAccess \in Nat
  /\ Frame = 0 .. (NumFrames - 1) /\ Position = 1 .. NumFrames
  /\ Node = (0 .. (NumFrames - 1)) \cup {-1, -2}
  /\ head = -1 /\ tail = -2 /\ null = -3
BY FrameAssumption, AccessAssumption DEF Frame, Position, Node, head, tail, null

(* The places of the list, from the head to the tail, hold different nodes. *)
LEMMA AtNode ==
  ASSUME NEW row \in Orders, Distinct(row)
  PROVE  /\ \A i \in 0 .. (NumFrames + 1) : At(row, i) \in Node
         /\ \A i \in Position : At(row, i) = row[i] /\ row[i] \in Frame
         /\ At(row, 0) = head /\ At(row, NumFrames + 1) = tail
         /\ \A i, j \in 0 .. (NumFrames + 1) : At(row, i) = At(row, j) => i = j
<1>1. \A i \in Position : At(row, i) = row[i] /\ row[i] \in Frame
  BY Sizes DEF At, Orders
<1>2. At(row, 0) = head /\ At(row, NumFrames + 1) = tail
  BY Sizes DEF At
<1>3. \A i \in 0 .. (NumFrames + 1) : i = 0 \/ i = NumFrames + 1 \/ i \in Position
  BY Sizes
<1>4. \A f \in Frame : f # head /\ f # tail /\ f \in Node
  BY Sizes
<1>5. head \in Node /\ tail \in Node /\ head # tail
  BY Sizes
<1>6. \A i \in 0 .. (NumFrames + 1) : At(row, i) \in Node
  BY <1>1, <1>2, <1>3, <1>4, <1>5
<1>7. \A i, j \in 0 .. (NumFrames + 1) : At(row, i) = At(row, j) => i = j
  BY <1>1, <1>2, <1>3, <1>4, <1>5, Zenon DEF Distinct
<1> QED BY <1>1, <1>2, <1>6, <1>7

(* Every node has a place. *)
LEMMA NodeAt ==
  ASSUME NEW row \in Orders, IsPermutation(row), NEW n \in Node
  PROVE  \E i \in 0 .. (NumFrames + 1) : At(row, i) = n
<1>1. CASE n = head \/ n = tail
  BY <1>1, Sizes DEF At
<1>2. CASE n \in Frame
  <2>1. PICK i \in Position : row[i] = n
    BY <1>2 DEF IsPermutation
  <2> QED BY <2>1, Sizes DEF At
<1> QED BY <1>1, <1>2 DEF Node

(* A set of natural numbers that is not empty has a least element. *)
LEMMA LeastExists ==
  ASSUME NEW S \in SUBSET Nat, S # {}
  PROVE  \E i \in S : \A j \in S : i <= j
<1> DEFINE R == OpToRel(<, Nat)
<1>1. R = {s \in Nat \X Nat : s[1] < s[2]}
  BY Zenon DEF OpToRel
<1>2. IsWellFoundedOn(R, Nat)
  BY NatLessThanWellFounded
<1> HIDE DEF R
<1>3. PICK i \in S : \A j \in S : <<j, i>> \notin R
  BY <1>2, WFMin
<1>4. ASSUME NEW j \in S PROVE i <= j
  <2>1. <<j, i>> \in Nat \X Nat /\ <<j, i>>[1] = j /\ <<j, i>>[2] = i
    OBVIOUS
  <2>2. ~ (j < i)
    BY <1>1, <1>3, <2>1, Zenon
  <2> QED BY <2>2
<1> QED BY <1>4

(* Induction over a set: the numbers up to n are in S when 0 is and each   *)
(* brings the next.                                                        *)
LEMMA Induction ==
  ASSUME NEW n \in Nat, NEW S, 0 \in S,
         \A i \in 0 .. n : i \in S /\ i < n => i + 1 \in S
  PROVE  0 .. n \subseteq S
<1> DEFINE Missing == (0 .. n) \ S
<1> SUFFICES ASSUME Missing # {} PROVE FALSE
  OBVIOUS
<1>1. PICK i \in Missing : \A j \in Missing : i <= j
  <2>1. Missing \in SUBSET Nat
    OBVIOUS
  <2> HIDE DEF Missing
  <2> QED BY <2>1, LeastExists
<1>2. i - 1 \in 0 .. n /\ i - 1 \notin Missing
  BY <1>1
<1> QED BY <1>1, <1>2

(* Following the pointers from a node visits the nodes of a sequence that  *)
(* they link, null only at its end.                                        *)
LEMMA WalkFollows ==
  ASSUME NEW link, NEW start, NEW path \in [0 .. (NumFrames + 1) -> Node],
         path[0] = start,
         \A i \in 0 .. NumFrames : link[path[i]] = path[i + 1]
  PROVE  Behind(link, start) = path
<1>0. \A i \in 0 .. NumFrames + 1 : i # 0 => i - 1 \in 0 .. NumFrames /\ i = (i - 1) + 1
  BY Sizes
<1> DEFINE Rule(walk, i) == IF i = 0 THEN start
                            ELSE IF walk[i - 1] = null THEN null ELSE link[walk[i - 1]]
           Obeys(walk) == walk = [i \in 0 .. NumFrames + 1 |-> Rule(walk, i)]
<1>5. \A i \in 0 .. NumFrames + 1 : path[i] # null
  <2>1. \A n \in Node : n # null
    BY Sizes
  <2> QED BY <2>1
<1>1. ASSUME NEW i \in 0 .. NumFrames + 1 PROVE path[i] = Rule(path, i)
  <2>1. CASE i = 0
    BY <2>1
  <2>2. CASE i # 0
    <3>1. i - 1 \in 0 .. NumFrames /\ i = (i - 1) + 1
      BY <1>0, <2>2
    <3>2. link[path[i - 1]] = path[(i - 1) + 1]
      BY <3>1, Zenon
    <3>3. path[i - 1] # null
      BY <1>5, <3>1, Sizes
    <3> QED BY <2>2, <3>1, <3>2, <3>3, Zenon
  <2> QED BY <2>1, <2>2
<1>2. Obeys(path)
  <2>1. [i \in 0 .. NumFrames + 1 |-> path[i]] = [i \in 0 .. NumFrames + 1 |-> Rule(path, i)]
    BY <1>1, Zenon
  <2> QED BY <2>1
<1>3. ASSUME NEW walk, Obeys(walk) PROVE walk = path
  <2> DEFINE S == {i \in 0 .. NumFrames + 1 : walk[i] = path[i]}
  <2>0. \A i \in 0 .. NumFrames + 1 : walk[i] = Rule(walk, i)
    BY <1>3
  <2>1. 0 \in S
    BY <2>0, Sizes
  <2>2. ASSUME NEW i \in 0 .. NumFrames + 1, i \in S, i < NumFrames + 1
        PROVE  i + 1 \in S
    <3>1. i \in 0 .. NumFrames /\ i + 1 \in 0 .. NumFrames + 1 /\ i + 1 # 0
          /\ (i + 1) - 1 = i
      BY <2>2, Sizes
    <3>2. walk[i + 1] = Rule(walk, i + 1)
      BY <2>0, <3>1
    <3>3. walk[i] = path[i] /\ path[i] # null
      BY <1>5, <2>2
    <3>4. walk[i + 1] = link[path[i]]
      BY <3>1, <3>2, <3>3, Zenon
    <3> QED BY <3>1, <3>4
  <2>3. 0 .. NumFrames + 1 \subseteq S
    <3>1. NumFrames + 1 \in Nat
      BY Sizes
    <3> HIDE DEF S
    <3> QED BY <2>1, <2>2, <3>1, Induction
  <2>4. \A i \in 0 .. NumFrames + 1 : walk[i] = path[i]
    BY <2>3
  <2> HIDE DEF Rule, S
  <2> QED BY <1>3, <2>4
<1>4. Behind(link, start) = CHOOSE walk : Obeys(walk)
  BY DEF Behind
<1> HIDE DEF Obeys
<1> QED BY <1>2, <1>3, <1>4

(* The row that is strung on the pointers is what both walks visit. *)
LEMMA StrungWalks ==
  ASSUME NEW row, NEW nx, NEW pv, Strung(row, nx, pv)
  PROVE  \A i \in 0 .. (NumFrames + 1) :
           /\ Behind(nx, head)[i] = At(row, i)
           /\ Behind(pv, tail)[i] = At(row, NumFrames + 1 - i)
<1> DEFINE forth == [i \in 0 .. (NumFrames + 1) |-> At(row, i)]
           back  == [i \in 0 .. (NumFrames + 1) |-> At(row, NumFrames + 1 - i)]
<1>1. \A i \in 0 .. (NumFrames + 1) : At(row, i) \in Node
  BY AtNode DEF Strung
<1>2. At(row, 0) = head /\ At(row, NumFrames + 1) = tail
  BY AtNode DEF Strung
<1>3. Behind(nx, head) = forth
  <2>1. forth \in [0 .. (NumFrames + 1) -> Node] /\ forth[0] = head
    BY <1>1, <1>2, Sizes
  <2>2. ASSUME NEW i \in 0 .. NumFrames PROVE nx[forth[i]] = forth[i + 1]
    <3>1. i \in 0 .. (NumFrames + 1) /\ i + 1 \in 0 .. (NumFrames + 1)
      BY Sizes
    <3>2. forth[i] = At(row, i) /\ forth[i + 1] = At(row, i + 1)
      BY <3>1
    <3> QED BY <3>1, <3>2 DEF Strung
  <2> HIDE DEF forth
  <2> QED BY <2>1, <2>2, WalkFollows
<1>4. Behind(pv, tail) = back
  <2>1. back \in [0 .. (NumFrames + 1) -> Node] /\ back[0] = tail
    <3>1. \A i \in 0 .. (NumFrames + 1) : NumFrames + 1 - i \in 0 .. (NumFrames + 1)
      BY Sizes
    <3>2. NumFrames + 1 - 0 = NumFrames + 1 /\ 0 \in 0 .. (NumFrames + 1)
      BY Sizes
    <3> QED BY <1>1, <1>2, <3>1, <3>2
  <2>2. ASSUME NEW i \in 0 .. NumFrames PROVE pv[back[i]] = back[i + 1]
    <3> DEFINE k == NumFrames - i
    <3>1. /\ i \in 0 .. (NumFrames + 1) /\ i + 1 \in 0 .. (NumFrames + 1)
          /\ k \in 0 .. NumFrames
          /\ NumFrames + 1 - i = k + 1 /\ NumFrames + 1 - (i + 1) = k
      BY Sizes
    <3>2. back[i] = At(row, k + 1) /\ back[i + 1] = At(row, k)
      BY <3>1
    <3>3. pv[At(row, k + 1)] = At(row, k)
      BY <3>1 DEF Strung
    <3> QED BY <3>2, <3>3
  <2> HIDE DEF back
  <2> QED BY <2>1, <2>2, WalkFollows
<1> QED BY <1>3, <1>4

(* There is one such row only, and it is the one the properties speak of. *)
LEMMA StrungRow ==
  ASSUME NEW row, NEW nx, NEW pv, Strung(row, nx, pv)
  PROVE  [i \in Position |-> Behind(nx, head)[i]] = row
<1>1. \A i \in Position : i \in 0 .. (NumFrames + 1)
  BY Sizes
<1>2. \A i \in Position : At(row, i) = row[i]
  BY AtNode DEF Strung
<1>3. \A i \in Position : Behind(nx, head)[i] = row[i]
  BY <1>1, <1>2, StrungWalks
<1>4. row = [i \in Position |-> row[i]]
  BY DEF Strung, Orders
<1> QED BY <1>3, <1>4

(* What the invariant says is what the properties ask for. *)
LEMMA InvImplies == ListInv => TypeOK /\ WalkIsComplete /\ VictimIsOldest
<1> SUFFICES ASSUME ListInv PROVE TypeOK /\ WalkIsComplete /\ VictimIsOldest
  OBVIOUS
<1>1. PICK row \in Orders : Strung(row, next, prev) /\ ByAge(row, lastUse)
  BY DEF ListInv
<1> DEFINE last == NumFrames + 1
<1>2. /\ \A i \in 0 .. last : At(row, i) \in Node
      /\ \A i \in Position : At(row, i) = row[i] /\ row[i] \in Frame
      /\ At(row, 0) = head /\ At(row, last) = tail
      /\ \A i, j \in 0 .. last : At(row, i) = At(row, j) => i = j
  BY <1>1, AtNode DEF Strung
<1>3. TypeOK
  <2>1. ASSUME NEW n \in Node PROVE /\ next[n] = null <=> n = tail
                                    /\ prev[n] = null <=> n = head
    <3>1. PICK i \in 0 .. last : At(row, i) = n
      BY <1>1, NodeAt DEF Strung
    <3>2. \A m \in Node : m # null
      BY Sizes
    <3>3. next[n] = null <=> n = tail
      <4>1. CASE i = last
        BY <1>1, <1>2, <3>1, <4>1 DEF Strung
      <4>2. CASE i # last
        <5>1. i \in 0 .. NumFrames /\ i + 1 \in 0 .. last
          BY <4>2, Sizes
        <5>2. next[n] = At(row, i + 1)
          BY <1>1, <3>1, <5>1 DEF Strung
        <5>3. n # tail
          BY <1>2, <3>1, <4>2, Sizes
        <5> QED BY <1>2, <3>2, <5>1, <5>2, <5>3
      <4> QED BY <4>1, <4>2
    <3>4. prev[n] = null <=> n = head
      <4>1. CASE i = 0
        BY <1>1, <1>2, <3>1, <4>1 DEF Strung
      <4>2. CASE i # 0
        <5>1. i - 1 \in 0 .. NumFrames /\ i - 1 \in 0 .. last /\ (i - 1) + 1 = i
          BY <4>2, Sizes
        <5>2. prev[At(row, (i - 1) + 1)] = At(row, i - 1)
          BY <1>1, <5>1 DEF Strung
        <5>3. n # head
          BY <1>2, <3>1, <4>2, Sizes
        <5> QED BY <1>2, <3>1, <3>2, <5>1, <5>2, <5>3
      <4> QED BY <4>1, <4>2
    <3> QED BY <3>3, <3>4
  <2> QED BY <1>1, <2>1 DEF TypeOK, ListInv, History, Strung
<1>4. WalkIsComplete
  <2>1. \A i \in 0 .. (NumFrames + 1) :
          /\ Behind(next, head)[i] = At(row, i)
          /\ Behind(prev, tail)[i] = At(row, NumFrames + 1 - i)
    BY <1>1, StrungWalks
  <2>2. {Behind(next, head)[i] : i \in Position} = Frame
    <3>1. \A i \in Position : i \in 0 .. (NumFrames + 1)
      BY Sizes
    <3>2. \A i \in Position : Behind(next, head)[i] = row[i]
      BY <1>2, <2>1, <3>1
    <3>3. \A f \in Frame : \E i \in Position : row[i] = f
      BY <1>1 DEF Strung, IsPermutation
    <3> QED BY <1>2, <3>2, <3>3
  <2>3. Behind(next, head)[NumFrames + 1] = tail
    BY <1>2, <2>1, Sizes
  <2>4. ASSUME NEW i \in 0 .. (NumFrames + 1)
        PROVE  Behind(prev, tail)[i] = Behind(next, head)[NumFrames + 1 - i]
    <3>1. NumFrames + 1 - i \in 0 .. (NumFrames + 1)
      BY Sizes
    <3> QED BY <2>1, <3>1
  <2> QED BY <2>2, <2>3, <2>4 DEF WalkIsComplete
<1>5. VictimIsOldest
  <2>1. get_lru_frame = row[NumFrames]
    <3>1. NumFrames \in 0 .. NumFrames /\ NumFrames \in Position
      BY Sizes
    <3>2. prev[tail] = At(row, NumFrames)
      BY <1>1, <1>2, <3>1 DEF Strung
    <3> QED BY <1>2, <3>1, <3>2 DEF get_lru_frame
  <2>2. ASSUME NEW f \in Frame PROVE lastUse[row[NumFrames]] <= lastUse[f]
    <3>1. PICK i \in Position : row[i] = f
      <4>1. \A g \in Frame : \E i \in Position : row[i] = g
        BY <1>1 DEF Strung, IsPermutation
      <4> QED BY <4>1
    <3>2. NumFrames \in Position /\ (i < NumFrames \/ i = NumFrames)
      BY Sizes
    <3>3. lastUse[f] \in Int /\ lastUse[row[NumFrames]] \in Int
      <4>1. \A g \in Frame : lastUse[g] \in Int
        BY Sizes DEF ListInv, History
      <4>2. row[NumFrames] \in Frame
        BY <1>2, <3>2
      <4> QED BY <4>1, <4>2
    <3>4. CASE i < NumFrames
      <4>1. i \in Position /\ NumFrames \in Position /\ i < NumFrames
        BY <3>2, <3>4
      <4>2. lastUse[row[NumFrames]] < lastUse[row[i]]
        BY <1>1, <4>1 DEF ByAge
      <4> QED BY <3>1, <3>3, <4>2
    <3>5. CASE i = NumFrames
      BY <3>1, <3>3, <3>5
    <3> QED BY <3>2, <3>4, <3>5
  <2> QED BY <2>1, <2>2 DEF VictimIsOldest
<1> QED BY <1>3, <1>4, <1>5

-----------------------------------------------------------------------------
(* What access_frame does to a row: the frames in front of the one it      *)
(* moves go back by one place.                                             *)
LEMMA AccessRow ==
  ASSUME NEW row \in Orders, IsPermutation(row), Distinct(row), NEW frame \in Frame
  PROVE  LET p == PositionOf(row, frame)
             new == AccessFrame(row, frame)
         IN  /\ p \in Position /\ row[p] = frame
             /\ new \in Orders /\ new[1] = frame
             /\ \A i \in Position : i > 1 /\ i <= p =>
                  i - 1 \in Position /\ new[i] = row[i - 1]
             /\ \A i \in Position : i > p => new[i] = row[i]
<1> DEFINE p == PositionOf(row, frame)
           new == AccessFrame(row, frame)
<1>1. p \in Position /\ row[p] = frame
  BY DEF PositionOf, IsPermutation
<1>2. new = [i \in Position |-> IF i = 1 THEN frame
                               ELSE IF i <= p THEN row[i - 1] ELSE row[i]]
  BY DEF AccessFrame
<1> HIDE DEF p, new
<1>3. 1 \in Position
  BY Sizes
<1>4. \A i \in Position : i > 1 /\ i <= p => i - 1 \in Position /\ new[i] = row[i - 1]
  BY <1>2, Sizes
<1>5. \A i \in Position : i > p => new[i] = row[i]
  BY <1>1, <1>2, Sizes
<1>6. \A i \in Position : new[i] \in Frame
  BY <1>1, <1>2, <1>4, Sizes DEF Orders
<1>7. new \in Orders /\ new[1] = frame
  BY <1>2, <1>3, <1>6 DEF Orders
<1> QED BY <1>1, <1>4, <1>5, <1>7 DEF p, new

(* It stays a row of different frames with a place for each. *)
LEMMA AccessKeeps ==
  ASSUME NEW row \in Orders, IsPermutation(row), Distinct(row), NEW frame \in Frame
  PROVE  IsPermutation(AccessFrame(row, frame)) /\ Distinct(AccessFrame(row, frame))
<1> DEFINE p == PositionOf(row, frame)
           new == AccessFrame(row, frame)
<1>1. /\ p \in Position /\ row[p] = frame
      /\ new \in Orders /\ new[1] = frame
      /\ \A i \in Position : i > 1 /\ i <= p => i - 1 \in Position /\ new[i] = row[i - 1]
      /\ \A i \in Position : i > p => new[i] = row[i]
  BY AccessRow
<1> HIDE DEF p, new
(* where an element of the new row comes from *)
<1> DEFINE Source(i) == IF i = 1 THEN p ELSE IF i <= p THEN i - 1 ELSE i
<1>2. ASSUME NEW i \in Position
      PROVE  Source(i) \in Position /\ new[i] = row[Source(i)]
  BY <1>1, Sizes
<1>3. \A i, j \in Position : Source(i) = Source(j) => i = j
  BY <1>1, Sizes
<1>4. \A k \in Position : \E i \in Position : Source(i) = k
  <2> SUFFICES ASSUME NEW k \in Position PROVE \E i \in Position : Source(i) = k
    OBVIOUS
  <2>1. CASE k = p
    <3>1. 1 \in Position /\ Source(1) = k
      BY <2>1, Sizes
    <3> QED BY <3>1
  <2>2. CASE k < p
    <3>1. k + 1 \in Position /\ Source(k + 1) = k
      BY <1>1, <2>2, Sizes
    <3> QED BY <3>1
  <2>3. CASE k > p
    <3>1. Source(k) = k
      BY <1>1, <2>3, Sizes
    <3> QED BY <3>1
  <2> QED BY <1>1, <2>1, <2>2, <2>3, Sizes
<1> HIDE DEF Source
<1>5. Distinct(new)
  BY <1>2, <1>3 DEF Distinct
<1>6. IsPermutation(new)
  <2> SUFFICES ASSUME NEW f \in Frame PROVE \E i \in Position : new[i] = f
    BY DEF IsPermutation
  <2>1. PICK k \in Position : row[k] = f
    BY DEF IsPermutation
  <2>2. PICK i \in Position : Source(i) = k
    BY <1>4
  <2>3. new[i] = f
    BY <1>2, <2>1, <2>2
  <2> QED BY <2>3
<1> QED BY <1>5, <1>6 DEF new

(* The four assignments to next and the four to prev, in the order in      *)
(* which lru.c makes them, string the new row.                             *)
LEMMA RelinkStrings ==
  ASSUME NEW row, Strung(row, next, prev), NEW node \in Frame, Relink(node)
  PROVE  Strung(AccessFrame(row, node), next', prev')
<1> DEFINE p == PositionOf(row, node)
           new == AccessFrame(row, node)
           last == NumFrames + 1
           Old(i) == At(row, i)
           New(i) == At(new, i)
<1>0. row \in Orders /\ IsPermutation(row) /\ Distinct(row)
  BY DEF Strung
<1>1. /\ p \in Position /\ row[p] = node
      /\ new \in Orders /\ new[1] = node
      /\ \A i \in Position : i > 1 /\ i <= p => i - 1 \in Position /\ new[i] = row[i - 1]
      /\ \A i \in Position : i > p => new[i] = row[i]
  BY <1>0, AccessRow
<1>2. IsPermutation(new) /\ Distinct(new)
  BY <1>0, AccessKeeps
<1> HIDE DEF p, new
<1>3. /\ \A i \in 0 .. last : Old(i) \in Node
      /\ \A i \in Position : Old(i) = row[i]
      /\ Old(0) = head /\ Old(last) = tail
      /\ \A i, j \in 0 .. last : Old(i) = Old(j) => i = j
  BY <1>0, AtNode
<1>4. /\ \A i \in Position : New(i) = new[i]
      /\ New(0) = head /\ New(last) = tail
  BY <1>1, <1>2, AtNode
<1> HIDE DEF Old, New
<1>5. /\ \A i \in Position : i > 1 /\ i <= p => New(i) = Old(i - 1)
      /\ \A i \in 0 .. last : i > p => New(i) = Old(i)
      /\ New(1) = node /\ Old(p) = node
  <2>1. ASSUME NEW i \in Position, i > 1, i <= p PROVE New(i) = Old(i - 1)
    BY <1>1, <1>3, <1>4, <2>1
  <2>2. ASSUME NEW i \in 0 .. last, i > p PROVE New(i) = Old(i)
    <3>1. i = last \/ i \in Position
      BY <1>1, <2>2, Sizes
    <3> QED BY <1>1, <1>3, <1>4, <2>2, <3>1
  <2>3. 1 \in Position
    BY Sizes
  <2> QED BY <1>1, <1>3, <1>4, <2>1, <2>2, <2>3
<1>6. \A i \in 0 .. NumFrames : next[Old(i)] = Old(i + 1) /\ prev[Old(i + 1)] = Old(i)
  BY DEF Strung, Old
<1>7. next[tail] = null /\ prev[head] = null
      /\ next \in [Node -> Node \cup {null}] /\ prev \in [Node -> Node \cup {null}]
  BY DEF Strung
<1> DEFINE left == Old(p - 1)
           right == Old(p + 1)
           first == IF p = 1 THEN Old(2) ELSE Old(1)
<1>8. next[node] = right /\ prev[node] = left
  <2>1. p \in 0 .. NumFrames /\ p - 1 \in 0 .. NumFrames /\ (p - 1) + 1 = p
    BY <1>1, Sizes
  <2>2. prev[Old((p - 1) + 1)] = Old(p - 1)
    BY <1>6, <2>1
  <2> QED BY <1>5, <1>6, <2>1, <2>2
<1>9. [next EXCEPT ![prev[node]] = next[node]][head] = first
  <2>1. p - 1 \in 0 .. last /\ 0 \in 0 .. NumFrames /\ 0 \in 0 .. last
    BY <1>1, Sizes
  <2>2. head \in Node /\ next[head] = Old(1)
    <3>1. next[Old(0)] = Old(0 + 1)
      BY <1>6, <2>1
    <3> QED BY <1>3, <3>1, Sizes
  <2>3. CASE p = 1
    <3>1. left = head /\ right = Old(2)
      BY <1>3, <2>3
    <3> QED BY <1>7, <1>8, <2>2, <2>3, <3>1
  <2>4. CASE p # 1
    <3>1. p - 1 # 0
      BY <1>1, <2>4, Sizes
    <3>2. left # head
      BY <1>3, <2>1, <3>1
    <3> QED BY <1>7, <1>8, <2>2, <2>4, <3>2
  <2> QED BY <2>3, <2>4
<1>10. next' = [[next EXCEPT ![left] = right] EXCEPT ![head] = node, ![node] = first]
  BY <1>8, <1>9 DEF Relink
<1>11. prev' = [[prev EXCEPT ![right] = left] EXCEPT ![first] = node, ![node] = head]
  BY <1>8, <1>9 DEF Relink
<1> HIDE DEF left, right, first
(* the new pointers, by the old place of a node *)
<1>12. /\ p \in 0 .. last /\ p - 1 \in 0 .. last /\ p + 1 \in 0 .. last
       /\ 0 \in 0 .. last /\ 1 \in 0 .. last /\ 2 \in 0 .. last /\ p # 0
  BY <1>1, Sizes
<1>13. ASSUME NEW k \in 0 .. last
       PROVE  next'[Old(k)] = IF k = p THEN first ELSE IF k = 0 THEN node
                              ELSE IF k = p - 1 THEN right ELSE next[Old(k)]
  <2>1. Old(k) \in Node
    BY <1>3
  <2>2. /\ Old(k) = node <=> k = p
        /\ Old(k) = head <=> k = 0
        /\ Old(k) = left <=> k = p - 1
    <3> HIDE DEF last
    <3> QED BY <1>3, <1>5, <1>12 DEF left
  <2> HIDE DEF last
  <2> QED BY <1>7, <1>10, <2>1, <2>2, Zenon
<1>14. ASSUME NEW k \in 0 .. last
       PROVE  prev'[Old(k)] = IF k = p THEN head
                              ELSE IF k = (IF p = 1 THEN 2 ELSE 1) THEN node
                              ELSE IF k = p + 1 THEN left ELSE prev[Old(k)]
  <2>1. Old(k) \in Node
    BY <1>3
  <2>2. /\ Old(k) = node <=> k = p
        /\ Old(k) = first <=> k = IF p = 1 THEN 2 ELSE 1
        /\ Old(k) = right <=> k = p + 1
    <3> HIDE DEF last
    <3> QED BY <1>3, <1>5, <1>12 DEF first, right
  <2> HIDE DEF last
  <2> QED BY <1>7, <1>11, <2>1, <2>2, Zenon
<1>15. ASSUME NEW i \in 0 .. NumFrames
       PROVE  next'[New(i)] = New(i + 1) /\ prev'[New(i + 1)] = New(i)
  <2>1. CASE i = 0
    <3>1. New(i) = Old(0) /\ New(i + 1) = Old(p)
      BY <1>3, <1>4, <1>5, <2>1
    <3> QED BY <1>3, <1>5, <1>12, <1>13, <1>14, <2>1, <3>1
  <2>2. CASE i = 1
    <3>1. New(i) = Old(p) /\ New(i + 1) = Old(IF p = 1 THEN 2 ELSE 1)
      BY <1>1, <1>5, <1>12, <2>2, Sizes
    <3>2. first = Old(IF p = 1 THEN 2 ELSE 1)
      BY DEF first
    <3> QED BY <1>5, <1>12, <1>13, <1>14, <3>1, <3>2
  <2>3. CASE i > 1 /\ i < p
    <3>1. /\ New(i) = Old(i - 1) /\ New(i + 1) = Old((i + 1) - 1)
          /\ (i + 1) - 1 = i /\ (i - 1) + 1 = i
          /\ i - 1 \in 0 .. NumFrames /\ i - 1 \in 0 .. last /\ i \in 0 .. last
      BY <1>1, <1>5, <2>3, Sizes
    <3>2. next[Old(i - 1)] = Old(i) /\ prev[Old(i)] = Old(i - 1)
      BY <1>6, <3>1
    <3>3. next'[Old(i - 1)] = Old(i)
      BY <1>12, <1>13, <2>3, <3>1, <3>2
    <3>4. prev'[Old(i)] = Old(i - 1)
      BY <1>12, <1>14, <2>3, <3>1, <3>2
    <3> QED BY <3>1, <3>3, <3>4
  <2>4. CASE i > 1 /\ i = p
    <3>1. New(i) = Old(p - 1) /\ New(i + 1) = Old(p + 1)
      BY <1>1, <1>5, <1>12, <2>4, Sizes
    <3>2. next'[Old(p - 1)] = Old(p + 1)
      BY <1>12, <1>13, <2>4 DEF right
    <3>3. prev'[Old(p + 1)] = Old(p - 1)
      BY <1>12, <1>14, <2>4 DEF left
    <3> QED BY <3>1, <3>2, <3>3
  <2>5. CASE i > 1 /\ i > p
    <3>1. /\ New(i) = Old(i) /\ New(i + 1) = Old(i + 1)
          /\ i \in 0 .. last /\ i + 1 \in 0 .. last
      BY <1>1, <1>5, <2>5, Sizes
    <3>2. next[Old(i)] = Old(i + 1) /\ prev[Old(i + 1)] = Old(i)
      BY <1>6
    <3>3. next'[Old(i)] = Old(i + 1)
      BY <1>12, <1>13, <2>5, <3>1, <3>2
    <3>4. prev'[Old(i + 1)] = Old(i)
      BY <1>12, <1>14, <2>5, <3>1, <3>2
    <3> QED BY <3>1, <3>3, <3>4
  <2> QED BY <1>1, <2>1, <2>2, <2>3, <2>4, <2>5, Sizes
<1>16. next'[tail] = null /\ prev'[head] = null
  <2>1. last \in 0 .. last /\ last # p /\ last # 0 /\ last # p - 1
    BY <1>1, Sizes
  <2>2. next'[Old(last)] = next[Old(last)]
    BY <1>13, <2>1
  <2>3. prev'[Old(0)] = prev[Old(0)]
    BY <1>12, <1>14
  <2> QED BY <1>3, <1>7, <2>2, <2>3
<1>17. next' \in [Node -> Node \cup {null}] /\ prev' \in [Node -> Node \cup {null}]
  <2>1. {node, left, right, first, head} \subseteq Node
    BY <1>3, <1>5, <1>12 DEF left, right, first
  <2> QED BY <1>7, <1>10, <1>11, <2>1
<1> QED BY <1>1, <1>2, <1>15, <1>16, <1>17 DEF Strung, New, new

-----------------------------------------------------------------------------
(* lru_init strings the frames in increasing order. *)
LEMMA InitStrings == Init => Strung(LruInit, next, prev) /\ ListInv
<1> SUFFICES ASSUME Init PROVE Strung(LruInit, next, prev) /\ ListInv
  OBVIOUS
<1>1. LruInit \in Orders /\ \A i \in Position : LruInit[i] = i - 1
  BY Sizes DEF LruInit, Orders
<1>2. IsPermutation(LruInit)
  <2> SUFFICES ASSUME NEW f \in Frame PROVE \E i \in Position : LruInit[i] = f
    BY DEF IsPermutation
  <2>1. f + 1 \in Position /\ LruInit[f + 1] = f
    BY <1>1, Sizes
  <2> QED BY <2>1
<1>3. Distinct(LruInit)
  BY <1>1, Sizes DEF Distinct
<1>4. \A i \in 0 .. (NumFrames + 1) :
        At(LruInit, i) = IF i = NumFrames + 1 THEN -2 ELSE i - 1
  BY <1>1, Sizes DEF At
<1>5. ASSUME NEW i \in 0 .. NumFrames
      PROVE  /\ next[At(LruInit, i)] = At(LruInit, i + 1)
             /\ prev[At(LruInit, i + 1)] = At(LruInit, i)
  <2>1. /\ At(LruInit, i) = i - 1 /\ i - 1 \in Node
        /\ At(LruInit, i + 1) = IF i = NumFrames THEN -2 ELSE i
        /\ (IF i = NumFrames THEN -2 ELSE i) \in Node
    BY <1>4, Sizes
  <2> QED BY <2>1, Sizes DEF Init, InitNext, InitPrev
<1>6. next \in [Node -> Node \cup {null}] /\ next[tail] = null
  BY Sizes DEF Init, InitNext
<1>7. prev \in [Node -> Node \cup {null}] /\ prev[head] = null
  BY Sizes DEF Init, InitPrev
<1>8. Strung(LruInit, next, prev)
  BY <1>1, <1>2, <1>3, <1>5, <1>6, <1>7 DEF Strung
<1>9. History
  BY Sizes DEF Init, History
<1>10. ByAge(LruInit, lastUse)
  <2> SUFFICES ASSUME NEW i \in Position, NEW j \in Position, i < j
               PROVE  lastUse[LruInit[j]] < lastUse[LruInit[i]]
    BY DEF ByAge
  <2>1. LruInit[i] = i - 1 /\ LruInit[j] = j - 1 /\ i - 1 \in Frame /\ j - 1 \in Frame
    BY <1>1, Sizes
  <2>2. lastUse[i - 1] = -1 - (i - 1) /\ lastUse[j - 1] = -1 - (j - 1)
    BY <2>1 DEF Init
  <2> QED BY <2>1, <2>2, Sizes
<1> QED BY <1>1, <1>8, <1>9, <1>10 DEF ListInv

(* An access keeps the frames behind the one it moves in their order, and  *)
(* that one has the latest use of all.                                     *)
LEMMA AccessKeepsAge ==
  ASSUME NEW row \in Orders, IsPermutation(row), Distinct(row), ByAge(row, lastUse),
         History, NEW frame \in Frame, clock < MaxAccess,
         clock' = clock + 1, lastUse' = [lastUse EXCEPT ![frame] = clock + 1]
  PROVE  History' /\ ByAge(AccessFrame(row, frame), lastUse')
<1> DEFINE p == PositionOf(row, frame)
           new == AccessFrame(row, frame)
<1>1. /\ p \in Position /\ row[p] = frame
      /\ new \in Orders /\ new[1] = frame
      /\ \A i \in Position : i > 1 /\ i <= p => i - 1 \in Position /\ new[i] = row[i - 1]
      /\ \A i \in Position : i > p => new[i] = row[i]
  BY AccessRow
<1> HIDE DEF p, new
<1>2. \A f \in Frame : lastUse[f] \in Int /\ lastUse[f] <= clock
  BY Sizes DEF History
<1>3. History'
  BY Sizes DEF History
<1>4. \A f \in Frame : lastUse'[f] = IF f = frame THEN clock + 1 ELSE lastUse[f]
  BY DEF History
<1>5. ASSUME NEW i \in Position, NEW j \in Position, i < j
      PROVE  lastUse'[new[j]] < lastUse'[new[i]]
  <2> DEFINE Source(k) == IF k = 1 THEN p ELSE IF k <= p THEN k - 1 ELSE k
  <2>1. \A k \in Position : Source(k) \in Position /\ new[k] = row[Source(k)]
    BY <1>1, Sizes
  <2>2. j # 1 /\ Source(j) # p
    BY <1>1, <1>5, Sizes
  <2>3. i # 1 => Source(i) # p /\ Source(i) < Source(j)
    BY <1>1, <1>5, Sizes
  <2>4. Source(1) = p
    OBVIOUS
  <2> HIDE DEF Source
  <2>5. new[j] # frame /\ new[j] \in Frame /\ new[i] \in Frame
    BY <1>1, <2>1, <2>2 DEF Distinct, Orders
  <2>6. CASE i = 1
    <3>1. lastUse'[new[i]] = clock + 1 /\ lastUse'[new[j]] = lastUse[new[j]]
      BY <1>1, <1>4, <2>5, <2>6
    <3> QED BY <1>2, <2>5, <3>1, Sizes DEF History
  <2>7. CASE i # 1
    <3>1. new[i] # frame
      BY <1>1, <2>1, <2>3, <2>7 DEF Distinct
    <3>2. lastUse'[new[i]] = lastUse[new[i]] /\ lastUse'[new[j]] = lastUse[new[j]]
      BY <1>4, <2>5, <3>1
    <3> QED BY <2>1, <2>3, <2>7, <3>2 DEF ByAge
  <2> QED BY <2>6, <2>7
<1> QED BY <1>3, <1>5 DEF ByAge, new

(* The operators of the abstract specification are those of the list. *)
LEMMA SameOperators ==
  /\ Order!Frame = Frame /\ Order!LruInit = LruInit
  /\ \A row, frame : Order!AccessFrame(row, frame) = AccessFrame(row, frame)
BY DEF Order!Frame, Frame, Order!NumFrames, NumFrames, Order!LruInit, LruInit,
       Order!Position, Position, Order!AccessFrame, AccessFrame,
       Order!PositionOf, PositionOf

(* A step moves one frame of the row to the front. *)
LEMMA StepKeepsInv ==
  ListInv /\ [Next]_vars => ListInv' /\ [Order!Next]_Row
<1> SUFFICES ASSUME ListInv, [Next]_vars PROVE ListInv' /\ [Order!Next]_Row
  OBVIOUS
<1>1. PICK row \in Orders : Strung(row, next, prev) /\ ByAge(row, lastUse)
  BY DEF ListInv
<1>2. ASSUME NEW frame \in Frame, access_frame(frame)
      PROVE  ListInv' /\ [Order!Next]_Row
  <2> DEFINE new == AccessFrame(row, frame)
  <2>1. Strung(new, next', prev')
    BY <1>1, <1>2, RelinkStrings DEF access_frame
  <2>2. History' /\ ByAge(new, lastUse')
    BY <1>1, <1>2, AccessKeepsAge DEF access_frame, ListInv, Strung
  <2> HIDE DEF new
  <2>3. ListInv'
    BY <2>1, <2>2 DEF ListInv, Strung
  <2>4. Row = row
    BY <1>1, StrungRow DEF Row
  <2>5. Row' = new
    BY <2>1, StrungRow DEF Row
  <2>6. Order!Access(frame)
    BY <2>4, <2>5, SameOperators DEF Order!Access, new
  <2> QED BY <2>3, <2>6, SameOperators DEF Order!Next
<1>3. CASE UNCHANGED vars
  <2>1. ListInv'
    BY <1>3 DEF ListInv, History, vars
  <2>2. Row' = Row
    BY <1>3 DEF Row, Behind, vars
  <2> QED BY <2>1, <2>2
<1> QED BY <1>2, <1>3 DEF Next

(* In every state a row is strung on the pointers, forth and back. *)
THEOREM Invariance == Spec => []ListInv
<1>1. Init => ListInv
  BY InitStrings
<1>2. ListInv /\ [Next]_vars => ListInv'
  BY StepKeepsInv
<1> QED BY <1>1, <1>2, PTL DEF Spec

(* Pointers stay inside the list, and only its ends have a null pointer. *)
THEOREM TypeCorrect == Spec => []TypeOK
BY Invariance, InvImplies, PTL

(* access_frame's search and lru_deinit's walk visit every frame once and  *)
(* stop, after any number of accesses.                                     *)
THEOREM WalksComplete == Spec => []WalkIsComplete
BY Invariance, InvImplies, PTL

(* get_lru_frame offers a frame that no other was used before. *)
THEOREM OldestIsVictim == Spec => []VictimIsOldest
BY Invariance, InvImplies, PTL

(* The pointers implement the row of frames on which paging is modelled. *)
THEOREM ListIsARow == Spec => ImplementsOrder
<1>1. Init => Order!Init
  <2> SUFFICES ASSUME Init PROVE Order!Init
    OBVIOUS
  <2>1. Row = LruInit
    BY InitStrings, StrungRow DEF Row
  <2> QED BY <2>1, SameOperators DEF Order!Init
<1>2. ListInv /\ [Next]_vars => [Order!Next]_Row
  BY StepKeepsInv
<1> QED BY <1>1, <1>2, Invariance, PTL DEF Spec, ImplementsOrder, Order!Spec

=============================================================================
