------------------------------- MODULE LruList ------------------------------
(***************************************************************************)
(* The doubly linked list of src/memory/lru.c: a dummy head, one node per  *)
(* frame, a dummy tail, and two pointers in every node.  Only access_frame *)
(* changes it.  lastUse is a history variable: the access at which a frame *)
(* was last used, and for a frame never used its place in the initial row. *)
(***************************************************************************)
EXTENDS LruOrder, FiniteSets

CONSTANT MaxAccess   \* bound on the history variable, not on the code

ASSUME AccessAssumption == MaxAccess \in Nat

VARIABLES
  next, prev,        \* the pointers of struct LRUNode
  clock, lastUse     \* history

vars == <<next, prev, clock, lastUse>>

(* The nodes are named by their frames; head and tail both hold frame -1.  *)
head == -1
tail == -2
null == -3

Node == Frame \cup {head, tail}

(* A fault: the last node is not linked to the tail. *)
BrokenInitNext == [n \in Node |-> IF n = tail \/ n = NumFrames - 1 THEN null
                                  ELSE n + 1]

(* lru_init *)
InitNext == [n \in Node |-> CASE n = head         -> 0
                              [] n = NumFrames - 1 -> tail
                              [] n = tail          -> null
                              [] OTHER             -> n + 1]
InitPrev == [n \in Node |-> CASE n = tail -> NumFrames - 1
                              [] n = head -> null
                              [] OTHER    -> n - 1]

Init ==
  /\ next = InitNext
  /\ prev = InitPrev
  /\ clock = 0
  /\ lastUse = [f \in Frame |-> -1 - f]

(* A fault: head->next is read before the gap is sealed. *)
BrokenStaleNext(node) ==
  LET right == next[head]
  IN  /\ next' = [next EXCEPT ![prev[node]] = next[node],
                             ![head] = node, ![node] = right]
      /\ prev' = [prev EXCEPT ![next[node]] = prev[node],
                             ![right] = node, ![node] = head]

(* A fault: the node is put behind the first frame, not in front of it. *)
BrokenBehindFirst(node) ==
  LET sealNext == [next EXCEPT ![prev[node]] = next[node]]
      sealPrev == [prev EXCEPT ![next[node]] = prev[node]]
      left     == sealNext[head]
      right    == sealNext[left]
  IN  /\ next' = [sealNext EXCEPT ![left] = node, ![node] = right]
      /\ prev' = [sealPrev EXCEPT ![right] = node, ![node] = left]

(* "extract target and seal gap", then "put node at head of queue": the    *)
(* second half reads head->next after the first half has written it.       *)
Relink(node) ==
  LET sealNext == [next EXCEPT ![prev[node]] = next[node]]
      sealPrev == [prev EXCEPT ![next[node]] = prev[node]]
      right    == sealNext[head]
  IN  /\ next' = [sealNext EXCEPT ![head] = node, ![node] = right]
      /\ prev' = [sealPrev EXCEPT ![right] = node, ![node] = head]

(* A fault: the search stops in front of the last node. *)
BrokenSearch(frame) ==
  /\ clock < MaxAccess
  /\ IF frame = prev[tail] THEN UNCHANGED <<next, prev>> ELSE Relink(frame)
  /\ clock' = clock + 1
  /\ lastUse' = [lastUse EXCEPT ![frame] = clock + 1]

access_frame(frame) ==
  /\ clock < MaxAccess
  /\ Relink(frame)
  /\ clock' = clock + 1
  /\ lastUse' = [lastUse EXCEPT ![frame] = clock + 1]

Next == \E frame \in Frame : access_frame(frame)

Spec == Init /\ [][Next]_vars

get_lru_frame == prev[tail]

-----------------------------------------------------------------------------
(* Pointers stay in the list: only the tail has nothing behind it and only *)
(* the head nothing in front.                                              *)
TypeOK ==
  /\ next \in [Node -> Node \cup {null}]
  /\ prev \in [Node -> Node \cup {null}]
  /\ \A n \in Node : (next[n] = null <=> n = tail) /\ (prev[n] = null <=> n = head)
  /\ clock \in 0 .. MaxAccess
  /\ lastUse \in [Frame -> (-NumFrames) .. MaxAccess]

(* The first i nodes behind the head; null is a fixed point so that the    *)
(* walk is defined on a broken list too.                                   *)
Behind(link, start) ==
  LET walk[i \in 0 .. NumFrames + 1] ==
        IF i = 0 THEN start
        ELSE IF walk[i - 1] = null THEN null ELSE link[walk[i - 1]]
  IN  walk

(* access_frame's search and lru_deinit walk the list without a bound:     *)
(* following next from the head must visit every frame once and then stop  *)
(* at the tail, and following prev from the tail the same row backwards.   *)
WalkIsComplete ==
  LET forth == Behind(next, head)
      back  == Behind(prev, tail)
  IN  /\ {forth[i] : i \in Position} = Frame
      /\ forth[NumFrames + 1] = tail
      /\ \A i \in 0 .. NumFrames + 1 : back[i] = forth[NumFrames + 1 - i]

(* get_lru_frame's promise: the frame it offers for eviction is one whose  *)
(* last use is the oldest.                                                 *)
VictimIsOldest == \A f \in Frame : lastUse[get_lru_frame] <= lastUse[f]

(* The list implements the row: walking it yields the sequence LruSpec     *)
(* moves frames in, so the operators of LruOrder describe access_frame.    *)
Row == [i \in Position |-> Behind(next, head)[i]]
Order == INSTANCE LruSpec WITH order <- Row
ImplementsOrder == Order!Spec

=============================================================================
