------------------------------ MODULE LruOrder ------------------------------
(***************************************************************************)
(* The recency order kept by src/memory/lru.c, as the program's other      *)
(* parts see it: the frames in a row, the most recently used one first.    *)
(* LruList models the doubly linked list behind it, and is shown to        *)
(* implement these operators.                                              *)
(*                                                                         *)
(* An order is a function on 1..NumFrames.  Operators named Broken... are  *)
(* faults: a run that passes with a definition must fail with its faulty   *)
(* form in its place.                                                      *)
(***************************************************************************)
EXTENDS Integers

CONSTANTS
  FRAME_SIZE,       \* lines in a frame (memory.h, a build flag)
  FRAME_STORE_SIZE  \* lines in the frame store (memory.h, a build flag)

(* FRAME_TABLE_SIZE of frame_store.h: a partial frame at the end is unused. *)
NumFrames == FRAME_STORE_SIZE \div FRAME_SIZE

ASSUME FrameAssumption ==
  /\ FRAME_SIZE \in Nat \ {0}
  /\ FRAME_STORE_SIZE \in Nat
  /\ NumFrames \in Nat \ {0}

Frame == 0 .. (NumFrames - 1)
Position == 1 .. NumFrames

Orders == [Position -> Frame]

(* lru_init links the frames behind the head in increasing order. *)
LruInit == [i \in Position |-> i - 1]

(* get_lru_frame: the node in front of the tail. *)
GetLruFrame(order) == order[NumFrames]

PositionOf(order, frame) == CHOOSE i \in Position : order[i] = frame

(* A fault: the frame is not moved at all. *)
BrokenNoAccess(order, frame) == order

(* A fault: the frame stays in its old place as well. *)
BrokenAccessTwice(order, frame) ==
  LET at == PositionOf(order, frame)
  IN  [i \in Position |-> IF i = 1 THEN frame
                          ELSE IF i < at THEN order[i - 1] ELSE order[i]]

(* access_frame: take the frame out of the row and put it behind the head. *)
AccessFrame(order, frame) ==
  LET at == PositionOf(order, frame)
  IN  [i \in Position |-> IF i = 1 THEN frame
                          ELSE IF i <= at THEN order[i - 1] ELSE order[i]]

(* Every frame has a place in the row: access_frame's search, which has no *)
(* end-of-list test, stops, and no frame can be lost to eviction.          *)
IsPermutation(order) == \A f \in Frame : \E i \in Position : order[i] = f

=============================================================================
