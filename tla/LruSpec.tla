------------------------------- MODULE LruSpec ------------------------------
(***************************************************************************)
(* What an LRU list promises: a row of frames in which the only step moves *)
(* one frame to the front.                                                 *)
(***************************************************************************)
EXTENDS LruOrder

VARIABLE order

Init == order = LruInit

Access(frame) == order' = AccessFrame(order, frame)

Next == \E f \in Frame : Access(f)

Spec == Init /\ [][Next]_order

=============================================================================
