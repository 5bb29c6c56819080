---------------------------- MODULE MCPlayerQueue ----------------------------
(***************************************************************************)
(* PlayerStore without a reload: a queue of up to four rows is edited with *)
(* one undo toast; while the close of a queue of two can be undone, there  *)
(* are two rows at most, and a second toast only in front of no queue. A   *)
(* skip timer and a refill are not awaited both at once.                   *)
(***************************************************************************)
EXTENDS MCPlayerStore

Offers == {i \in DOMAIN toasts : toasts[i].kind = "close"}
Closed == Offers # {} \/ undoableCloseSequence # None

EditBounds == Len(toasts) <= 1 /\ Len(queue) + Len(toasts) <= MaxQueue

CloseBounds ==
    /\ Len(queue) + Len(toasts) <= 3
    /\ \A i \in Offers : Len(toasts[i].queue) <= 2
    /\ Len(toasts) = 2 =>
        /\ queue = <<>> /\ skips = 0 /\ refill = NoRefill
        /\ toasts[1].kind # toasts[2].kind

QueueBounds ==
    /\ skips = 0 \/ refill = NoRefill
    /\ IF Closed THEN CloseBounds ELSE EditBounds
=============================================================================
