---------------------------- MODULE ClosableFifo ----------------------------
(***************************************************************************)
(* What the request queue of rpBenchmark2 promises: a bounded FIFO that    *)
(* can be closed.  What was put in before the close is still taken, what   *)
(* comes after it is dropped, and the taker learns of the close when the   *)
(* queue is empty.                                                         *)
(***************************************************************************)
EXTENDS Naturals, Sequences

CONSTANTS
  Msgs,       \* what can be put
  Capacity    \* how many fit

VARIABLES
  queue,    \* put and not taken
  closed,   \* nothing can be put any more
  ended     \* the taker has been told

fifoVars == <<queue, closed, ended>>

Init == queue = <<>> /\ closed = FALSE /\ ended = FALSE

Put(m) == /\ ~closed /\ Len(queue) < Capacity
          /\ queue' = Append(queue, m)
          /\ UNCHANGED <<closed, ended>>

Take == /\ queue # <<>>
        /\ queue' = Tail(queue)
        /\ UNCHANGED <<closed, ended>>

Close == closed' = TRUE /\ UNCHANGED <<queue, ended>>

End == /\ closed /\ queue = <<>>
       /\ ended' = TRUE
       /\ UNCHANGED <<queue, closed>>

Next == (\E m \in Msgs : Put(m)) \/ Take \/ Close \/ End

(* What never goes wrong. *)
Safety == Init /\ [][Next]_fifoVars

(* Whatever is in the queue is taken, and a close is noticed. *)
Spec == Safety /\ WF_fifoVars(Take) /\ WF_fifoVars(End)
=============================================================================
