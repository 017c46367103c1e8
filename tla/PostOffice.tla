----------------------------- MODULE PostOffice -----------------------------
(***************************************************************************)
(* What com.h promises its clients, with no router, semaphore or shared    *)
(* segment in sight: every destination has a box of accepted messages,     *)
(* and com_recv hands them out one at a time, each exactly once, in the    *)
(* order they were accepted, with the payload they were accepted with.     *)
(***************************************************************************)
EXTENDS Sequences

CONSTANTS
  Ranks,     \* the user processes
  Payloads   \* what a message can carry

VARIABLES
  box,       \* box[q]: the messages accepted for q and not handed out yet
  handed     \* handed[q]: the message com_recv is returning in q, or none

poVars == <<box, handed>>

Messages == [src: Ranks, payload: Payloads]

Init == /\ box = [q \in Ranks |-> <<>>]
        /\ handed = [q \in Ranks |-> <<>>]

(* com_send of p to q: from here on p may not change what it sent. *)
Accept(q, m) == /\ box' = [box EXCEPT ![q] = Append(@, m)]
                /\ UNCHANGED handed

(* com_recv of q has its own copy of the oldest message. *)
Hand(q) == /\ box[q] # <<>>
           /\ handed[q] = <<>>
           /\ handed' = [handed EXCEPT ![q] = <<Head(box[q])>>]
           /\ box' = [box EXCEPT ![q] = Tail(@)]

(* com_recv returns. *)
Return(q) == /\ handed[q] # <<>>
             /\ handed' = [handed EXCEPT ![q] = <<>>]
             /\ UNCHANGED box

Next == \E q \in Ranks :
          \/ \E m \in Messages : Accept(q, m)
          \/ Hand(q)
          \/ Return(q)

Spec == Init /\ [][Next]_poVars
=============================================================================
