---------------------------- MODULE LocalBuffers ----------------------------
(***************************************************************************)
(* The two buffers inside one process of rpBenchmark2, with every          *)
(* semaphore and mutex operation of theirs: the receiver thread is the one *)
(* that fills both, pushing requests into the queue and setting responses, *)
(* one operation at a time; the request handler empties the queue and the  *)
(* compute thread the slot.  DistDb uses what this module shows of them.   *)
(***************************************************************************)
EXTENDS RequestQueue, ResponseSlot

CONSTANT Receiver    \* the pusher that is the receiver thread

ASSUME ReceiverAssumption == Receiver \in Pushers

allVars == <<vars, slotVars>>

BuffersInit == Init /\ SlotInit

(* The receiver begins an operation on the queue, or on the slot. *)
BeginPush(t) ==
  /\ t = Receiver => setpc = "idle"
  /\ Push(t)
  /\ UNCHANGED slotVars

BeginClose(t) ==
  /\ t = Receiver => setpc = "idle"
  /\ LockToClose(t)
  /\ UNCHANGED slotVars

BeginSet ==
  /\ pc[Receiver] = "idle"
  /\ ReceiveResponse
  /\ UNCHANGED vars

(* It goes on inside one. *)
InPush(t)  == PushSteps(t) /\ UNCHANGED slotVars
InClose(t) == CloseSteps(t) /\ UNCHANGED slotVars
InSet      == SetSteps /\ UNCHANGED vars

HandlerPop     == Pop /\ UNCHANGED slotVars
ComputeRequest == SendRequest /\ UNCHANGED vars
ComputeWait    == WaitSteps /\ UNCHANGED vars

BuffersNext ==
  \/ \E t \in Pushers : BeginPush(t) \/ InPush(t) \/ BeginClose(t) \/ InClose(t)
  \/ BeginSet \/ InSet
  \/ HandlerPop
  \/ ComputeRequest \/ ComputeWait

(* A thread inside an operation goes on when it can, and the handler calls *)
(* request_queue_pop again and again.  Nothing has to arrive, and nobody   *)
(* has to close.                                                           *)
BuffersSpec ==
  /\ BuffersInit /\ [][BuffersNext]_allVars
  /\ \A t \in Pushers : WF_allVars(InPush(t)) /\ WF_allVars(InClose(t))
  /\ WF_allVars(InSet) /\ WF_allVars(HandlerPop) /\ WF_allVars(ComputeWait)

(* Both buffers and their users have their types: an index stays in the    *)
(* ring, and the slot holds the number of a request that was sent.         *)
BuffersTypeOK == TypeOK /\ SlotTypeOK

(* The slot, with its semaphores and mutex, implements a buffer of one     *)
(* place: a response that was set is taken once, whatever the queue does   *)
(* meanwhile.                                                              *)
ImplementsOnePlace == OnePlace!Spec
=============================================================================
