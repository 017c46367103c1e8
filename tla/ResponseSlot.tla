---------------------------- MODULE ResponseSlot ----------------------------
(***************************************************************************)
(* The response slot of rpBenchmark2: one place under a mutex, with a      *)
(* semaphore for "empty" and one for "full".  The receiver thread sets it, *)
(* the compute thread waits for it after each request it has sent.         *)
(*                                                                         *)
(* The rest of the program is a request, which may be answered from the    *)
(* moment it is sent, once: that each request has one answer is            *)
(* OneAnswerEach of DbProtocol.                                            *)
(*                                                                         *)
(* An action is one semaphore or mutex operation; the body of a critical   *)
(* section goes with the unlock that ends it.                              *)
(***************************************************************************)
EXTENDS Integers, FiniteSets, Sequences

CONSTANT MaxRequests    \* requests_per_process

ASSUME SlotAssumption == MaxRequests \in Nat

VARIABLES
  (* ResponseSlot *)
  request_id, slot_mutex, empty_sem, full_sem,
  (* where the receiver is in response_slot_set, the compute thread in the *)
  (* wait, and got_request_id                                              *)
  setpc, waitpc, got_request_id,
  asked,      \* requests sent; the last one is asked - 1
  answered    \* responses received, the one being set included

slotVars == <<request_id, slot_mutex, empty_sem, full_sem, setpc, waitpc,
              got_request_id, asked, answered>>
-----------------------------------------------------------------------------
NoRequest == -1

SlotInit ==
  /\ request_id = NoRequest
  /\ slot_mutex = {}
  /\ empty_sem = 1 /\ full_sem = 0
  /\ setpc = "idle" /\ waitpc = "idle"
  /\ got_request_id = NoRequest
  /\ asked = 0 /\ answered = 0

LockSlot(t)   == slot_mutex = {} /\ slot_mutex' = {t}
UnlockSlot(t) == slot_mutex' = slot_mutex \ {t}
-----------------------------------------------------------------------------
(* response_slot_set *)

ReceiveResponse ==
  /\ setpc = "idle" /\ answered < asked
  /\ answered' = answered + 1
  /\ setpc' = "empty"
  /\ UNCHANGED <<request_id, slot_mutex, empty_sem, full_sem, waitpc, got_request_id, asked>>

AwaitEmpty ==
  /\ setpc = "empty"
  /\ empty_sem > 0
  /\ empty_sem' = empty_sem - 1
  /\ setpc' = "lock"
  /\ UNCHANGED <<request_id, slot_mutex, full_sem, waitpc, got_request_id, asked, answered>>

LockToSet ==
  /\ setpc = "lock"
  /\ LockSlot("receiver")
  /\ setpc' = "set"
  /\ UNCHANGED <<request_id, empty_sem, full_sem, waitpc, got_request_id, asked, answered>>

SetSlot ==
  /\ setpc = "set"
  /\ request_id' = answered - 1
  /\ UnlockSlot("receiver")
  /\ setpc' = "announce"
  /\ UNCHANGED <<empty_sem, full_sem, waitpc, got_request_id, asked, answered>>

(* Mutant: marks the slot as empty instead of full. *)
AnnounceEmpty ==
  /\ setpc = "announce"
  /\ empty_sem' = empty_sem + 1
  /\ setpc' = "idle"
  /\ UNCHANGED <<request_id, slot_mutex, full_sem, waitpc, got_request_id, asked, answered>>

AnnounceFull ==
  /\ setpc = "announce"
  /\ full_sem' = full_sem + 1
  /\ setpc' = "idle"
  /\ UNCHANGED <<request_id, slot_mutex, empty_sem, waitpc, got_request_id, asked, answered>>
-----------------------------------------------------------------------------
(* The compute thread: send_request, then response_slot_wait. *)

SendRequest ==
  /\ waitpc = "idle" /\ asked < MaxRequests
  /\ asked' = asked + 1
  /\ waitpc' = "full"
  /\ UNCHANGED <<request_id, slot_mutex, empty_sem, full_sem, setpc, got_request_id, answered>>

(* Mutant: does not wait. *)
AwaitFullNever ==
  /\ waitpc = "full"
  /\ full_sem' = IF full_sem > 0 THEN full_sem - 1 ELSE 0
  /\ waitpc' = "lock"
  /\ UNCHANGED <<request_id, slot_mutex, empty_sem, setpc, got_request_id, asked, answered>>

AwaitFull ==
  /\ waitpc = "full"
  /\ full_sem > 0
  /\ full_sem' = full_sem - 1
  /\ waitpc' = "lock"
  /\ UNCHANGED <<request_id, slot_mutex, empty_sem, setpc, got_request_id, asked, answered>>

LockToTake ==
  /\ waitpc = "lock"
  /\ LockSlot("compute")
  /\ waitpc' = "take"
  /\ UNCHANGED <<request_id, empty_sem, full_sem, setpc, got_request_id, asked, answered>>

TakeSlot ==
  /\ waitpc = "take"
  /\ got_request_id' = request_id
  /\ request_id' = NoRequest
  /\ UnlockSlot("compute")
  /\ waitpc' = "free"
  /\ UNCHANGED <<empty_sem, full_sem, setpc, asked, answered>>

(* A response that is not the expected one ends the process. *)
FreeSlot ==
  /\ waitpc = "free"
  /\ empty_sem' = empty_sem + 1
  /\ got_request_id' = NoRequest
  /\ waitpc' = IF got_request_id = asked - 1 THEN "idle" ELSE "exited"
  /\ UNCHANGED <<request_id, slot_mutex, full_sem, setpc, asked, answered>>
-----------------------------------------------------------------------------
SetSteps  == AwaitEmpty \/ LockToSet \/ SetSlot \/ AnnounceFull
WaitSteps == AwaitFull \/ LockToTake \/ TakeSlot \/ FreeSlot

SlotNext == ReceiveResponse \/ SetSteps \/ SendRequest \/ WaitSteps
-----------------------------------------------------------------------------
(* Every variable of the slot and of its two users has its type. *)
SlotTypeOK ==
  /\ request_id \in {NoRequest} \cup 0 .. asked - 1
  /\ slot_mutex \in SUBSET {"receiver", "compute"}
  /\ empty_sem \in 0 .. 1 /\ full_sem \in 0 .. 1
  /\ setpc \in {"idle", "empty", "lock", "set", "announce"}
  /\ waitpc \in {"idle", "full", "lock", "take", "free", "exited"}
  /\ got_request_id \in {NoRequest} \cup 0 .. asked - 1
  /\ asked \in 0 .. MaxRequests /\ answered \in 0 .. asked

(* The receiver that hands a response over never waits for the slot, also  *)
(* when the compute thread has not come to wait for it yet, and the        *)
(* compute thread takes the response to its last request: "expected        *)
(* request_id" is never printed.                                           *)
HandedOver ==
  /\ setpc = "empty" => empty_sem = 1
  /\ waitpc # "exited"

Response == IF request_id = NoRequest THEN <<>> ELSE <<request_id>>

OnePlace == INSTANCE ClosableFifo WITH
  Msgs <- 0 .. MaxRequests - 1, Capacity <- 1,
  queue <- Response, closed <- FALSE, ended <- FALSE
=============================================================================
