---------------------------- MODULE RequestQueue ----------------------------
(***************************************************************************)
(* The request queue of rpBenchmark2: a ring of Capacity places under a    *)
(* mutex, with one semaphore counting items and one counting free places.  *)
(*                                                                         *)
(* Any number of threads push, one of them also closes the queue (once),   *)
(* and one thread pops: request_queue_close posts items_sem once, which is *)
(* enough for one popper.  In the benchmark the receiver thread is the     *)
(* only pusher and closes, the request handler pops.                       *)
(*                                                                         *)
(* An action is one semaphore or mutex operation; the body of a critical   *)
(* section goes with the unlock that ends it.                              *)
(***************************************************************************)
EXTENDS Integers, FiniteSets, Sequences

CONSTANTS
  Pushers,    \* the threads that push
  Popper,     \* the thread that pops
  Capacity,   \* REQUEST_QUEUE_CAPACITY
  MaxPush     \* bound: no thread pushes more than MaxPush messages

ASSUME QueueAssumption ==
  /\ IsFiniteSet(Pushers) /\ Popper \notin Pushers
  /\ Capacity \in Nat \ {0}
  /\ MaxPush \in Nat

Places == 0 .. Capacity - 1

(* The n-th message of pusher t. *)
Msgs == Pushers \X (1 .. MaxPush)

Nothing == <<>>

VARIABLES
  (* RequestQueue *)
  items, head, tail, count, closed, mutex, items_sem, spaces_sem,
  (* where the threads are *)
  pc,        \* pc[t] of a pusher
  poppc,     \* the popper
  (* the threads' own variables *)
  pushed,    \* pushed[t]: how many messages t has pushed or is pushing
  popped     \* what request_queue_pop is about to return

ringVars == <<items, head, tail, count>>
semVars  == <<items_sem, spaces_sem>>
vars == <<ringVars, closed, mutex, semVars, pc, poppc, pushed, popped>>
-----------------------------------------------------------------------------
Init ==
  /\ items = [i \in Places |-> Nothing]
  /\ head = 0 /\ tail = 0 /\ count = 0
  /\ closed = FALSE
  /\ mutex = {}
  /\ items_sem = 0 /\ spaces_sem = Capacity
  /\ pc = [t \in Pushers |-> "idle"]
  /\ poppc = "idle"
  /\ pushed = [t \in Pushers |-> 0]
  /\ popped = Nothing

Goto(t, label) == pc' = [pc EXCEPT ![t] = label]

Lock(t)   == mutex = {} /\ mutex' = {t}
Unlock(t) == mutex' = mutex \ {t}

(* The index after i. *)
NextPlace(i) == (i + 1) % Capacity
-----------------------------------------------------------------------------
(* request_queue_push *)

Push(t) ==
  /\ pc[t] = "idle" /\ pushed[t] < MaxPush
  /\ pushed' = [pushed EXCEPT ![t] = @ + 1]
  /\ Goto(t, "space")
  /\ UNCHANGED <<ringVars, closed, mutex, semVars, poppc, popped>>

(* Mutant: does not wait for a free place. *)
AwaitSpaceNever(t) ==
  /\ pc[t] = "space"
  /\ spaces_sem' = IF spaces_sem > 0 THEN spaces_sem - 1 ELSE 0
  /\ Goto(t, "lock")
  /\ UNCHANGED <<ringVars, closed, mutex, items_sem, poppc, pushed, popped>>

AwaitSpace(t) ==
  /\ pc[t] = "space"
  /\ spaces_sem > 0
  /\ spaces_sem' = spaces_sem - 1
  /\ Goto(t, "lock")
  /\ UNCHANGED <<ringVars, closed, mutex, items_sem, poppc, pushed, popped>>

LockToPush(t) ==
  /\ pc[t] = "lock"
  /\ Lock(t)
  /\ Goto(t, "insert")
  /\ UNCHANGED <<ringVars, closed, semVars, poppc, pushed, popped>>

(* A closed queue drops the message and gives its place back. *)
Refuse(t) ==
  /\ pc[t] = "insert" /\ closed
  /\ Unlock(t)
  /\ Goto(t, "give_back")
  /\ UNCHANGED <<ringVars, closed, semVars, poppc, pushed, popped>>

Insert(t) ==
  /\ pc[t] = "insert" /\ ~closed
  /\ items' = [items EXCEPT ![tail] = <<t, pushed[t]>>]
  /\ tail' = NextPlace(tail)
  /\ count' = count + 1
  /\ Unlock(t)
  /\ Goto(t, "announce")
  /\ UNCHANGED <<head, closed, semVars, poppc, pushed, popped>>

(* Mutant: forgets the place it took. *)
GiveBackNothing(t) ==
  /\ pc[t] = "give_back"
  /\ Goto(t, "idle")
  /\ UNCHANGED <<ringVars, closed, mutex, semVars, poppc, pushed, popped>>

GiveBack(t) ==
  /\ pc[t] = "give_back"
  /\ spaces_sem' = spaces_sem + 1
  /\ Goto(t, "idle")
  /\ UNCHANGED <<ringVars, closed, mutex, items_sem, poppc, pushed, popped>>

Announce(t) ==
  /\ pc[t] = "announce"
  /\ items_sem' = items_sem + 1
  /\ Goto(t, "idle")
  /\ UNCHANGED <<ringVars, closed, mutex, spaces_sem, poppc, pushed, popped>>
-----------------------------------------------------------------------------
(* request_queue_close *)

LockToClose(t) ==
  /\ pc[t] = "idle" /\ ~closed
  /\ \A u \in Pushers : pc[u] \notin {"close", "wake"}
  /\ Lock(t)
  /\ Goto(t, "close")
  /\ UNCHANGED <<ringVars, closed, semVars, poppc, pushed, popped>>

Close(t) ==
  /\ pc[t] = "close"
  /\ closed' = TRUE
  /\ Unlock(t)
  /\ Goto(t, "wake")
  /\ UNCHANGED <<ringVars, semVars, poppc, pushed, popped>>

(* Mutant: does not wake the popper. *)
WakeNobody(t) ==
  /\ pc[t] = "wake"
  /\ Goto(t, "idle")
  /\ UNCHANGED <<ringVars, closed, mutex, semVars, poppc, pushed, popped>>

Wake(t) ==
  /\ pc[t] = "wake"
  /\ items_sem' = items_sem + 1
  /\ Goto(t, "idle")
  /\ UNCHANGED <<ringVars, closed, mutex, spaces_sem, poppc, pushed, popped>>
-----------------------------------------------------------------------------
(* request_queue_pop *)

AwaitItem ==
  /\ poppc = "idle"
  /\ items_sem > 0
  /\ items_sem' = items_sem - 1
  /\ poppc' = "lock"
  /\ UNCHANGED <<ringVars, closed, mutex, spaces_sem, pc, pushed, popped>>

LockToPop ==
  /\ poppc = "lock"
  /\ Lock(Popper)
  /\ poppc' = "remove"
  /\ UNCHANGED <<ringVars, closed, semVars, pc, pushed, popped>>

Remove ==
  /\ poppc = "remove" /\ count > 0
  /\ popped' = items[head]
  /\ head' = NextPlace(head)
  /\ count' = count - 1
  /\ Unlock(Popper)
  /\ poppc' = "free"
  /\ UNCHANGED <<items, tail, closed, semVars, pc, pushed>>

(* Woken with nothing to pop: either the queue is closed or wait again.    *)
(* PermitsBalance implies that it is closed.                               *)
FindEmpty ==
  /\ poppc = "remove" /\ count = 0
  /\ Unlock(Popper)
  /\ poppc' = IF closed THEN "ended" ELSE "idle"
  /\ UNCHANGED <<ringVars, closed, semVars, pc, pushed, popped>>

(* The place is free; request_queue_pop returns 1. *)
FreePlace ==
  /\ poppc = "free"
  /\ spaces_sem' = spaces_sem + 1
  /\ popped' = Nothing
  /\ poppc' = "idle"
  /\ UNCHANGED <<ringVars, closed, mutex, items_sem, pc, pushed>>
-----------------------------------------------------------------------------
PushSteps(t) ==
  \/ AwaitSpace(t) \/ LockToPush(t) \/ Refuse(t) \/ Insert(t)
  \/ GiveBack(t) \/ Announce(t)

CloseSteps(t) == Close(t) \/ Wake(t)

Pop == AwaitItem \/ LockToPop \/ Remove \/ FindEmpty \/ FreePlace

Next ==
  \/ \E t \in Pushers : Push(t) \/ PushSteps(t) \/ LockToClose(t) \/ CloseSteps(t)
  \/ Pop

(* A thread inside a queue operation goes on when it can, and the handler  *)
(* calls request_queue_pop again and again.  Nobody has to push or close.  *)
Spec ==
  /\ Init /\ [][Next]_vars
  /\ \A t \in Pushers : WF_vars(PushSteps(t)) /\ WF_vars(CloseSteps(t))
  /\ WF_vars(Pop)
-----------------------------------------------------------------------------
PusherPlaces == {"idle", "space", "lock", "insert", "give_back", "announce", "close", "wake"}

(* Every variable has its type; an index stays in the ring. *)
TypeOK ==
  /\ items \in [Places -> Msgs \cup {Nothing}]
  /\ head \in Places /\ tail \in Places /\ count \in 0 .. Capacity
  /\ closed \in BOOLEAN
  /\ mutex \in SUBSET (Pushers \cup {Popper})
  /\ items_sem \in Nat /\ spaces_sem \in 0 .. Capacity
  /\ pc \in [Pushers -> PusherPlaces]
  /\ poppc \in {"idle", "lock", "remove", "free", "ended"}
  /\ pushed \in [Pushers -> 0 .. MaxPush]
  /\ popped \in Msgs \cup {Nothing}

(* The threads that hold a place they have not filled. *)
HoldingSpace == {t \in Pushers : pc[t] \in {"lock", "insert", "give_back"}}

(* Every place of the ring is accounted for: free, holding an item, taken  *)
(* by a thread on its way in, or about to be freed by the popper.  None is *)
(* lost when a push meets a closed queue.                                  *)
PlacesBalance ==
  spaces_sem + count + Cardinality(HoldingSpace) + (IF poppc = "free" THEN 1 ELSE 0)
    = Capacity

Announcing == {t \in Pushers : pc[t] \in {"announce", "wake"}}

(* Every item has one permit, posted, about to be posted or in the hands   *)
(* of the popper, and the close has one more, which is spent last.         *)
PermitsBalance ==
  items_sem + Cardinality(Announcing) + (IF poppc \in {"lock", "remove"} THEN 1 ELSE 0)
    = count + (IF closed /\ poppc # "ended" THEN 1 ELSE 0)

(* The queue as its users see it. *)
Contents == [k \in 1 .. count |-> items[(head + k - 1) % Capacity]]

(* The ring is used from head to tail, and whoever is about to write the   *)
(* place at tail is alone and finds it unused: no message that is still to *)
(* be popped is overwritten.                                               *)
RingShape ==
  /\ tail = (head + count) % Capacity
  /\ \A k \in 1 .. count : Contents[k] # Nothing /\ Contents[k] # popped
  /\ \A j, k \in 1 .. count : Contents[j] = Contents[k] => j = k
  /\ \A t \in Pushers : pc[t] = "insert" =>
       /\ ~closed => count < Capacity
       /\ poppc # "remove" /\ \A u \in Pushers \ {t} : pc[u] \notin {"insert", "close"}

Fifo == INSTANCE ClosableFifo WITH queue <- Contents, ended <- poppc = "ended"

(* The ring, the semaphores and the mutex implement the closable FIFO: what *)
(* was inserted is popped, in order, and a close is noticed once the queue  *)
(* is empty.                                                                *)
ImplementsFifo == Fifo!Spec
=============================================================================
