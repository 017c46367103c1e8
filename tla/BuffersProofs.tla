---------------------------- MODULE BuffersProofs ----------------------------
(***************************************************************************)
(* The two buffers of rpBenchmark2, for every capacity, any number of      *)
(* pushers and of requests: no place of the ring is lost or used twice, a  *)
(* response is handed over, and each buffer takes only the steps of the    *)
(* abstract FIFO.                                                          *)
(***************************************************************************)
EXTENDS LocalBuffers, FiniteSetTheorems, SequenceTheorems, TLAPS

(* The whole life of a response, as the receiver and the compute thread    *)
(* pass the slot between them: where both are, what the semaphores allow,  *)
(* what the slot holds.  The compute thread is one request ahead at most.  *)
NotAsked  == waitpc = "idle" /\ setpc = "idle" /\ empty_sem = 1 /\ full_sem = 0
             /\ answered = asked /\ request_id = NoRequest
Unset     == waitpc = "full" /\ full_sem = 0 /\ request_id = NoRequest /\ asked > 0
             /\ \/ setpc = "idle" /\ empty_sem = 1 /\ answered = asked - 1
                \/ setpc = "empty" /\ empty_sem = 1 /\ answered = asked
                \/ setpc \in {"lock", "set"} /\ empty_sem = 0 /\ answered = asked
Full      == waitpc = "full" /\ request_id = asked - 1 /\ asked > 0 /\ answered = asked
             /\ empty_sem = 0
             /\ \/ setpc = "announce" /\ full_sem = 0
                \/ setpc = "idle" /\ full_sem = 1
Taking    == waitpc \in {"lock", "take"} /\ request_id = asked - 1 /\ asked > 0
             /\ answered = asked /\ setpc = "idle" /\ empty_sem = 0 /\ full_sem = 0
Taken     == waitpc = "free" /\ request_id = NoRequest /\ got_request_id = asked - 1 /\ asked > 0
             /\ answered = asked /\ setpc = "idle" /\ empty_sem = 0 /\ full_sem = 0

SlotInv ==
  /\ NotAsked \/ Unset \/ Full \/ Taking \/ Taken
  /\ waitpc # "free" => got_request_id = NoRequest
  /\ asked \in Nat /\ asked <= MaxRequests
  /\ slot_mutex \subseteq {"receiver", "compute"}
  /\ "receiver" \in slot_mutex <=> setpc = "set"
  /\ "compute" \in slot_mutex <=> waitpc = "take"
-----------------------------------------------------------------------------
(* The slot starts empty. *)
LEMMA SlotStart == SlotInit => SlotInv
BY SlotAssumption DEF SlotInit, SlotInv, NotAsked

(* Every step of the two threads goes on to the next of these stages. *)
LEMMA SlotStep ==
  ASSUME SlotInv, [SlotNext]_slotVars
  PROVE  SlotInv'
<1> USE SlotAssumption DEF NotAsked, Unset, Full, Taking, Taken, NoRequest
<1>1. CASE ReceiveResponse
  BY <1>1 DEF ReceiveResponse, SlotInv
<1>2. CASE AwaitEmpty
  BY <1>2 DEF AwaitEmpty, SlotInv
<1>3. CASE LockToSet
  BY <1>3 DEF LockToSet, LockSlot, SlotInv
<1>4. CASE SetSlot
  BY <1>4 DEF SetSlot, UnlockSlot, SlotInv
<1>5. CASE AnnounceFull
  BY <1>5 DEF AnnounceFull, SlotInv
<1>6. CASE SendRequest
  BY <1>6 DEF SendRequest, SlotInv
<1>7. CASE AwaitFull
  BY <1>7 DEF AwaitFull, SlotInv
<1>8. CASE LockToTake
  BY <1>8 DEF LockToTake, LockSlot, SlotInv
<1>9. CASE TakeSlot
  BY <1>9 DEF TakeSlot, UnlockSlot, SlotInv
<1>10. CASE FreeSlot
  BY <1>10 DEF FreeSlot, SlotInv
<1>11. CASE UNCHANGED slotVars
  BY <1>11 DEF slotVars, SlotInv
<1> QED
  BY <1>1, <1>2, <1>3, <1>4, <1>5, <1>6, <1>7, <1>8, <1>9, <1>10, <1>11
  DEF SlotNext, SetSteps, WaitSteps

(* What the stages say of the types and of the handing over. *)
LEMMA SlotConsequences == SlotInv => SlotTypeOK /\ HandedOver
BY SlotAssumption DEF SlotInv, SlotTypeOK, HandedOver, NotAsked, Unset, Full, Taking, Taken,
   NoRequest

(* Append to the empty sequence, which is all a buffer of one place needs. *)
LEMMA AppendToEmpty ==
  ASSUME NEW x
  PROVE  Append(<<>>, x) = <<x>>
<1>1. <<>> \in Seq({x}) /\ <<x>> \in Seq({x}) /\ x \in {x}
  OBVIOUS
<1> QED
  BY <1>1, AppendProperties, SeqEqual

(* Setting the slot is a Put, taking the response a Take, and every other  *)
(* step changes nothing of the place.                                      *)
LEMMA OnePlaceStep ==
  ASSUME SlotInv, [SlotNext]_slotVars
  PROVE  [OnePlace!Next]_(OnePlace!fifoVars)
<1>1. CASE SetSlot
  <2>1. /\ request_id = NoRequest /\ request_id' = answered - 1
        /\ answered \in Nat /\ 0 < answered /\ answered <= MaxRequests
    BY <1>1 DEF SetSlot, SlotInv, NotAsked, Unset, Full, Taking, Taken, NoRequest
  <2>2. Response = <<>> /\ Response' = <<answered - 1>>
    BY <2>1 DEF Response, NoRequest
  <2>3. Response' = Append(Response, answered - 1) /\ Len(Response) = 0
    BY <2>2, AppendToEmpty
  <2>4. OnePlace!Put(answered - 1)
    BY <2>3 DEF OnePlace!Put
  <2>5. answered - 1 \in 0 .. MaxRequests - 1
    BY <2>1, SlotAssumption
  <2> QED
    BY <2>4, <2>5 DEF OnePlace!Next
<1>2. CASE TakeSlot
  <2>1. /\ request_id = asked - 1 /\ asked > 0 /\ asked \in Nat
        /\ request_id' = NoRequest
    BY <1>2 DEF TakeSlot, SlotInv, NotAsked, Unset, Full, Taking, Taken
  <2>2. Response = <<request_id>> /\ Response' = <<>>
    BY <2>1 DEF Response, NoRequest
  <2>3. OnePlace!Take
    BY <2>2 DEF OnePlace!Take
  <2> QED
    BY <2>3 DEF OnePlace!Next
<1>3. [SlotNext]_slotVars => SetSlot \/ TakeSlot \/ request_id' = request_id
  BY DEF SlotNext, SetSteps, WaitSteps, ReceiveResponse, AwaitEmpty, LockToSet, AnnounceFull,
     SendRequest, AwaitFull, LockToTake, FreeSlot, slotVars
<1>4. CASE request_id' = request_id
  BY <1>4 DEF OnePlace!fifoVars, Response
<1> QED
  BY <1>1, <1>2, <1>3, <1>4
-----------------------------------------------------------------------------
(* The types, without the bounds that the accounts below imply. *)
QueueTypes ==
  /\ items \in [Places -> Msgs \cup {Nothing}]
  /\ head \in Places /\ tail \in Places /\ count \in Nat
  /\ closed \in BOOLEAN
  /\ mutex \subseteq Pushers \cup {Popper}
  /\ items_sem \in Nat /\ spaces_sem \in Nat
  /\ pc \in [Pushers -> PusherPlaces]
  /\ poppc \in {"idle", "lock", "remove", "free", "ended"}
  /\ pushed \in [Pushers -> 0 .. MaxPush]
  /\ popped \in Msgs \cup {Nothing}

(* The mutex is held by those that are inside, one at a time. *)
MutexInv ==
  /\ \A t \in Pushers : t \in mutex <=> pc[t] \in {"insert", "close"}
  /\ Popper \in mutex <=> poppc = "remove"
  /\ \A x, y \in mutex : x = y

(* The queue is closed once, and nobody has been told before that. *)
CloseInv ==
  /\ \A t \in Pushers : pc[t] = "close" => ~closed
  /\ poppc = "ended" => closed

Entering == {"space", "lock", "insert"}

(* The messages that have been inserted or dropped. *)
Spent == {m \in Msgs : m[2] <= pushed[m[1]] /\ (pc[m[1]] \in Entering => m[2] < pushed[m[1]])}

(* The ring holds different messages, none of them one that a thread is    *)
(* still to insert or that the popper has.                                 *)
RingInv ==
  /\ tail = (head + count) % Capacity
  /\ \A k \in 1 .. count : Contents[k] \in Spent /\ Contents[k] # popped
  /\ \A j, k \in 1 .. count : Contents[j] = Contents[k] => j = k
  /\ popped \in Spent \cup {Nothing}
  /\ \A t \in Pushers : pc[t] \in Entering => 0 < pushed[t]

QueueInv ==
  /\ QueueTypes /\ MutexInv /\ CloseInv
  /\ PlacesBalance /\ PermitsBalance
  /\ RingInv
-----------------------------------------------------------------------------
(* What % does to an index that has gone round at most once. *)
LEMMA Wrap ==
  ASSUME NEW x \in Nat
  PROVE  /\ x % Capacity \in Places
         /\ x < Capacity => x % Capacity = x
         /\ x >= Capacity /\ x < 2 * Capacity => x % Capacity = x - Capacity
BY QueueAssumption DEF Places

(* One thread moves, the others stay. *)
LEMMA GotoOne ==
  ASSUME QueueTypes, NEW t \in Pushers, NEW label, Goto(t, label)
  PROVE  pc'[t] = label /\ \A u \in Pushers \ {t} : pc'[u] = pc[u]
BY DEF QueueTypes, Goto

Weight(label, labels) == IF label \in labels THEN 1 ELSE 0

Holding == {"lock", "insert", "give_back"}
Noisy   == {"announce", "wake"}

(* How a move of one thread changes the number of those at some places. *)
LEMMA CountAt ==
  ASSUME NEW S \in SUBSET Pushers, NEW T \in SUBSET Pushers, NEW t \in Pushers,
         \A u \in Pushers \ {t} : u \in S <=> u \in T
  PROVE  /\ Cardinality(S) \in Nat /\ Cardinality(T) \in Nat
         /\ Cardinality(T) + (IF t \in S THEN 1 ELSE 0) = Cardinality(S) + (IF t \in T THEN 1 ELSE 0)
<1>1. IsFiniteSet(S) /\ IsFiniteSet(T)
  BY QueueAssumption, FS_Subset
<1>2. Cardinality(S) \in Nat /\ Cardinality(T) \in Nat
  BY <1>1, FS_CardinalityType
<1>3. CASE t \in S /\ t \in T
  <2>1. S = T
    BY <1>3
  <2> QED
    BY <1>2, <1>3, <2>1
<1>4. CASE t \in S /\ t \notin T
  <2>1. T = S \ {t}
    BY <1>4
  <2>2. Cardinality(T) = Cardinality(S) - 1
    BY <1>1, <1>4, <2>1, FS_RemoveElement
  <2> QED
    BY <1>2, <1>4, <2>2
<1>5. CASE t \notin S /\ t \in T
  <2>1. T = S \cup {t}
    BY <1>5
  <2>2. Cardinality(T) = Cardinality(S) + 1
    BY <1>1, <1>5, <2>1, FS_AddElement
  <2> QED
    BY <1>2, <1>5, <2>2
<1>6. CASE t \notin S /\ t \notin T
  <2>1. S = T
    BY <1>6
  <2> QED
    BY <1>2, <1>6, <2>1
<1> QED
  BY <1>3, <1>4, <1>5, <1>6, <1>2

(* The same for the two kinds of threads that the accounts count. *)
LEMMA GotoCounts ==
  ASSUME QueueTypes, NEW t \in Pushers, NEW label, Goto(t, label)
  PROVE  /\ Cardinality(HoldingSpace) \in Nat /\ Cardinality(HoldingSpace') \in Nat
         /\ Cardinality(Announcing) \in Nat /\ Cardinality(Announcing') \in Nat
         /\ Cardinality(HoldingSpace') + Weight(pc[t], Holding)
              = Cardinality(HoldingSpace) + Weight(label, Holding)
         /\ Cardinality(Announcing') + Weight(pc[t], Noisy)
              = Cardinality(Announcing) + Weight(label, Noisy)
<1>1. pc'[t] = label /\ \A u \in Pushers \ {t} : pc'[u] = pc[u]
  BY GotoOne
<1>2. /\ HoldingSpace \in SUBSET Pushers /\ HoldingSpace' \in SUBSET Pushers
      /\ Announcing \in SUBSET Pushers /\ Announcing' \in SUBSET Pushers
  BY DEF HoldingSpace, Announcing
<1>3. /\ \A u \in Pushers \ {t} : u \in HoldingSpace <=> u \in HoldingSpace'
      /\ \A u \in Pushers \ {t} : u \in Announcing <=> u \in Announcing'
  BY <1>1 DEF HoldingSpace, Announcing
<1>4. /\ t \in HoldingSpace <=> pc[t] \in Holding
      /\ t \in HoldingSpace' <=> label \in Holding
      /\ t \in Announcing <=> pc[t] \in Noisy
      /\ t \in Announcing' <=> label \in Noisy
  BY <1>1 DEF HoldingSpace, Announcing, Holding, Noisy
<1>5. /\ Cardinality(HoldingSpace) \in Nat /\ Cardinality(HoldingSpace') \in Nat
      /\ Cardinality(HoldingSpace') + (IF t \in HoldingSpace THEN 1 ELSE 0)
           = Cardinality(HoldingSpace) + (IF t \in HoldingSpace' THEN 1 ELSE 0)
  <2> HIDE DEF HoldingSpace
  <2> QED
    BY <1>2, <1>3, CountAt
<1>6. /\ Cardinality(Announcing) \in Nat /\ Cardinality(Announcing') \in Nat
      /\ Cardinality(Announcing') + (IF t \in Announcing THEN 1 ELSE 0)
           = Cardinality(Announcing) + (IF t \in Announcing' THEN 1 ELSE 0)
  BY <1>2, <1>3, CountAt
<1> QED
  BY <1>4, <1>5, <1>6 DEF Weight
-----------------------------------------------------------------------------
(* The accounts bound the ring: a thread that waited for a place has one.  *)
LEMMA Bounds ==
  ASSUME QueueTypes, PlacesBalance
  PROVE  /\ count \in 0 .. Capacity /\ spaces_sem \in 0 .. Capacity
         /\ \A t \in Pushers : pc[t] \in Holding => count < Capacity
         /\ poppc = "free" => count < Capacity
<1>1. HoldingSpace \subseteq Pushers
  BY DEF HoldingSpace
<1>2. IsFiniteSet(HoldingSpace) /\ Cardinality(HoldingSpace) \in Nat
  BY <1>1, QueueAssumption, FS_Subset, FS_CardinalityType
<1>3. count \in Nat /\ spaces_sem \in Nat /\ Capacity \in Nat
  BY QueueAssumption DEF QueueTypes
<1>4. ASSUME NEW t \in Pushers, pc[t] \in Holding
      PROVE  Cardinality(HoldingSpace) >= 1
  <2>1. t \in HoldingSpace
    BY <1>4 DEF HoldingSpace, Holding
  <2>2. Cardinality(HoldingSpace) # 0
    BY <1>2, <2>1, FS_EmptySet
  <2> QED
    BY <1>2, <2>2
<1>5. poppc = "free" => count < Capacity
  BY <1>2, <1>3 DEF PlacesBalance
<1>6. count <= Capacity /\ spaces_sem <= Capacity
  BY <1>2, <1>3 DEF PlacesBalance
<1>7. (\E t \in Pushers : pc[t] \in Holding) => count < Capacity
  BY <1>2, <1>3, <1>4 DEF PlacesBalance
<1> QED
  BY <1>3, <1>5, <1>6, <1>7

(* A function on 1 .. n is a sequence of length n. *)
LEMMA FunctionIsSeq ==
  ASSUME NEW S, NEW n \in Nat, NEW f \in [1 .. n -> S]
  PROVE  f \in Seq(S) /\ Len(f) = n
<1>1. f \in Seq(S)
  BY SeqDef
<1>2. Len(f) \in Nat /\ DOMAIN f = 1 .. Len(f)
  BY <1>1, LenProperties
<1> QED
  BY <1>1, <1>2

(* The place of the k-th message. *)
PlaceOf(k) == (head + k - 1) % Capacity

(* The places in use are those from head on, once round at most. *)
LEMMA PlaceRange ==
  ASSUME QueueTypes, NEW k \in 1 .. Capacity + 1
  PROVE  /\ PlaceOf(k) \in Places
         /\ PlaceOf(k) = IF head + k - 1 < Capacity THEN head + k - 1 ELSE head + k - 1 - Capacity
<1>1. head \in 0 .. Capacity - 1 /\ Capacity \in Nat \ {0}
  BY QueueAssumption DEF QueueTypes, Places
<1>2. head + k - 1 \in Nat /\ head + k - 1 < 2 * Capacity
  BY <1>1
<1> QED
  BY <1>1, <1>2, Wrap DEF PlaceOf

(* The contents are messages, one at each place in use. *)
LEMMA ContentsAre ==
  ASSUME QueueTypes, PlacesBalance, RingInv
  PROVE  /\ Contents \in Seq(Msgs) /\ Len(Contents) = count
         /\ \A k \in 1 .. count : Contents[k] = items[PlaceOf(k)]
<1>1. \A k \in 1 .. count : Contents[k] = items[PlaceOf(k)]
  BY DEF Contents, PlaceOf
<1>2. \A k \in 1 .. count : Contents[k] \in Msgs
  BY DEF RingInv, Spent
<1>3. Contents \in [1 .. count -> Msgs]
  BY <1>2 DEF Contents
<1> QED
  BY <1>1, <1>3, FunctionIsSeq DEF QueueTypes

(* Where the ring is not touched, the queue is as it was. *)
LEMMA ContentsSame ==
  ASSUME UNCHANGED ringVars
  PROVE  Contents' = Contents
BY DEF ringVars, Contents

(* Writing at tail appends to the queue. *)
LEMMA ContentsInsert ==
  ASSUME QueueTypes, PlacesBalance, RingInv, count < Capacity, NEW m \in Msgs,
         items' = [items EXCEPT ![tail] = m], count' = count + 1, head' = head
  PROVE  Contents' = Append(Contents, m)
<1>1. count \in Nat /\ count + 1 <= Capacity /\ Capacity \in Nat \ {0}
  BY Bounds, QueueAssumption DEF QueueTypes
<1>2. tail = PlaceOf(count + 1)
  <2>1. head \in Nat
    BY QueueAssumption DEF QueueTypes, Places
  <2>2. head + (count + 1) - 1 = head + count
    BY <1>1, <2>1
  <2> QED
    BY <2>2 DEF PlaceOf, RingInv
<1>3. \A k \in 1 .. count : PlaceOf(k) # tail /\ PlaceOf(k) \in Places
  <2> TAKE k \in 1 .. count
  <2>1. head \in 0 .. Capacity - 1
    BY DEF QueueTypes, Places
  <2>2. /\ k \in 1 .. Capacity + 1 /\ count + 1 \in 1 .. Capacity + 1
        /\ k < count + 1 /\ count + 1 <= Capacity
    BY <1>1
  <2>3. /\ PlaceOf(k) \in Places
        /\ PlaceOf(k) = IF head + k - 1 < Capacity THEN head + k - 1 ELSE head + k - 1 - Capacity
    BY <2>2, PlaceRange
  <2>4. PlaceOf(count + 1) = IF head + (count + 1) - 1 < Capacity
                               THEN head + (count + 1) - 1 ELSE head + (count + 1) - 1 - Capacity
    BY <2>2, PlaceRange
  <2> QED
    BY <1>1, <1>2, <2>1, <2>2, <2>3, <2>4
<1>4. Contents' = [k \in 1 .. count + 1 |-> items'[PlaceOf(k)]]
  BY DEF Contents, PlaceOf
<1>5. \A k \in 1 .. count : items'[PlaceOf(k)] = Contents[k]
  BY <1>3, ContentsAre DEF QueueTypes
<1>6. items'[PlaceOf(count + 1)] = m
  BY <1>2 DEF QueueTypes
<1>7. Contents \in Seq(Msgs) /\ Len(Contents) = count
  BY ContentsAre
<1>8. /\ Append(Contents, m) \in Seq(Msgs) /\ Len(Append(Contents, m)) = count + 1
      /\ \A k \in 1 .. count : Append(Contents, m)[k] = Contents[k]
      /\ Append(Contents, m)[count + 1] = m
  BY <1>7, AppendProperties
<1>9. \A k \in 1 .. count + 1 : k \in 1 .. count \/ k = count + 1
  BY <1>1
<1>10. \A k \in 1 .. count + 1 : Contents'[k] = Append(Contents, m)[k]
  BY <1>4, <1>5, <1>6, <1>8, <1>9
<1>11. Contents' \in [1 .. count + 1 -> Msgs]
  <2>1. \A k \in 1 .. count + 1 : Contents'[k] \in Msgs
    BY <1>7, <1>8, <1>9, <1>10, ElementOfSeq
  <2> QED
    BY <1>4, <2>1
<1>12. Contents' \in Seq(Msgs) /\ Len(Contents') = count + 1
  BY <1>1, <1>11, FunctionIsSeq
<1> QED
  BY <1>8, <1>10, <1>12, SeqEqual

(* Moving head on takes the oldest message out of the queue. *)
LEMMA ContentsRemove ==
  ASSUME QueueTypes, PlacesBalance, RingInv, count > 0,
         UNCHANGED items, count' = count - 1, head' = NextPlace(head)
  PROVE  Contents' = Tail(Contents) /\ items[head] = Contents[1] /\ Contents # <<>>
<1>1. /\ count \in Nat /\ count <= Capacity /\ Capacity \in Nat \ {0}
      /\ head \in 0 .. Capacity - 1
  BY Bounds, QueueAssumption DEF QueueTypes, Places
<1>2. head' = IF head + 1 < Capacity THEN head + 1 ELSE 0
  BY <1>1, Wrap DEF NextPlace
<1>3. \A k \in 1 .. count - 1 : (head' + k - 1) % Capacity = PlaceOf(k + 1)
  <2> TAKE k \in 1 .. count - 1
  <2>1. head' + k - 1 \in Nat /\ head' + k - 1 < 2 * Capacity
    BY <1>1, <1>2
  <2>2. (head' + k - 1) % Capacity
          = IF head' + k - 1 < Capacity THEN head' + k - 1 ELSE head' + k - 1 - Capacity
    <3>1. PICK x \in Nat : x = head' + k - 1
      BY <2>1
    <3>2. x % Capacity = IF x < Capacity THEN x ELSE x - Capacity
      BY <1>1, <2>1, <3>1, Wrap
    <3>3. head' \in Int /\ k \in Int
      BY <1>1, <1>2
    <3> QED
      BY <1>1, <3>1, <3>2, <3>3
  <2>3. k + 1 \in 1 .. Capacity + 1
    BY <1>1
  <2>4. PlaceOf(k + 1)
          = IF head + (k + 1) - 1 < Capacity THEN head + (k + 1) - 1
                                             ELSE head + (k + 1) - 1 - Capacity
    BY <2>3, PlaceRange
  <2> QED
    BY <1>1, <1>2, <2>2, <2>4
<1>4. Contents' = [k \in 1 .. count - 1 |-> items[(head' + k - 1) % Capacity]]
  BY DEF Contents
<1>5. Contents \in Seq(Msgs) /\ Len(Contents) = count
  BY ContentsAre
<1>6. \A k \in 1 .. count - 1 : k + 1 \in 1 .. count
  BY <1>1
<1>7. \A k \in 1 .. count - 1 : Contents'[k] = Contents[k + 1]
  BY <1>3, <1>4, <1>6, ContentsAre
<1>8. Contents # <<>>
  BY <1>1, <1>5, EmptySeq
<1>9. /\ Tail(Contents) \in Seq(Msgs) /\ Len(Tail(Contents)) = count - 1
      /\ \A k \in 1 .. count - 1 : Tail(Contents)[k] = Contents[k + 1]
  BY <1>5, <1>8, HeadTailProperties
<1>10. Contents' \in [1 .. count - 1 -> Msgs]
  <2>1. \A k \in 1 .. count - 1 : Contents'[k] \in Msgs
    BY <1>5, <1>6, <1>7, ElementOfSeq
  <2> QED
    BY <1>4, <2>1
<1>11. Contents' \in Seq(Msgs) /\ Len(Contents') = count - 1
  <2>1. count - 1 \in Nat
    BY <1>1
  <2> QED
    BY <1>10, <2>1, FunctionIsSeq
<1>12. Contents' = Tail(Contents)
  BY <1>7, <1>9, <1>11, SeqEqual
<1>13. 1 \in 1 .. count /\ PlaceOf(1) = head
  BY <1>1, PlaceRange
<1> QED
  BY <1>8, <1>12, <1>13, ContentsAre
-----------------------------------------------------------------------------
(* The operations of the pushers' side, and of the popper's. *)
PusherStep(t) == Push(t) \/ PushSteps(t) \/ LockToClose(t) \/ CloseSteps(t)

(* Every step of a pusher moves it from one place of PusherPlaces to       *)
(* another.                                                                *)
PusherMove(t, from, to) == pc[t] \in from /\ Goto(t, to) /\ poppc' = poppc

(* Where each step of a pusher begins and ends. *)
LEMMA PusherMoves ==
  ASSUME NEW t \in Pushers
  PROVE  /\ Push(t) => PusherMove(t, {"idle"}, "space")
         /\ AwaitSpace(t) => PusherMove(t, {"space"}, "lock")
         /\ LockToPush(t) => PusherMove(t, {"lock"}, "insert")
         /\ Refuse(t) => PusherMove(t, {"insert"}, "give_back")
         /\ Insert(t) => PusherMove(t, {"insert"}, "announce")
         /\ GiveBack(t) => PusherMove(t, {"give_back"}, "idle")
         /\ Announce(t) => PusherMove(t, {"announce"}, "idle")
         /\ LockToClose(t) => PusherMove(t, {"idle"}, "close")
         /\ Close(t) => PusherMove(t, {"close"}, "wake")
         /\ Wake(t) => PusherMove(t, {"wake"}, "idle")
BY DEF PusherMove, Push, AwaitSpace, LockToPush, Refuse, Insert, GiveBack, Announce,
   LockToClose, Close, Wake

(* The numbers behind both accounts. *)
LEMMA Numbers ==
  ASSUME QueueInv
  PROVE  /\ Cardinality(HoldingSpace) \in Nat /\ Cardinality(Announcing) \in Nat
         /\ count \in Nat /\ items_sem \in Nat /\ spaces_sem \in Nat /\ Capacity \in Nat
<1>1. HoldingSpace \subseteq Pushers /\ Announcing \subseteq Pushers
  BY DEF HoldingSpace, Announcing
<1> QED
  BY <1>1, QueueAssumption, FS_Subset, FS_CardinalityType DEF QueueInv, QueueTypes

(* The message a thread inserts. *)
LEMMA NewMessage ==
  ASSUME QueueTypes, RingInv, NEW t \in Pushers, pc[t] \in Entering
  PROVE  <<t, pushed[t]>> \in Msgs /\ pushed[t] \in 1 .. MaxPush
BY QueueAssumption DEF QueueTypes, RingInv, Msgs

(* Every step keeps the types. *)
LEMMA QueueTypesStep ==
  ASSUME QueueInv, [Next]_vars
  PROVE  QueueTypes'
<1> USE DEF ringVars, semVars
<1>1. ASSUME NEW t \in Pushers, PusherStep(t)
      PROVE  QueueTypes'
  <2>1. pc' \in [Pushers -> PusherPlaces]
    <3>1. ASSUME NEW label \in PusherPlaces, Goto(t, label)
          PROVE  pc' \in [Pushers -> PusherPlaces]
      BY <3>1 DEF Goto, QueueInv, QueueTypes
    <3>2. \E label \in PusherPlaces : Goto(t, label)
      BY <1>1, PusherMoves DEF PusherStep, PushSteps, CloseSteps, PusherMove, PusherPlaces
    <3> QED
      BY <3>1, <3>2
  <2>2. CASE Push(t)
    <3>1. pushed[t] \in 0 .. MaxPush /\ pushed[t] < MaxPush
      BY <2>2 DEF Push, QueueInv, QueueTypes
    <3>2. pushed[t] + 1 \in 0 .. MaxPush
      BY <3>1, QueueAssumption
    <3>3. pushed' \in [Pushers -> 0 .. MaxPush]
      BY <2>2, <3>2 DEF Push, QueueInv, QueueTypes
    <3> QED
      BY <2>1, <2>2, <3>3 DEF Push, QueueInv, QueueTypes
  <2>3. CASE AwaitSpace(t)
    <3>1. spaces_sem' \in Nat
      BY <2>3, Numbers DEF AwaitSpace
    <3> QED
      BY <2>1, <2>3, <3>1 DEF AwaitSpace, QueueInv, QueueTypes
  <2>4. CASE LockToPush(t) \/ LockToClose(t)
    BY <2>1, <2>4 DEF LockToPush, LockToClose, Lock, QueueInv, QueueTypes
  <2>5. CASE Refuse(t)
    BY <2>1, <2>5 DEF Refuse, Unlock, QueueInv, QueueTypes
  <2>6. CASE Insert(t)
    <3>1. <<t, pushed[t]>> \in Msgs
      BY <2>6, NewMessage DEF Insert, Entering, QueueInv
    <3>2. tail' \in Places
      <4>1. tail + 1 \in Nat
        BY QueueAssumption DEF QueueInv, QueueTypes, Places
      <4> QED
        BY <2>6, <4>1, Wrap DEF Insert, NextPlace
    <3>3. count' \in Nat
      BY <2>6, Numbers DEF Insert
    <3>4. items' \in [Places -> Msgs \cup {Nothing}]
      BY <2>6, <3>1 DEF Insert, QueueInv, QueueTypes
    <3> QED
      BY <2>1, <2>6, <3>2, <3>3, <3>4 DEF Insert, Unlock, QueueInv, QueueTypes
  <2>7. CASE GiveBack(t)
    <3>1. spaces_sem' \in Nat
      BY <2>7, Numbers DEF GiveBack
    <3> QED
      BY <2>1, <2>7, <3>1 DEF GiveBack, QueueInv, QueueTypes
  <2>8. CASE Announce(t)
    <3>1. items_sem' \in Nat
      BY <2>8, Numbers DEF Announce
    <3> QED
      BY <2>1, <2>8, <3>1 DEF Announce, QueueInv, QueueTypes
  <2>9. CASE Wake(t)
    <3>1. items_sem' \in Nat
      BY <2>9, Numbers DEF Wake
    <3> QED
      BY <2>1, <2>9, <3>1 DEF Wake, QueueInv, QueueTypes
  <2>10. CASE Close(t)
    BY <2>1, <2>10 DEF Close, Unlock, QueueInv, QueueTypes
  <2> QED
    BY <1>1, <2>2, <2>3, <2>4, <2>5, <2>6, <2>7, <2>8, <2>9, <2>10
    DEF PusherStep, PushSteps, CloseSteps
<1>2. CASE AwaitItem
  <2>1. items_sem' \in Nat
    BY <1>2, Numbers DEF AwaitItem
  <2> QED
    BY <1>2, <2>1 DEF AwaitItem, QueueInv, QueueTypes
<1>3. CASE LockToPop
  BY <1>3 DEF LockToPop, Lock, QueueInv, QueueTypes
<1>4. CASE Remove
  <2>1. head' \in Places
    <3>1. head + 1 \in Nat
      BY QueueAssumption DEF QueueInv, QueueTypes, Places
    <3> QED
      BY <1>4, <3>1, Wrap DEF Remove, NextPlace
  <2>2. count' \in Nat
    BY <1>4, Numbers DEF Remove
  <2> QED
    BY <1>4, <2>1, <2>2 DEF Remove, Unlock, QueueInv, QueueTypes
<1>5. CASE FindEmpty
  BY <1>5 DEF FindEmpty, Unlock, QueueInv, QueueTypes
<1>6. CASE FreePlace
  <2>1. spaces_sem' \in Nat
    BY <1>6, Numbers DEF FreePlace
  <2> QED
    BY <1>6, <2>1 DEF FreePlace, QueueInv, QueueTypes
<1>7. CASE UNCHANGED vars
  BY <1>7 DEF vars, QueueInv, QueueTypes
<1> QED
  BY <1>1, <1>2, <1>3, <1>4, <1>5, <1>6, <1>7 DEF Next, PusherStep, Pop

(* Two threads are never inside at once. *)
LEMMA MutexStep ==
  ASSUME QueueInv, [Next]_vars
  PROVE  MutexInv'
<1>0. Popper \notin Pushers
  BY QueueAssumption
<1>1. ASSUME NEW t \in Pushers, LockToPush(t) \/ LockToClose(t)
      PROVE  MutexInv'
  <2>1. /\ mutex = {} /\ mutex' = {t} /\ poppc' = poppc
        /\ pc'[t] \in {"insert", "close"} /\ \A u \in Pushers \ {t} : pc'[u] = pc[u]
    BY <1>1, GotoOne DEF LockToPush, LockToClose, Lock, QueueInv
  <2> QED
    BY <1>0, <2>1 DEF QueueInv, MutexInv
<1>2. ASSUME NEW t \in Pushers, Refuse(t) \/ Insert(t) \/ Close(t)
      PROVE  MutexInv'
  <2>1. /\ pc[t] \in {"insert", "close"} /\ mutex' = mutex \ {t} /\ poppc' = poppc
        /\ pc'[t] \in {"give_back", "announce", "wake"}
        /\ \A u \in Pushers \ {t} : pc'[u] = pc[u]
    BY <1>2, GotoOne DEF Refuse, Insert, Close, Unlock, QueueInv
  <2> QED
    BY <1>0, <2>1 DEF QueueInv, MutexInv
<1>3. ASSUME NEW t \in Pushers, Push(t) \/ AwaitSpace(t) \/ GiveBack(t) \/ Announce(t) \/ Wake(t)
      PROVE  MutexInv'
  <2>1. /\ pc[t] \notin {"insert", "close"} /\ mutex' = mutex /\ poppc' = poppc
        /\ pc'[t] \notin {"insert", "close"}
        /\ \A u \in Pushers \ {t} : pc'[u] = pc[u]
    BY <1>3, GotoOne DEF Push, AwaitSpace, GiveBack, Announce, Wake, QueueInv
  <2> QED
    BY <2>1 DEF QueueInv, MutexInv
<1>4. CASE LockToPop
  BY <1>0, <1>4 DEF LockToPop, Lock, QueueInv, MutexInv
<1>5. CASE Remove \/ FindEmpty
  <2>1. /\ poppc = "remove" /\ mutex' = mutex \ {Popper} /\ pc' = pc
        /\ poppc' # "remove"
    BY <1>5 DEF Remove, FindEmpty, Unlock
  <2> QED
    BY <1>0, <2>1 DEF QueueInv, MutexInv
<1>6. CASE AwaitItem \/ FreePlace \/ UNCHANGED vars
  BY <1>6 DEF AwaitItem, FreePlace, vars, QueueInv, MutexInv
<1> QED
  BY <1>1, <1>2, <1>3, <1>4, <1>5, <1>6 DEF Next, PushSteps, CloseSteps, Pop

(* The one at the close is alone, so the queue is open until then. *)
LEMMA CloseInvStep ==
  ASSUME QueueInv, [Next]_vars
  PROVE  CloseInv'
<1>1. ASSUME NEW t \in Pushers, LockToClose(t)
      PROVE  CloseInv'
  <2>1. ~closed /\ closed' = closed /\ poppc' = poppc
    BY <1>1 DEF LockToClose
  <2> QED
    BY <2>1 DEF QueueInv, CloseInv
<1>2. ASSUME NEW t \in Pushers, Close(t)
      PROVE  CloseInv'
  <2>1. /\ pc[t] = "close" /\ closed' = TRUE /\ pc'[t] = "wake"
        /\ \A u \in Pushers \ {t} : pc'[u] = pc[u]
    BY <1>2, GotoOne DEF Close, QueueInv
  <2>2. \A u \in Pushers \ {t} : pc[u] # "close"
    BY <2>1 DEF QueueInv, MutexInv
  <2> QED
    BY <2>1, <2>2 DEF CloseInv
<1>3. ASSUME NEW t \in Pushers, Push(t) \/ PushSteps(t) \/ Wake(t)
      PROVE  CloseInv'
  <2>1. \E from : \E label \in PusherPlaces \ {"close"} : PusherMove(t, from, label)
    BY <1>3, PusherMoves DEF PushSteps, PusherPlaces
  <2>2. /\ pc'[t] # "close" /\ poppc' = poppc
        /\ \A u \in Pushers \ {t} : pc'[u] = pc[u]
    BY <2>1, GotoOne DEF PusherMove, QueueInv
  <2>3. closed' = closed
    BY <1>3 DEF Push, PushSteps, AwaitSpace, LockToPush, Refuse, Insert, GiveBack, Announce, Wake
  <2> QED
    BY <2>2, <2>3 DEF QueueInv, CloseInv
<1>4. CASE Pop
  <2>1. closed' = closed /\ pc' = pc /\ (poppc' = "ended" => closed)
    BY <1>4 DEF Pop, AwaitItem, LockToPop, Remove, FindEmpty, FreePlace
  <2> QED
    BY <2>1 DEF QueueInv, CloseInv
<1>5. CASE UNCHANGED vars
  BY <1>5 DEF vars, QueueInv, CloseInv
<1> QED
  BY <1>1, <1>2, <1>3, <1>4, <1>5 DEF Next, CloseSteps

(* The counts after a move between two named places. *)
LEMMA MoveCounts ==
  ASSUME QueueInv, NEW t \in Pushers, NEW from \in PusherPlaces, NEW to \in PusherPlaces,
         PusherMove(t, {from}, to)
  PROVE  /\ Cardinality(HoldingSpace') \in Nat /\ Cardinality(Announcing') \in Nat
         /\ Cardinality(HoldingSpace') + Weight(from, Holding)
              = Cardinality(HoldingSpace) + Weight(to, Holding)
         /\ Cardinality(Announcing') + Weight(from, Noisy)
              = Cardinality(Announcing) + Weight(to, Noisy)
         /\ poppc' = poppc
<1>1. pc[t] = from /\ Goto(t, to) /\ poppc' = poppc
  BY DEF PusherMove
<1> QED
  BY <1>1, GotoCounts DEF QueueInv

(* The weights of the eight places. *)
LEMMA Weights ==
  /\ \A x \in {"lock", "insert", "give_back"} : Weight(x, Holding) = 1
  /\ \A x \in {"idle", "space", "announce", "close", "wake"} : Weight(x, Holding) = 0
  /\ \A x \in {"announce", "wake"} : Weight(x, Noisy) = 1
  /\ \A x \in {"idle", "space", "lock", "insert", "give_back", "close"} : Weight(x, Noisy) = 0
BY DEF Weight, Holding, Noisy

(* Both accounts are kept by every step of a pusher. *)
LEMMA PusherAccounts ==
  ASSUME QueueInv, NEW t \in Pushers, PusherStep(t)
  PROVE  PlacesBalance' /\ PermitsBalance'
<1> DEFINE H == Cardinality(HoldingSpace)
           A == Cardinality(Announcing)
<1>2. ASSUME poppc' = poppc, H' \in Nat, spaces_sem' + count' + H' = spaces_sem + count + H,
             spaces_sem' \in Nat, count' \in Nat
      PROVE  PlacesBalance'
  BY <1>2, Numbers DEF QueueInv, PlacesBalance
<1>3. ASSUME poppc' = poppc, closed' = closed, A' \in Nat, items_sem' \in Nat, count' \in Nat,
             items_sem' + A' + count = items_sem + A + count'
      PROVE  PermitsBalance'
  BY <1>3, Numbers DEF QueueInv, PermitsBalance
<1>4. spaces_sem' \in Nat /\ count' \in Nat /\ items_sem' \in Nat
  BY QueueTypesStep DEF QueueTypes, Next, PusherStep
<1>5. CASE Push(t) \/ LockToPush(t) \/ Refuse(t) \/ LockToClose(t)
  <2>1. H' = H /\ A' = A /\ H' \in Nat /\ A' \in Nat /\ poppc' = poppc
    <3>1. CASE Push(t)
      <4>1. PusherMove(t, {"idle"}, "space") /\ "idle" \in PusherPlaces /\ "space" \in PusherPlaces
        BY <3>1, PusherMoves DEF PusherPlaces
      <4>2. /\ H' \in Nat /\ A' \in Nat /\ poppc' = poppc
           /\ H' + Weight("idle", Holding) = H + Weight("space", Holding)
           /\ A' + Weight("idle", Noisy) = A + Weight("space", Noisy)
        BY <4>1, MoveCounts
      <4>3. H' + 0 = H + 0 /\ A' + 0 = A + 0
        BY <4>2, Weights
      <4> QED
        BY <4>2, <4>3, Numbers
    <3>2. CASE LockToPush(t)
      <4>1. PusherMove(t, {"lock"}, "insert") /\ "lock" \in PusherPlaces /\ "insert" \in PusherPlaces
        BY <3>2, PusherMoves DEF PusherPlaces
      <4>2. /\ H' \in Nat /\ A' \in Nat /\ poppc' = poppc
           /\ H' + Weight("lock", Holding) = H + Weight("insert", Holding)
           /\ A' + Weight("lock", Noisy) = A + Weight("insert", Noisy)
        BY <4>1, MoveCounts
      <4>3. H' + 1 = H + 1 /\ A' + 0 = A + 0
        BY <4>2, Weights
      <4> QED
        BY <4>2, <4>3, Numbers
    <3>3. CASE Refuse(t)
      <4>1. PusherMove(t, {"insert"}, "give_back") /\ "insert" \in PusherPlaces /\ "give_back" \in PusherPlaces
        BY <3>3, PusherMoves DEF PusherPlaces
      <4>2. /\ H' \in Nat /\ A' \in Nat /\ poppc' = poppc
           /\ H' + Weight("insert", Holding) = H + Weight("give_back", Holding)
           /\ A' + Weight("insert", Noisy) = A + Weight("give_back", Noisy)
        BY <4>1, MoveCounts
      <4>3. H' + 1 = H + 1 /\ A' + 0 = A + 0
        BY <4>2, Weights
      <4> QED
        BY <4>2, <4>3, Numbers
    <3>4. CASE LockToClose(t)
      <4>1. PusherMove(t, {"idle"}, "close") /\ "idle" \in PusherPlaces /\ "close" \in PusherPlaces
        BY <3>4, PusherMoves DEF PusherPlaces
      <4>2. /\ H' \in Nat /\ A' \in Nat /\ poppc' = poppc
           /\ H' + Weight("idle", Holding) = H + Weight("close", Holding)
           /\ A' + Weight("idle", Noisy) = A + Weight("close", Noisy)
        BY <4>1, MoveCounts
      <4>3. H' + 0 = H + 0 /\ A' + 0 = A + 0
        BY <4>2, Weights
      <4> QED
        BY <4>2, <4>3, Numbers
    <3> QED
      BY <1>5, <3>1, <3>2, <3>3, <3>4
  <2>2. spaces_sem' = spaces_sem /\ count' = count /\ items_sem' = items_sem /\ closed' = closed
    BY <1>5 DEF Push, LockToPush, Refuse, LockToClose, semVars, ringVars
  <2> QED
    BY <1>2, <1>3, <1>4, <2>1, <2>2
<1>6. CASE AwaitSpace(t)
  <2>1. H' = H + 1 /\ A' = A /\ H' \in Nat /\ A' \in Nat /\ poppc' = poppc
    <3>1. PusherMove(t, {"space"}, "lock") /\ "space" \in PusherPlaces /\ "lock" \in PusherPlaces
      BY <1>6, PusherMoves DEF PusherPlaces
    <3>2. /\ H' \in Nat /\ A' \in Nat /\ poppc' = poppc
         /\ H' + Weight("space", Holding) = H + Weight("lock", Holding)
         /\ A' + Weight("space", Noisy) = A + Weight("lock", Noisy)
      BY <3>1, MoveCounts
    <3>3. H' + 0 = H + 1 /\ A' + 0 = A + 0
      BY <3>2, Weights
    <3> QED
      BY <3>2, <3>3, Numbers
  <2>2. spaces_sem' = spaces_sem - 1 /\ count' = count /\ items_sem' = items_sem /\ closed' = closed
    BY <1>6 DEF AwaitSpace, ringVars
  <2> QED
    BY <1>2, <1>3, <1>4, <2>1, <2>2, Numbers
<1>7. CASE Insert(t)
  <2>1. H' = H - 1 /\ A' = A + 1 /\ H' \in Nat /\ A' \in Nat /\ poppc' = poppc
    <3>1. PusherMove(t, {"insert"}, "announce") /\ "insert" \in PusherPlaces /\ "announce" \in PusherPlaces
      BY <1>7, PusherMoves DEF PusherPlaces
    <3>2. /\ H' \in Nat /\ A' \in Nat /\ poppc' = poppc
         /\ H' + Weight("insert", Holding) = H + Weight("announce", Holding)
         /\ A' + Weight("insert", Noisy) = A + Weight("announce", Noisy)
      BY <3>1, MoveCounts
    <3>3. H' + 1 = H + 0 /\ A' + 0 = A + 1
      BY <3>2, Weights
    <3> QED
      BY <3>2, <3>3, Numbers
  <2>2. spaces_sem' = spaces_sem /\ count' = count + 1 /\ items_sem' = items_sem /\ closed' = closed
    BY <1>7 DEF Insert, semVars
  <2> QED
    BY <1>2, <1>3, <1>4, <2>1, <2>2, Numbers
<1>8. CASE GiveBack(t)
  <2>1. H' = H - 1 /\ A' = A /\ H' \in Nat /\ A' \in Nat /\ poppc' = poppc
    <3>1. PusherMove(t, {"give_back"}, "idle") /\ "give_back" \in PusherPlaces /\ "idle" \in PusherPlaces
      BY <1>8, PusherMoves DEF PusherPlaces
    <3>2. /\ H' \in Nat /\ A' \in Nat /\ poppc' = poppc
         /\ H' + Weight("give_back", Holding) = H + Weight("idle", Holding)
         /\ A' + Weight("give_back", Noisy) = A + Weight("idle", Noisy)
      BY <3>1, MoveCounts
    <3>3. H' + 1 = H + 0 /\ A' + 0 = A + 0
      BY <3>2, Weights
    <3> QED
      BY <3>2, <3>3, Numbers
  <2>2. spaces_sem' = spaces_sem + 1 /\ count' = count /\ items_sem' = items_sem /\ closed' = closed
    BY <1>8 DEF GiveBack, ringVars
  <2> QED
    BY <1>2, <1>3, <1>4, <2>1, <2>2, Numbers
<1>9. CASE Announce(t) \/ Wake(t)
  <2>1. H' = H /\ A' = A - 1 /\ H' \in Nat /\ A' \in Nat /\ poppc' = poppc
    <3>1. CASE Announce(t)
      <4>1. PusherMove(t, {"announce"}, "idle") /\ "announce" \in PusherPlaces /\ "idle" \in PusherPlaces
        BY <3>1, PusherMoves DEF PusherPlaces
      <4>2. /\ H' \in Nat /\ A' \in Nat /\ poppc' = poppc
           /\ H' + Weight("announce", Holding) = H + Weight("idle", Holding)
           /\ A' + Weight("announce", Noisy) = A + Weight("idle", Noisy)
        BY <4>1, MoveCounts
      <4>3. H' + 0 = H + 0 /\ A' + 1 = A + 0
        BY <4>2, Weights
      <4> QED
        BY <4>2, <4>3, Numbers
    <3>2. CASE Wake(t)
      <4>1. PusherMove(t, {"wake"}, "idle") /\ "wake" \in PusherPlaces /\ "idle" \in PusherPlaces
        BY <3>2, PusherMoves DEF PusherPlaces
      <4>2. /\ H' \in Nat /\ A' \in Nat /\ poppc' = poppc
           /\ H' + Weight("wake", Holding) = H + Weight("idle", Holding)
           /\ A' + Weight("wake", Noisy) = A + Weight("idle", Noisy)
        BY <4>1, MoveCounts
      <4>3. H' + 0 = H + 0 /\ A' + 1 = A + 0
        BY <4>2, Weights
      <4> QED
        BY <4>2, <4>3, Numbers
    <3> QED
      BY <1>9, <3>1, <3>2
  <2>2. spaces_sem' = spaces_sem /\ count' = count /\ items_sem' = items_sem + 1 /\ closed' = closed
    BY <1>9 DEF Announce, Wake, ringVars
  <2> QED
    BY <1>2, <1>3, <1>4, <2>1, <2>2, Numbers
<1>10. CASE Close(t)
  <2>1. H' = H /\ A' = A + 1 /\ H' \in Nat /\ A' \in Nat /\ poppc' = poppc /\ pc[t] = "close"
    <3>1. PusherMove(t, {"close"}, "wake") /\ "close" \in PusherPlaces /\ "wake" \in PusherPlaces
      BY <1>10, PusherMoves DEF PusherPlaces
    <3>2. /\ H' \in Nat /\ A' \in Nat /\ poppc' = poppc
         /\ H' + Weight("close", Holding) = H + Weight("wake", Holding)
         /\ A' + Weight("close", Noisy) = A + Weight("wake", Noisy)
      BY <3>1, MoveCounts
    <3>3. H' + 0 = H + 0 /\ A' + 0 = A + 1
      BY <3>2, Weights
    <3> QED
      BY <3>2, <3>3, Numbers, <1>10 DEF Close
  <2>2. spaces_sem' = spaces_sem /\ count' = count /\ items_sem' = items_sem /\ closed' = TRUE
    BY <1>10 DEF Close, ringVars, semVars
  <2>3. closed = FALSE /\ poppc # "ended"
    BY <2>1 DEF QueueInv, QueueTypes, CloseInv
  <2>4. PlacesBalance'
    BY <1>2, <1>4, <2>1, <2>2
  <2>5. PermitsBalance'
    BY <2>1, <2>2, <2>3, Numbers DEF QueueInv, PermitsBalance
  <2> QED
    BY <2>4, <2>5
<1> QED
  BY <1>5, <1>6, <1>7, <1>8, <1>9, <1>10 DEF PusherStep, PushSteps, CloseSteps

(* Both accounts are kept by every step of the popper; woken with nothing  *)
(* to pop, it finds the queue closed.                                      *)
LEMMA PopperAccounts ==
  ASSUME QueueInv, Pop
  PROVE  PlacesBalance' /\ PermitsBalance'
<1> DEFINE H == Cardinality(HoldingSpace)
           A == Cardinality(Announcing)
<1>1. H' = H /\ A' = A /\ pc' = pc /\ closed' = closed
  BY DEF Pop, AwaitItem, LockToPop, Remove, FindEmpty, FreePlace, HoldingSpace, Announcing
<1>2. /\ H \in Nat /\ A \in Nat /\ count \in Nat /\ items_sem \in Nat /\ spaces_sem \in Nat
      /\ Capacity \in Nat
      /\ closed \in BOOLEAN
  BY Numbers DEF QueueInv, QueueTypes
<1>3. /\ spaces_sem + count + H + (IF poppc = "free" THEN 1 ELSE 0) = Capacity
      /\ items_sem + A + (IF poppc \in {"lock", "remove"} THEN 1 ELSE 0)
           = count + (IF closed /\ poppc # "ended" THEN 1 ELSE 0)
  BY DEF QueueInv, PlacesBalance, PermitsBalance
<1> SUFFICES /\ spaces_sem' + count' + H + (IF poppc' = "free" THEN 1 ELSE 0) = Capacity
             /\ items_sem' + A + (IF poppc' \in {"lock", "remove"} THEN 1 ELSE 0)
                  = count' + (IF closed /\ poppc' # "ended" THEN 1 ELSE 0)
  BY <1>1 DEF PlacesBalance, PermitsBalance
<1> HIDE DEF H, A
<1>4. CASE AwaitItem
  BY <1>2, <1>3, <1>4 DEF AwaitItem, ringVars
<1>5. CASE LockToPop
  BY <1>2, <1>3, <1>5 DEF LockToPop, ringVars, semVars
<1>6. CASE Remove
  BY <1>2, <1>3, <1>6 DEF Remove, semVars
<1>7. CASE FindEmpty
  <2>1. poppc = "remove" /\ count = 0 /\ UNCHANGED <<spaces_sem, items_sem, count>>
        /\ poppc' = IF closed THEN "ended" ELSE "idle"
    BY <1>7 DEF FindEmpty, ringVars, semVars
  <2>2. items_sem + A + 1 = IF closed THEN 1 ELSE 0
    BY <1>2, <1>3, <2>1
  <2>3. closed /\ items_sem + A = 0
    BY <1>2, <2>2
  <2> QED
    BY <1>2, <1>3, <2>1, <2>3
<1>8. CASE FreePlace
  BY <1>2, <1>3, <1>8 DEF FreePlace, ringVars
<1> QED
  BY <1>4, <1>5, <1>6, <1>7, <1>8 DEF Pop

(* A message counts as spent once it was inserted or dropped, for good.    *)
LEMMA SpentStep ==
  ASSUME QueueInv, [Next]_vars
  PROVE  /\ Spent \subseteq Spent'
         /\ \A t \in Pushers : pc'[t] \in Entering => 0 < pushed'[t]
<1>1. ASSUME NEW t \in Pushers, PusherStep(t)
      PROVE  /\ Spent \subseteq Spent'
             /\ \A u \in Pushers : pc'[u] \in Entering => 0 < pushed'[u]
  <2>1. /\ \A u \in Pushers \ {t} : pc'[u] = pc[u] /\ pushed'[u] = pushed[u]
        /\ \/ pc[t] \notin Entering /\ pc'[t] \in Entering /\ pushed'[t] = pushed[t] + 1
           \/ pc[t] \in Entering /\ pushed'[t] = pushed[t]
           \/ pc'[t] \notin Entering /\ pushed'[t] = pushed[t]
    <3>1. CASE Push(t)
      <4>1. pc[t] = "idle" /\ Goto(t, "space") /\ pushed' = [pushed EXCEPT ![t] = pushed[t] + 1]
        BY <3>1 DEF Push
      <4>2. pushed'[t] = pushed[t] + 1 /\ \A u \in Pushers \ {t} : pushed'[u] = pushed[u]
        BY <4>1 DEF QueueInv, QueueTypes
      <4> QED
        BY <4>1, <4>2, GotoOne DEF Entering, QueueInv
    <3>2. CASE ~Push(t)
      <4>1. pushed' = pushed
        BY <1>1, <3>2 DEF PusherStep, PushSteps, CloseSteps, AwaitSpace, LockToPush, Refuse, Insert,
           GiveBack, Announce, LockToClose, Close, Wake
      <4>2. \/ \E from \in {{"space"}, {"lock"}, {"insert"}}, to \in PusherPlaces :
                 PusherMove(t, from, to)
            \/ \E from : \E to \in {"idle", "close", "wake"} : PusherMove(t, from, to)
        BY <1>1, <3>2, PusherMoves DEF PusherStep, PushSteps, CloseSteps, PusherPlaces
      <4>3. /\ \A u \in Pushers \ {t} : pc'[u] = pc[u]
            /\ pc[t] \in Entering \/ pc'[t] \notin Entering
        BY <4>2, GotoOne DEF PusherMove, Entering, QueueInv
      <4> QED
        BY <4>1, <4>3
    <3> QED
      BY <3>1, <3>2
  <2>2. \A u \in Pushers : pushed[u] \in Nat
    BY DEF QueueInv, QueueTypes
  <2>3. \A u \in Pushers : pc'[u] \in Entering => 0 < pushed'[u]
    BY <2>1, <2>2 DEF QueueInv, RingInv
  <2>4. ASSUME NEW m \in Msgs, m \in Spent
        PROVE  m \in Spent'
    <3>1. m[1] \in Pushers /\ m[2] \in Nat
      BY DEF Msgs
    <3>2. m[2] <= pushed[m[1]] /\ (pc[m[1]] \in Entering => m[2] < pushed[m[1]])
      BY <2>4 DEF Spent
    <3>3. m[2] <= pushed'[m[1]] /\ (pc'[m[1]] \in Entering => m[2] < pushed'[m[1]])
      <4>1. CASE m[1] = t
        BY <2>1, <2>2, <3>1, <3>2, <4>1
      <4>2. CASE m[1] # t
        BY <2>1, <3>1, <3>2, <4>2
      <4> QED
        BY <4>1, <4>2
    <3> QED
      BY <3>3 DEF Spent
  <2> QED
    BY <2>3, <2>4 DEF Spent
<1>2. CASE Pop \/ UNCHANGED vars
  <2>1. pc' = pc /\ pushed' = pushed
    BY <1>2 DEF Pop, AwaitItem, LockToPop, Remove, FindEmpty, FreePlace, vars
  <2> QED
    BY <2>1 DEF QueueInv, RingInv, Spent
<1> QED
  BY <1>1, <1>2 DEF Next, PusherStep

(* A step that leaves the ring alone. *)
LEMMA RingSame ==
  ASSUME QueueInv, [Next]_vars, UNCHANGED ringVars, popped' \in {popped, Nothing}
  PROVE  RingInv'
<1>1. Contents' = Contents /\ tail' = tail /\ head' = head /\ count' = count
  BY ContentsSame DEF ringVars
<1>2. Spent \subseteq Msgs /\ Nothing \notin Msgs
  BY DEF Spent, Msgs, Nothing
<1> QED
  BY <1>1, <1>2, SpentStep DEF QueueInv, RingInv

(* The index after the last message. *)
LEMMA TailIs ==
  ASSUME QueueInv
  PROVE  tail = IF head + count < Capacity THEN head + count ELSE head + count - Capacity
<1>1. head \in 0 .. Capacity - 1 /\ count \in 0 .. Capacity /\ Capacity \in Nat \ {0}
  BY Bounds, QueueAssumption DEF QueueInv, QueueTypes, Places
<1>2. PICK x \in Nat : x = head + count
  BY <1>1
<1>3. x % Capacity = IF x < Capacity THEN x ELSE x - Capacity
  BY <1>1, <1>2, Wrap
<1>4. tail = x % Capacity
  BY <1>2 DEF QueueInv, RingInv
<1> QED
  BY <1>1, <1>2, <1>3, <1>4

(* An insertion: the message is new, and there is a place for it. *)
LEMMA RingInsert ==
  ASSUME QueueInv, NEW t \in Pushers, Insert(t)
  PROVE  /\ RingInv' /\ count < Capacity /\ <<t, pushed[t]>> \in Msgs
         /\ Contents' = Append(Contents, <<t, pushed[t]>>)
<1> DEFINE m == <<t, pushed[t]>>
<1>1. /\ pc[t] = "insert" /\ Goto(t, "announce")
      /\ items' = [items EXCEPT ![tail] = m] /\ tail' = NextPlace(tail)
      /\ count' = count + 1 /\ head' = head /\ pushed' = pushed /\ popped' = popped
  BY DEF Insert
<1>2. m \in Msgs /\ pushed[t] \in Nat
  BY <1>1, NewMessage DEF QueueInv, Entering
<1>3. count < Capacity
  BY <1>1, Bounds DEF QueueInv, Holding
<1>4. Contents' = Append(Contents, m)
  BY <1>1, <1>2, <1>3, ContentsInsert DEF QueueInv
<1>5. m \notin Spent /\ m # popped
  <2>1. m \notin Spent
    BY <1>1, <1>2 DEF Spent, Entering
  <2>2. popped \in Spent \/ popped = Nothing
    BY DEF QueueInv, RingInv
  <2> QED
    BY <2>1, <2>2 DEF Nothing
<1>6. pc'[t] = "announce"
  BY <1>1, GotoOne DEF QueueInv
<1>7. m \in Spent'
  BY <1>1, <1>2, <1>6 DEF Spent, Entering
<1>8. Spent \subseteq Spent' /\ \A u \in Pushers : pc'[u] \in Entering => 0 < pushed'[u]
  BY SpentStep DEF Next, PushSteps
<1>9. tail' = (head + (count + 1)) % Capacity
  <2>1. /\ head \in 0 .. Capacity - 1 /\ count \in Nat /\ Capacity \in Nat \ {0}
    BY QueueAssumption DEF QueueInv, QueueTypes, Places
  <2>2. PICK x \in Nat : x = head + (count + 1)
    BY <2>1
  <2>3. tail = IF head + count < Capacity THEN head + count ELSE head + count - Capacity
    BY TailIs
  <2>4. x % Capacity = IF x < Capacity THEN x ELSE x - Capacity
    BY <1>3, <2>1, <2>2, Wrap
  <2>5. tail \in 0 .. Capacity - 1
    BY DEF QueueInv, QueueTypes, Places
  <2>6. NextPlace(tail) = IF tail + 1 < Capacity THEN tail + 1 ELSE 0
    BY <2>1, <2>5, Wrap DEF NextPlace
  <2> QED
    BY <1>1, <1>3, <2>1, <2>2, <2>3, <2>4, <2>6
<1>10. Contents \in Seq(Msgs) /\ Len(Contents) = count /\ count \in Nat
  BY ContentsAre DEF QueueInv, QueueTypes
<1>11. \A k \in 1 .. count + 1 : Contents'[k] = IF k = count + 1 THEN m ELSE Contents[k]
  BY <1>2, <1>4, <1>10, AppendProperties
<1>12. /\ \A k \in 1 .. count : Contents[k] \in Spent /\ Contents[k] # popped
       /\ \A j, k \in 1 .. count : Contents[j] = Contents[k] => j = k
       /\ popped \in Spent \cup {Nothing}
  BY DEF QueueInv, RingInv
<1>13. \A k \in 1 .. count + 1 : k = count + 1 \/ k \in 1 .. count
  BY <1>10
<1> HIDE DEF m
<1>14. \A k \in 1 .. count + 1 : Contents'[k] \in Spent' /\ Contents'[k] # popped
  BY <1>5, <1>7, <1>8, <1>11, <1>12, <1>13
<1>15. \A j, k \in 1 .. count + 1 : Contents'[j] = Contents'[k] => j = k
  BY <1>5, <1>11, <1>12, <1>13
<1>16. RingInv'
  BY <1>1, <1>8, <1>9, <1>12, <1>14, <1>15 DEF RingInv
<1> QED
  BY <1>2, <1>3, <1>4, <1>16 DEF m

(* A removal: the oldest message leaves the ring. *)
LEMMA RingRemove ==
  ASSUME QueueInv, Remove
  PROVE  RingInv' /\ Contents # <<>> /\ Contents' = Tail(Contents) /\ popped' = Head(Contents)
<1>1. /\ count > 0 /\ count' = count - 1 /\ head' = NextPlace(head) /\ popped' = items[head]
      /\ UNCHANGED <<items, tail, pc, pushed>>
  BY DEF Remove
<1>2. Contents' = Tail(Contents) /\ items[head] = Contents[1] /\ Contents # <<>>
  BY <1>1, ContentsRemove DEF QueueInv
<1>3. Contents \in Seq(Msgs) /\ Len(Contents) = count /\ count \in Nat
  BY ContentsAre DEF QueueInv, QueueTypes
<1>4. \A k \in 1 .. count - 1 : Contents'[k] = Contents[k + 1] /\ k + 1 \in 1 .. count /\ k + 1 # 1
  BY <1>1, <1>2, <1>3, HeadTailProperties
<1>5. Spent' = Spent
  BY <1>1 DEF Spent
<1>6. 1 \in 1 .. count
  BY <1>1, <1>3
<1>7. /\ \A k \in 1 .. count : Contents[k] \in Spent
      /\ \A j, k \in 1 .. count : Contents[j] = Contents[k] => j = k
      /\ \A t \in Pushers : pc[t] \in Entering => 0 < pushed[t]
  BY DEF QueueInv, RingInv
<1>8. tail = (head' + (count - 1)) % Capacity
  <2>1. /\ head \in 0 .. Capacity - 1 /\ Capacity \in Nat \ {0} /\ count \in 1 .. Capacity
    BY <1>1, Bounds, QueueAssumption DEF QueueInv, QueueTypes, Places
  <2>3. tail = IF head + count < Capacity THEN head + count ELSE head + count - Capacity
    BY TailIs
  <2>4. head' = IF head + 1 < Capacity THEN head + 1 ELSE 0
    BY <1>1, <2>1, Wrap DEF NextPlace
  <2>5. PICK x \in Nat : x = head' + (count - 1)
    BY <2>1, <2>4
  <2>6. x < 2 * Capacity /\ head' \in Int
    BY <2>1, <2>4, <2>5
  <2>7. x % Capacity = IF x < Capacity THEN x ELSE x - Capacity
    BY <2>1, <2>6, Wrap
  <2>8. tail = x % Capacity
    BY <2>1, <2>3, <2>4, <2>5, <2>7
  <2> QED
    BY <2>1, <2>5, <2>6, <2>8
<1>9. \A k \in 1 .. count - 1 : Contents'[k] \in Spent' /\ Contents'[k] # popped'
  <2> TAKE k \in 1 .. count - 1
  <2>1. Contents'[k] = Contents[k + 1] /\ k + 1 \in 1 .. count /\ k + 1 # 1
    BY <1>4
  <2>2. Contents[k + 1] # Contents[1]
    BY <1>6, <1>7, <2>1
  <2> QED
    BY <1>1, <1>2, <1>5, <1>7, <2>1, <2>2
<1>10. \A j, k \in 1 .. count - 1 : Contents'[j] = Contents'[k] => j = k
  <2> TAKE j, k \in 1 .. count - 1
  <2> HAVE Contents'[j] = Contents'[k]
  <2>1. j + 1 = k + 1
    BY <1>4, <1>7
  <2> QED
    BY <1>3, <2>1
<1>11. popped' \in Spent'
  BY <1>1, <1>2, <1>5, <1>6, <1>7
<1>12. RingInv'
  BY <1>1, <1>7, <1>8, <1>9, <1>10, <1>11 DEF RingInv
<1>13. Head(Contents) = Contents[1]
  BY <1>2, <1>3
<1> QED
  BY <1>1, <1>2, <1>12, <1>13

(* The rest of the steps do not write to the ring. *)
LEMMA RingStep ==
  ASSUME QueueInv, [Next]_vars
  PROVE  RingInv'
<1>1. [Next]_vars => \/ \E t \in Pushers : Insert(t)
                     \/ Remove
                     \/ UNCHANGED ringVars /\ popped' \in {popped, Nothing}
  BY DEF Next, PushSteps, CloseSteps, Pop, Push, AwaitSpace, LockToPush, Refuse, GiveBack,
     Announce, LockToClose, Close, Wake, AwaitItem, LockToPop, FindEmpty, FreePlace, vars
<1> QED
  BY <1>1, RingInsert, RingRemove, RingSame

(* The queue starts empty, with all its places free. *)
LEMMA QueueStart == Init => QueueInv
<1> SUFFICES ASSUME Init PROVE QueueInv
  OBVIOUS
<1>1. HoldingSpace = {} /\ Announcing = {}
  BY DEF Init, HoldingSpace, Announcing
<1>2. Cardinality(HoldingSpace) = 0 /\ Cardinality(Announcing) = 0
  BY <1>1, FS_EmptySet
<1>3. 0 \in Places /\ Capacity \in Nat
  BY QueueAssumption DEF Places
<1>4. QueueTypes
  <2>1. items \in [Places -> Msgs \cup {Nothing}] /\ popped \in Msgs \cup {Nothing}
    BY DEF Init
  <2>2. pc \in [Pushers -> PusherPlaces] /\ pushed \in [Pushers -> 0 .. MaxPush]
    BY QueueAssumption DEF Init, PusherPlaces
  <2> QED
    BY <1>3, <2>1, <2>2 DEF Init, QueueTypes
<1>5. MutexInv /\ CloseInv
  BY DEF Init, MutexInv, CloseInv
<1>6. PlacesBalance
  BY <1>2, <1>3 DEF Init, PlacesBalance
<1>7. PermitsBalance
  BY <1>2 DEF Init, PermitsBalance
<1>8. RingInv
  <2>1. (head + count) % Capacity = 0
    BY QueueAssumption, Wrap DEF Init
  <2> QED
    BY <2>1 DEF Init, RingInv, Entering
<1> QED
  BY <1>4, <1>5, <1>6, <1>7, <1>8 DEF QueueInv

(* Every step of the queue keeps its invariant. *)
LEMMA QueueStep ==
  ASSUME QueueInv, [Next]_vars
  PROVE  QueueInv'
<1>1. PlacesBalance' /\ PermitsBalance'
  <2>1. CASE UNCHANGED vars
    BY <2>1 DEF vars, ringVars, semVars, QueueInv, PlacesBalance, PermitsBalance, HoldingSpace,
       Announcing
  <2>2. CASE Pop
    BY <2>2, PopperAccounts
  <2>3. CASE \E t \in Pushers : PusherStep(t)
    BY <2>3, PusherAccounts
  <2> QED
    BY <2>1, <2>2, <2>3 DEF Next, PusherStep
<1> QED
  BY <1>1, QueueTypesStep, MutexStep, CloseInvStep, RingStep DEF QueueInv

(* What the invariant says of the types and of the ring. *)
LEMMA QueueConsequences == QueueInv => TypeOK /\ PlacesBalance /\ PermitsBalance /\ RingShape
<1> SUFFICES ASSUME QueueInv PROVE TypeOK /\ RingShape
  BY DEF QueueInv
<1>1. TypeOK
  <2>1. count \in 0 .. Capacity /\ spaces_sem \in 0 .. Capacity
    BY Bounds DEF QueueInv
  <2>2. mutex \in SUBSET (Pushers \cup {Popper})
    BY DEF QueueInv, QueueTypes
  <2> QED
    BY <2>1, <2>2 DEF QueueInv, QueueTypes, TypeOK
<1>2. RingShape
  <2>1. \A k \in 1 .. count : Contents[k] # Nothing /\ Contents[k] # popped
    BY DEF QueueInv, RingInv, Spent, Msgs, Nothing
  <2>2. \A t \in Pushers : pc[t] = "insert" =>
           /\ count < Capacity
           /\ poppc # "remove" /\ \A u \in Pushers \ {t} : pc[u] \notin {"insert", "close"}
    <3>1. Popper \notin Pushers
      BY QueueAssumption
    <3>2. \A t \in Pushers : pc[t] = "insert" => count < Capacity
      BY Bounds DEF QueueInv, Holding
    <3> QED
      BY <3>1, <3>2 DEF QueueInv, MutexInv
  <2> QED
    BY <2>1, <2>2 DEF QueueInv, RingInv, RingShape
<1> QED
  BY <1>1, <1>2

(* An insertion is a Put, a removal a Take, the end of request_queue_close *)
(* a Close, and the popper that finds the queue empty learns of it; every  *)
(* other step, the semaphores' and the mutex's, changes nothing.           *)
LEMMA FifoStep ==
  ASSUME QueueInv, [Next]_vars
  PROVE  [Fifo!Next]_(Fifo!fifoVars)
<1>1. ASSUME NEW t \in Pushers, Insert(t)
      PROVE  Fifo!Next
  <2>1. /\ count < Capacity /\ <<t, pushed[t]>> \in Msgs
        /\ Contents' = Append(Contents, <<t, pushed[t]>>)
    BY <1>1, RingInsert
  <2>2. Len(Contents) = count
    BY ContentsAre DEF QueueInv
  <2>3. ~closed /\ closed' = closed /\ poppc' = poppc
    BY <1>1 DEF Insert
  <2>4. Fifo!Put(<<t, pushed[t]>>)
    BY <2>1, <2>2, <2>3 DEF Fifo!Put
  <2> QED
    BY <2>1, <2>4 DEF Fifo!Next
<1>2. CASE Remove
  <2>1. Contents # <<>> /\ Contents' = Tail(Contents)
    BY <1>2, RingRemove
  <2>2. closed' = closed /\ (poppc' = "ended") = (poppc = "ended")
    BY <1>2 DEF Remove
  <2>3. Fifo!Take
    BY <2>1, <2>2 DEF Fifo!Take
  <2> QED
    BY <2>3 DEF Fifo!Next
<1>3. ASSUME NEW t \in Pushers, Close(t)
      PROVE  Fifo!Next
  <2>1. closed' = TRUE /\ poppc' = poppc /\ Contents' = Contents
    BY <1>3, ContentsSame DEF Close
  <2>2. Fifo!Close
    BY <2>1 DEF Fifo!Close
  <2> QED
    BY <2>2 DEF Fifo!Next
<1>4. CASE FindEmpty
  <2>1. poppc = "remove" /\ count = 0 /\ closed' = closed /\ Contents' = Contents
        /\ poppc' = IF closed THEN "ended" ELSE "idle"
    BY <1>4, ContentsSame DEF FindEmpty
  <2>2. Contents = <<>>
    <3>1. Contents \in Seq(Msgs) /\ Len(Contents) = 0
      BY <2>1, ContentsAre DEF QueueInv
    <3> QED
      BY <3>1, EmptySeq
  <2>3. CASE closed
    <3>1. Fifo!End
      BY <2>1, <2>2, <2>3 DEF Fifo!End
    <3> QED
      BY <3>1 DEF Fifo!Next
  <2>4. CASE ~closed
    BY <2>1, <2>4 DEF Fifo!fifoVars
  <2> QED
    BY <2>3, <2>4
<1>5. [Next]_vars => \/ \E t \in Pushers : Insert(t) \/ Close(t)
                     \/ Remove \/ FindEmpty
                     \/ UNCHANGED ringVars /\ closed' = closed
                        /\ (poppc' = "ended") = (poppc = "ended")
  BY DEF Next, PushSteps, CloseSteps, Pop, Push, AwaitSpace, LockToPush, Refuse, GiveBack,
     Announce, LockToClose, Wake, AwaitItem, LockToPop, FreePlace, vars
<1>6. CASE UNCHANGED ringVars /\ closed' = closed /\ (poppc' = "ended") = (poppc = "ended")
  BY <1>6, ContentsSame DEF Fifo!fifoVars
<1> QED
  BY <1>1, <1>2, <1>3, <1>4, <1>5, <1>6
-----------------------------------------------------------------------------
(* A step of the process is a step of the queue and a step of the slot. *)
LEMMA BuffersStep ==
  ASSUME [BuffersNext]_allVars
  PROVE  [Next]_vars /\ [SlotNext]_slotVars
BY DEF BuffersNext, BeginPush, InPush, BeginClose, InClose, BeginSet, InSet, HandlerPop,
   ComputeRequest, ComputeWait, Next, SlotNext, allVars

(* The invariants of both buffers. *)
THEOREM BuffersInvariant == BuffersSpec => [](QueueInv /\ SlotInv)
<1>1. BuffersInit => QueueInv /\ SlotInv
  BY QueueStart, SlotStart DEF BuffersInit
<1>2. QueueInv /\ SlotInv /\ [BuffersNext]_allVars => (QueueInv /\ SlotInv)'
  BY BuffersStep, QueueStep, SlotStep
<1> QED
  BY <1>1, <1>2, PTL DEF BuffersSpec

(* Both buffers keep their types, for every capacity and number of         *)
(* threads: an index never leaves the ring.                                *)
THEOREM BuffersTypes == BuffersSpec => []BuffersTypeOK
<1>1. QueueInv /\ SlotInv => BuffersTypeOK
  BY QueueConsequences, SlotConsequences DEF BuffersTypeOK
<1> QED
  BY <1>1, BuffersInvariant, PTL

(* No place of the ring is lost, also when a push meets a closed queue     *)
(* (request_queue_push, rpBenchmark2/main.c:257-270).                      *)
THEOREM NoPlaceLost == BuffersSpec => []PlacesBalance
<1>1. QueueInv => PlacesBalance
  BY QueueConsequences
<1> QED
  BY <1>1, BuffersInvariant, PTL

(* Every item has its permit, and the close one more, spent last.          *)
THEOREM NoPermitLost == BuffersSpec => []PermitsBalance
<1>1. QueueInv => PermitsBalance
  BY QueueConsequences
<1> QED
  BY <1>1, BuffersInvariant, PTL

(* No message that is still to be popped is overwritten. *)
THEOREM RingKept == BuffersSpec => []RingShape
<1>1. QueueInv => RingShape
  BY QueueConsequences
<1> QED
  BY <1>1, BuffersInvariant, PTL

(* The receiver never waits for the slot, and the compute thread takes the *)
(* response to its last request.                                           *)
THEOREM ResponsesHandedOver == BuffersSpec => []HandedOver
<1>1. SlotInv => HandedOver
  BY SlotConsequences
<1> QED
  BY <1>1, BuffersInvariant, PTL

(* The ring takes only the steps of the closable FIFO: what was inserted   *)
(* before the close is popped once and in order, and the popper is told of *)
(* the close only when the queue is empty.                                 *)
THEOREM FifoImplemented == BuffersSpec => Fifo!Safety
<1>1. Init => Fifo!Init
  <2> SUFFICES ASSUME Init PROVE Fifo!Init
    OBVIOUS
  <2>1. Contents \in Seq(Msgs) /\ Len(Contents) = 0
    BY QueueStart, ContentsAre DEF QueueInv, Init
  <2> QED
    BY <2>1, EmptySeq DEF Init, Fifo!Init
<1>2. QueueInv /\ [BuffersNext]_allVars => [Fifo!Next]_(Fifo!fifoVars)
  BY BuffersStep, FifoStep
<1> QED
  BY <1>1, <1>2, BuffersInvariant, PTL DEF BuffersSpec, BuffersInit, Fifo!Safety

(* The slot takes only the steps of a buffer of one place that is never    *)
(* closed: each response that was set is taken once.                       *)
THEOREM OnePlaceImplemented == BuffersSpec => OnePlace!Safety
<1>1. SlotInit => OnePlace!Init
  BY DEF SlotInit, OnePlace!Init, Response
<1>2. SlotInv /\ [BuffersNext]_allVars => [OnePlace!Next]_(OnePlace!fifoVars)
  BY BuffersStep, OnePlaceStep
<1> QED
  BY <1>1, <1>2, BuffersInvariant, PTL DEF BuffersSpec, BuffersInit, OnePlace!Safety
=============================================================================
