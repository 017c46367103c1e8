-------------------------------- MODULE Com --------------------------------
(***************************************************************************)
(* The communication layer of com.c: every user process owns one shared    *)
(* memory segment and one slot, a single router process moves message      *)
(* metadata from the central mailbox to the inbox of the destination, and  *)
(* receivers acknowledge straight to the sender's counting semaphore.      *)
(*                                                                         *)
(* ComNext is the most general legal client of com.h: any number of sender *)
(* threads and one receiver thread per process, calling                    *)
(*    com_prepare_send_buffer, fill, com_send*, com_finish_send_buffer     *)
(* and com_recv in any order and with any arguments, until the process     *)
(* calls com_finalize or dies.  A benchmark is a restriction of it.        *)
(*                                                                         *)
(* An action is one semaphore or mutex operation together with the private *)
(* code up to the next one.  A semaphore is the natural number it holds.   *)
(***************************************************************************)
EXTENDS Integers, FiniteSets, Sequences

CONSTANTS
  NProc,       \* nr_proc
  Workers,     \* the threads of one process that send
  Sizes,       \* the message sizes clients ask for
  Data,        \* what a client can write into its segment
  Blank,       \* the contents of a segment nobody wrote, and of an empty message
  MaxMsgId,    \* bound: no process sends more than MaxMsgId messages
  MaxCrashes   \* bound: no more than MaxCrashes processes die

ASSUME ComAssumption ==
  /\ NProc \in Nat \ {0}
  /\ Sizes \subseteq Nat
  /\ MaxMsgId \in Nat
  /\ MaxCrashes \in Nat

Ranks == 0 .. NProc - 1

VARIABLES
  (* SharedState.server_box *)
  server_box, box_empty, box_full, box_delivered,
  (* SharedState.slots[]: the inbox half of every slot *)
  inbox, slot_empty, slot_full,
  (* SharedState.slots[]: the acknowledgement half *)
  ack_full, pending_acks,
  (* the segment of every process, and what its owner knows of it *)
  segment, file_size, capacity, prepared_size, send_mapping,
  (* the process-local lock on the send buffer *)
  send_buffer_lock, send_buffer_active,
  (* sender threads: where they are in com.h, their arguments, g_next_msg_id *)
  pc, call, next_msg_id,
  (* receiver threads: where they are in com_recv, and its locals *)
  rpc, rcv,
  (* the router process *)
  router_pc, router_dest,
  (* com_finalize *)
  fpc, finalize_lock, finalized_count,
  (* the processes that did not die *)
  alive

boxVars    == <<server_box, box_empty, box_full, box_delivered>>
inboxVars  == <<inbox, slot_empty, slot_full>>
ackVars    == <<ack_full, pending_acks>>
segVars    == <<segment, file_size, capacity, prepared_size, send_mapping>>
lockVars   == <<send_buffer_lock, send_buffer_active>>
threadVars == <<pc, call, next_msg_id>>
recvVars   == <<rpc, rcv>>
routerVars == <<router_pc, router_dest>>
finVars    == <<fpc, finalize_lock, finalized_count>>

comVars == <<boxVars, inboxVars, ackVars, segVars, lockVars, threadVars,
             recvVars, routerVars, finVars, alive>>
-----------------------------------------------------------------------------
(* A rank field, or the segment name of a rank, that holds nothing. *)
NoRank == -1

(* An inbox names the segment to read and, separately, whom to acknowledge. *)
EmptyInbox == [src_rank |-> NoRank, msg_id |-> 0, size |-> 0, shm_name |-> NoRank]

(* dest_rank = NoRank in a posted mailbox is the shutdown sentinel. *)
EmptyBox == [src_rank |-> NoRank, dest_rank |-> NoRank, msg_id |-> 0,
             size |-> 0, shm_name |-> NoRank]

(* The arguments and locals of a sender thread inside com.h. *)
Call(s, q, id) == [size |-> s, dest |-> q, msg_id |-> id]

NoCall == Call(0, NoRank, 0)

NoMessage == [sender_rank |-> NoRank, sender_msg_id |-> 0, size |-> 0, msg |-> Blank]

ComInit ==
  /\ server_box = EmptyBox
  /\ box_empty = 1 /\ box_full = 0 /\ box_delivered = 0
  /\ inbox = [q \in Ranks |-> EmptyInbox]
  /\ slot_empty = [q \in Ranks |-> 1]
  /\ slot_full = [q \in Ranks |-> 0]
  /\ ack_full = [p \in Ranks |-> 0]
  /\ pending_acks = [p \in Ranks |-> 0]
  /\ segment = [p \in Ranks |-> Blank]
  /\ file_size = [p \in Ranks |-> 0]
  /\ capacity = [p \in Ranks |-> 0]
  /\ prepared_size = [p \in Ranks |-> 0]
  /\ send_mapping = [p \in Ranks |-> 0]
  /\ send_buffer_lock = [p \in Ranks |-> {}]
  /\ send_buffer_active = [p \in Ranks |-> FALSE]
  /\ pc = [p \in Ranks |-> [w \in Workers |-> "idle"]]
  /\ call = [p \in Ranks |-> [w \in Workers |-> NoCall]]
  /\ next_msg_id = [p \in Ranks |-> 1]
  /\ rpc = [q \in Ranks |-> "idle"]
  /\ rcv = [q \in Ranks |-> NoMessage]
  /\ router_pc = "wait" /\ router_dest = NoRank
  /\ fpc = [p \in Ranks |-> "run"]
  /\ finalize_lock = 1 /\ finalized_count = 0
  /\ alive = Ranks
-----------------------------------------------------------------------------
(* com_prepare_send_buffer, com_send and com_finish_send_buffer, called by *)
(* thread w of process p.                                                  *)

At(p, w, label)   == p \in alive /\ pc[p][w] = label
Goto(p, w, label) == pc' = [pc EXCEPT ![p][w] = label]

Prepare(p, w, s) ==
  /\ At(p, w, "idle") /\ fpc[p] = "run"
  /\ call' = [call EXCEPT ![p][w] = Call(s, NoRank, 0)]
  /\ Goto(p, w, "lock")
  /\ UNCHANGED <<boxVars, inboxVars, ackVars, segVars, lockVars, next_msg_id,
                 recvVars, routerVars, finVars, alive>>

(* Mutant: a thread does not wait for the other that has the buffer. *)
LockBufferAnyway(p, w) ==
  /\ At(p, w, "lock")
  /\ send_buffer_lock' = [send_buffer_lock EXCEPT ![p] = {w}]
  /\ send_buffer_active' = [send_buffer_active EXCEPT ![p] = TRUE]
  /\ Goto(p, w, "drain")
  /\ UNCHANGED <<boxVars, inboxVars, ackVars, segVars, call, next_msg_id,
                 recvVars, routerVars, finVars, alive>>

LockBuffer(p, w) ==
  /\ At(p, w, "lock")
  /\ send_buffer_lock[p] = {}
  /\ send_buffer_lock' = [send_buffer_lock EXCEPT ![p] = {w}]
  /\ send_buffer_active' = [send_buffer_active EXCEPT ![p] = TRUE]
  /\ Goto(p, w, "drain")
  /\ UNCHANGED <<boxVars, inboxVars, ackVars, segVars, call, next_msg_id,
                 recvVars, routerVars, finVars, alive>>

(* Mutant: does not wait for the acknowledgement it consumes. *)
ConsumeAckUnposted(p) ==
  /\ pending_acks[p] > 0
  /\ ack_full' = [ack_full EXCEPT ![p] = @ - 1]
  /\ pending_acks' = [pending_acks EXCEPT ![p] = @ - 1]

(* One turn of the loop of wait_for_pending_acks. *)
ConsumeAck(p) ==
  /\ pending_acks[p] > 0
  /\ ack_full[p] > 0
  /\ ack_full' = [ack_full EXCEPT ![p] = @ - 1]
  /\ pending_acks' = [pending_acks EXCEPT ![p] = @ - 1]

AwaitAck(p, w) ==
  /\ At(p, w, "drain")
  /\ ConsumeAck(p)
  /\ UNCHANGED <<boxVars, inboxVars, segVars, lockVars, threadVars,
                 recvVars, routerVars, finVars, alive>>

(* Mutant: the loop stops one acknowledgement early. *)
DrainedButOne(p) == pending_acks[p] <= 1

(* The loop of wait_for_pending_acks is over. *)
Drained(p) == pending_acks[p] = 0

(* Mutant: only a segment that was never sized is sized. *)
TooSmallOnce(p, s) == s > 0 /\ capacity[p] = 0

TooSmall(p, s) == s > capacity[p]

(* Grow the segment if it is too small, dropping the old mapping, and map  *)
(* it again if there is no large enough mapping.                           *)
MapBuffer(p, w) ==
  /\ At(p, w, "drain")
  /\ Drained(p)
  /\ LET s    == call[p][w].size
         grow == TooSmall(p, s)
         kept == IF grow THEN 0 ELSE send_mapping[p]
     IN /\ file_size' = [file_size EXCEPT ![p] = IF grow THEN s ELSE @]
        /\ capacity' = [capacity EXCEPT ![p] = IF grow THEN s ELSE @]
        /\ send_mapping' = [send_mapping EXCEPT ![p] = IF kept < s THEN s ELSE kept]
        /\ prepared_size' = [prepared_size EXCEPT ![p] = s]
        /\ Goto(p, w, IF s = 0 THEN "ready" ELSE "fill")
  /\ UNCHANGED <<boxVars, inboxVars, ackVars, segment, lockVars, call, next_msg_id,
                 recvVars, routerVars, finVars, alive>>

(* The caller writes the payload.  At "fill" the write is under way. *)
Fill(p, w, d) ==
  /\ At(p, w, "fill")
  /\ segment' = [segment EXCEPT ![p] = d]
  /\ Goto(p, w, "ready")
  /\ UNCHANGED <<boxVars, inboxVars, ackVars, file_size, capacity, prepared_size,
                 send_mapping, lockVars, call, next_msg_id,
                 recvVars, routerVars, finVars, alive>>

Send(p, w, q) ==
  /\ At(p, w, "ready")
  /\ next_msg_id[p] <= MaxMsgId
  /\ call' = [call EXCEPT ![p][w] = Call(@.size, q, next_msg_id[p])]
  /\ next_msg_id' = [next_msg_id EXCEPT ![p] = @ + 1]
  /\ Goto(p, w, "box")
  /\ UNCHANGED <<boxVars, inboxVars, ackVars, segVars, lockVars,
                 recvVars, routerVars, finVars, alive>>

AcquireBox(p, w) ==
  /\ At(p, w, "box")
  /\ box_empty > 0
  /\ box_empty' = box_empty - 1
  /\ Goto(p, w, "post")
  /\ UNCHANGED <<server_box, box_full, box_delivered, inboxVars, ackVars, segVars,
                 lockVars, call, next_msg_id, recvVars, routerVars, finVars, alive>>

PostRequest(p, w) ==
  /\ At(p, w, "post")
  /\ server_box' = [src_rank |-> p, dest_rank |-> call[p][w].dest,
                    msg_id |-> call[p][w].msg_id, size |-> call[p][w].size,
                    shm_name |-> p]
  /\ box_full' = box_full + 1
  /\ Goto(p, w, "deliver")
  /\ UNCHANGED <<box_empty, box_delivered, inboxVars, ackVars, segVars, lockVars,
                 call, next_msg_id, recvVars, routerVars, finVars, alive>>

AwaitDelivered(p, w) ==
  /\ At(p, w, "deliver")
  /\ box_delivered > 0
  /\ box_delivered' = box_delivered - 1
  /\ Goto(p, w, "release")
  /\ UNCHANGED <<server_box, box_empty, box_full, inboxVars, ackVars, segVars,
                 lockVars, call, next_msg_id, recvVars, routerVars, finVars, alive>>

ReleaseBox(p, w) ==
  /\ At(p, w, "release")
  /\ box_empty' = box_empty + 1
  /\ pending_acks' = [pending_acks EXCEPT ![p] = @ + 1]
  /\ call' = [call EXCEPT ![p][w] = Call(@.size, NoRank, 0)]
  /\ Goto(p, w, "ready")
  /\ UNCHANGED <<server_box, box_full, box_delivered, inboxVars, ack_full, segVars,
                 lockVars, next_msg_id, recvVars, routerVars, finVars, alive>>

(* com_finish_send_buffer as it acts on the state of process p. *)
UnlockBuffer(p) ==
  /\ prepared_size' = [prepared_size EXCEPT ![p] = 0]
  /\ send_buffer_active' = [send_buffer_active EXCEPT ![p] = FALSE]
  /\ send_buffer_lock' = [send_buffer_lock EXCEPT ![p] = {}]

FinishBuffer(p, w) ==
  /\ At(p, w, "ready")
  /\ UnlockBuffer(p)
  /\ call' = [call EXCEPT ![p][w] = NoCall]
  /\ Goto(p, w, "idle")
  /\ UNCHANGED <<boxVars, inboxVars, ackVars, segment, file_size, capacity,
                 send_mapping, next_msg_id, recvVars, routerVars, finVars, alive>>
-----------------------------------------------------------------------------
(* com_recv, called by the receiver thread of process q. *)

RecvAt(q, label) == q \in alive /\ rpc[q] = label

AwaitMessage(q) ==
  /\ RecvAt(q, "idle") /\ fpc[q] = "run"
  /\ slot_full[q] > 0
  /\ slot_full' = [slot_full EXCEPT ![q] = @ - 1]
  /\ rcv' = [rcv EXCEPT ![q] = [sender_rank |-> inbox[q].src_rank,
                                sender_msg_id |-> inbox[q].msg_id,
                                size |-> inbox[q].size, msg |-> Blank]]
  /\ rpc' = [rpc EXCEPT ![q] = "copy"]
  /\ UNCHANGED <<boxVars, inbox, slot_empty, ackVars, segVars, lockVars, threadVars,
                 routerVars, finVars, alive>>

(* read_message_from_segment.  At "copy" the read is under way. *)
CopyPayload(q) ==
  /\ RecvAt(q, "copy")
  /\ rcv' = [rcv EXCEPT ![q] = [sender_rank |-> @.sender_rank,
                                sender_msg_id |-> @.sender_msg_id, size |-> @.size,
                                msg |-> IF inbox[q].size = 0 THEN Blank
                                        ELSE segment[inbox[q].shm_name]]]
  /\ rpc' = [rpc EXCEPT ![q] = "clear"]
  /\ UNCHANGED <<boxVars, inboxVars, ackVars, segVars, lockVars, threadVars,
                 routerVars, finVars, alive>>

ClearInbox(q) ==
  /\ RecvAt(q, "clear")
  /\ inbox' = [inbox EXCEPT ![q] = EmptyInbox]
  /\ slot_empty' = [slot_empty EXCEPT ![q] = @ + 1]
  /\ rpc' = [rpc EXCEPT ![q] = "ack"]
  /\ UNCHANGED <<boxVars, slot_full, ackVars, segVars, lockVars, threadVars, rcv,
                 routerVars, finVars, alive>>

(* Mutant: acknowledges to its own slot. *)
AckTargetSelf(q) == q

AckTarget(q) == rcv[q].sender_rank

PostAck(q) ==
  /\ RecvAt(q, "ack")
  /\ ack_full' = [ack_full EXCEPT ![AckTarget(q)] = @ + 1]
  /\ rcv' = [rcv EXCEPT ![q] = NoMessage]
  /\ rpc' = [rpc EXCEPT ![q] = "idle"]
  /\ UNCHANGED <<boxVars, inboxVars, pending_acks, segVars, lockVars, threadVars,
                 routerVars, finVars, alive>>
-----------------------------------------------------------------------------
(* server_loop, the router process. *)

RouterTake ==
  /\ router_pc = "wait"
  /\ box_full > 0
  /\ box_full' = box_full - 1
  /\ router_dest' = server_box.dest_rank
  /\ router_pc' = IF server_box.dest_rank = NoRank THEN "stopped" ELSE "reserve"
  /\ UNCHANGED <<server_box, box_empty, box_delivered, inboxVars, ackVars, segVars,
                 lockVars, threadVars, recvVars, finVars, alive>>

(* Mutant: does not wait until the inbox is empty. *)
RouterReserveAnyway ==
  /\ router_pc = "reserve"
  /\ router_pc' = "forward"
  /\ UNCHANGED <<boxVars, inboxVars, ackVars, segVars, lockVars, threadVars,
                 recvVars, router_dest, finVars, alive>>

RouterReserve ==
  /\ router_pc = "reserve"
  /\ slot_empty[router_dest] > 0
  /\ slot_empty' = [slot_empty EXCEPT ![router_dest] = @ - 1]
  /\ router_pc' = "forward"
  /\ UNCHANGED <<boxVars, inbox, slot_full, ackVars, segVars, lockVars, threadVars,
                 recvVars, router_dest, finVars, alive>>

RouterForward ==
  /\ router_pc = "forward"
  /\ inbox' = [inbox EXCEPT ![router_dest] =
                 [src_rank |-> server_box.src_rank, msg_id |-> server_box.msg_id,
                  size |-> server_box.size, shm_name |-> server_box.shm_name]]
  /\ slot_full' = [slot_full EXCEPT ![router_dest] = @ + 1]
  /\ router_pc' = "confirm"
  /\ UNCHANGED <<boxVars, slot_empty, ackVars, segVars, lockVars, threadVars,
                 recvVars, router_dest, finVars, alive>>

(* Mutant: also frees the mailbox, as the sender it confirms to will. *)
RouterConfirmFrees ==
  /\ router_pc = "confirm"
  /\ box_delivered' = box_delivered + 1
  /\ box_empty' = box_empty + 1
  /\ router_pc' = "wait"
  /\ router_dest' = NoRank
  /\ UNCHANGED <<server_box, box_full, inboxVars, ackVars, segVars,
                 lockVars, threadVars, recvVars, finVars, alive>>

RouterConfirm ==
  /\ router_pc = "confirm"
  /\ box_delivered' = box_delivered + 1
  /\ router_pc' = "wait"
  /\ router_dest' = NoRank
  /\ UNCHANGED <<server_box, box_empty, box_full, inboxVars, ackVars, segVars,
                 lockVars, threadVars, recvVars, finVars, alive>>
-----------------------------------------------------------------------------
(* com_finalize of process p.  Its threads are no longer inside com.h; one *)
(* of them may have left the send buffer prepared, and com_finalize then   *)
(* finishes it.                                                            *)

FinAt(p, label) == p \in alive /\ fpc[p] = label

BeginFinalize(p) ==
  /\ FinAt(p, "run")
  /\ \A w \in Workers : pc[p][w] \in {"idle", "fill", "ready"}
  /\ rpc[p] = "idle"
  /\ IF send_buffer_active[p] THEN UnlockBuffer(p)
                              ELSE UNCHANGED <<prepared_size, lockVars>>
  /\ pc' = [pc EXCEPT ![p] = [w \in Workers |-> "idle"]]
  /\ call' = [call EXCEPT ![p] = [w \in Workers |-> NoCall]]
  /\ fpc' = [fpc EXCEPT ![p] = "drain"]
  /\ UNCHANGED <<boxVars, inboxVars, ackVars, segment, file_size, capacity, send_mapping,
                 next_msg_id, recvVars, routerVars, finalize_lock, finalized_count, alive>>

FinalizeAwaitAck(p) ==
  /\ FinAt(p, "drain")
  /\ ConsumeAck(p)
  /\ UNCHANGED <<boxVars, inboxVars, segVars, lockVars, threadVars,
                 recvVars, routerVars, finVars, alive>>

FinalizeLock(p) ==
  /\ FinAt(p, "drain")
  /\ Drained(p)
  /\ finalize_lock > 0
  /\ finalize_lock' = finalize_lock - 1
  /\ prepared_size' = [prepared_size EXCEPT ![p] = 0]
  /\ fpc' = [fpc EXCEPT ![p] = "count"]
  /\ UNCHANGED <<boxVars, inboxVars, ackVars, segment, file_size, capacity, send_mapping,
                 lockVars, threadVars, recvVars, routerVars, finalized_count, alive>>

(* Mutant: the last process but one takes itself for the last. *)
IsLastEarly == finalized_count + 1 >= NProc - 1

(* Mutant: compares the count before it is incremented. *)
IsLastNever == finalized_count = NProc

IsLast == finalized_count + 1 = NProc

(* The last process to be counted stops the router, the others just unmap. *)
FinalizeCount(p) ==
  /\ FinAt(p, "count")
  /\ finalized_count' = finalized_count + 1
  /\ finalize_lock' = finalize_lock + 1
  /\ IF IsLast
       THEN /\ fpc' = [fpc EXCEPT ![p] = "stop"]
            /\ UNCHANGED send_mapping
       ELSE /\ fpc' = [fpc EXCEPT ![p] = "gone"]
            /\ send_mapping' = [send_mapping EXCEPT ![p] = 0]
  /\ UNCHANGED <<boxVars, inboxVars, ackVars, segment, file_size, capacity, prepared_size,
                 lockVars, threadVars, recvVars, routerVars, alive>>

StopAcquireBox(p) ==
  /\ FinAt(p, "stop")
  /\ box_empty > 0
  /\ box_empty' = box_empty - 1
  /\ fpc' = [fpc EXCEPT ![p] = "sentinel"]
  /\ UNCHANGED <<server_box, box_full, box_delivered, inboxVars, ackVars, segVars, lockVars,
                 threadVars, recvVars, routerVars, finalize_lock, finalized_count, alive>>

PostSentinel(p) ==
  /\ FinAt(p, "sentinel")
  /\ server_box' = EmptyBox
  /\ box_full' = box_full + 1
  /\ send_mapping' = [send_mapping EXCEPT ![p] = 0]
  /\ fpc' = [fpc EXCEPT ![p] = "gone"]
  /\ UNCHANGED <<box_empty, box_delivered, inboxVars, ackVars, segment, file_size, capacity,
                 prepared_size, lockVars, threadVars, recvVars, routerVars,
                 finalize_lock, finalized_count, alive>>
-----------------------------------------------------------------------------
(* Any call can end in exit(1), at any point; nothing it holds is released. *)
Crash(p) ==
  /\ p \in alive /\ fpc[p] # "gone"
  /\ Cardinality(Ranks \ alive) < MaxCrashes
  /\ alive' = alive \ {p}
  /\ UNCHANGED <<boxVars, inboxVars, ackVars, segVars, lockVars, threadVars,
                 recvVars, routerVars, finVars>>

(* The part of a sender thread's call in which its client has no say. *)
SendStep(p, w) ==
  \/ LockBuffer(p, w)
  \/ AwaitAck(p, w)
  \/ MapBuffer(p, w)
  \/ AcquireBox(p, w)
  \/ PostRequest(p, w)
  \/ AwaitDelivered(p, w)
  \/ ReleaseBox(p, w)

RouterStep == RouterTake \/ RouterReserve \/ RouterForward \/ RouterConfirm

FinalizeStep(p) ==
  \/ FinalizeAwaitAck(p)
  \/ FinalizeLock(p)
  \/ FinalizeCount(p)
  \/ StopAcquireBox(p)
  \/ PostSentinel(p)

ComNext ==
  \/ \E p \in Ranks, w \in Workers :
       \/ \E s \in Sizes : Prepare(p, w, s)
       \/ \E d \in Data : Fill(p, w, d)
       \/ \E q \in Ranks : Send(p, w, q)
       \/ FinishBuffer(p, w)
       \/ SendStep(p, w)
  \/ \E q \in Ranks : AwaitMessage(q) \/ CopyPayload(q) \/ ClearInbox(q) \/ PostAck(q)
  \/ \E p \in Ranks : BeginFinalize(p) \/ FinalizeStep(p) \/ Crash(p)
  \/ RouterStep

ComSpec == ComInit /\ [][ComNext]_comVars
-----------------------------------------------------------------------------
(* What a thread waits for inside com.h, when its process is alive: each   *)
(* semaphore, and the lock on the send buffer.                             *)

SendStepReady(p, w) ==
  \/ pc[p][w] = "lock" /\ send_buffer_lock[p] = {}
  \/ pc[p][w] = "drain" /\ (Drained(p) \/ ack_full[p] > 0)
  \/ pc[p][w] = "box" /\ box_empty > 0
  \/ pc[p][w] = "deliver" /\ box_delivered > 0
  \/ pc[p][w] \in {"post", "release"}

BeginFinalizeReady(p) ==
  /\ fpc[p] = "run" /\ rpc[p] = "idle"
  /\ \A w \in Workers : pc[p][w] \in {"idle", "fill", "ready"}

FinalizeReady(p) ==
  \/ fpc[p] = "drain" /\ IF Drained(p) THEN finalize_lock > 0 ELSE ack_full[p] > 0
  \/ fpc[p] = "stop" /\ box_empty > 0
  \/ fpc[p] \in {"count", "sentinel"}

RouterReady ==
  \/ router_pc = "wait" /\ box_full > 0
  \/ router_pc = "reserve" /\ slot_empty[router_dest] > 0
  \/ router_pc \in {"forward", "confirm"}
-----------------------------------------------------------------------------
(* What the layer must keep true. *)

Callers == {"idle", "lock", "drain", "fill", "ready", "box", "post", "deliver", "release"}
Payloads == Data \cup {Blank}

(* Every variable has its type: semaphores are never negative, a message   *)
(* names ranks, the router addresses a rank or nothing.                    *)
TypeOK ==
  /\ server_box \in [src_rank: Ranks \cup {NoRank}, dest_rank: Ranks \cup {NoRank},
                     msg_id: Nat, size: Nat, shm_name: Ranks \cup {NoRank}]
  /\ box_empty \in Nat /\ box_full \in Nat /\ box_delivered \in Nat
  /\ inbox \in [Ranks -> [src_rank: Ranks \cup {NoRank}, msg_id: Nat, size: Nat,
                          shm_name: Ranks \cup {NoRank}]]
  /\ slot_empty \in [Ranks -> Nat] /\ slot_full \in [Ranks -> Nat]
  /\ ack_full \in [Ranks -> Nat] /\ pending_acks \in [Ranks -> Nat]
  /\ segment \in [Ranks -> Payloads]
  /\ file_size \in [Ranks -> Nat] /\ capacity \in [Ranks -> Nat]
  /\ prepared_size \in [Ranks -> Nat] /\ send_mapping \in [Ranks -> Nat]
  /\ send_buffer_lock \in [Ranks -> SUBSET Workers]
  /\ send_buffer_active \in [Ranks -> BOOLEAN]
  /\ pc \in [Ranks -> [Workers -> Callers]]
  /\ call \in [Ranks -> [Workers -> [size: Nat, dest: Ranks \cup {NoRank}, msg_id: Nat]]]
  /\ next_msg_id \in [Ranks -> Nat]
  /\ rpc \in [Ranks -> {"idle", "copy", "clear", "ack"}]
  /\ rcv \in [Ranks -> [sender_rank: Ranks \cup {NoRank}, sender_msg_id: Nat,
                        size: Nat, msg: Payloads]]
  /\ router_pc \in {"wait", "reserve", "forward", "confirm", "stopped"}
  /\ router_dest \in Ranks \cup {NoRank}
  /\ fpc \in [Ranks -> {"run", "drain", "count", "stop", "sentinel", "gone"}]
  /\ finalize_lock \in Nat /\ finalized_count \in Nat
  /\ alive \in SUBSET Ranks

(* The request in the mailbox is still to be moved to an inbox. *)
InTransit == box_full > 0 \/ router_pc \in {"reserve", "forward"}

(* Whoever is about to write the central mailbox has it alone: no other    *)
(* thread is between taking and returning it, the router is not reading it *)
(* and no confirmation meant for somebody else is left behind.             *)
MailboxExclusive ==
  \A p \in Ranks :
    /\ \A w \in Workers : pc[p][w] = "post" =>
         /\ box_full = 0 /\ box_delivered = 0 /\ router_pc = "wait"
         /\ \A q \in Ranks, v \in Workers :
              pc[q][v] \in {"post", "deliver", "release"} => q = p /\ v = w
         /\ \A q \in Ranks : fpc[q] # "sentinel"
    /\ fpc[p] = "sentinel" => box_full = 0 /\ box_delivered = 0 /\ router_pc = "wait"

(* The router overwrites only an inbox its owner has cleared: the message  *)
(* that was there has been copied, and nobody is reading the metadata.     *)
InboxExclusive ==
  router_pc = "forward" =>
    /\ inbox[router_dest] = EmptyInbox
    /\ slot_full[router_dest] = 0
    /\ rpc[router_dest] \notin {"copy", "clear"}

(* A receiver that will read the segment of p, now or later. *)
Reads(q, p) == inbox[q].shm_name = p

(* The promise of com_prepare_send_buffer: while the caller writes the     *)
(* segment, and while prepare resizes it, no message sent from it earlier  *)
(* is unread: not in the mailbox, not in an inbox, not being copied.       *)
SegmentQuiet ==
  \A p \in Ranks, w \in Workers :
    pc[p][w] = "fill" \/ (pc[p][w] = "drain" /\ pending_acks[p] = 0) =>
      /\ \A q \in Ranks : ~Reads(q, p)
      /\ ~(InTransit /\ server_box.shm_name = p)

(* Delivered to an inbox, but the sender has not counted it yet. *)
Uncounted(p) ==
  IF \E w \in Workers :
       \/ pc[p][w] = "release"
       \/ pc[p][w] = "deliver" /\ (router_pc = "confirm" \/ box_delivered > 0)
  THEN 1 ELSE 0

(* Its messages in inboxes, and its receivers between the copy and the post. *)
Unread(p)        == {q \in Ranks : inbox[q].src_rank = p}
Acknowledging(p) == {q \in Ranks : rpc[q] = "ack" /\ rcv[q].sender_rank = p}

(* The acknowledgements a process waits for are exactly those posted and   *)
(* not consumed, those of messages it has in inboxes, and those of         *)
(* receivers between the copy and the post: none is lost, none counted     *)
(* twice, whatever the order of com_send's increment and the receiver's    *)
(* post.                                                                   *)
AcksBalance ==
  \A p \in Ranks :
    pending_acks[p] + Uncounted(p) =
      ack_full[p] + Cardinality(Unread(p)) + Cardinality(Acknowledging(p))

(* A receiver maps and copies only bytes the segment has, of the process   *)
(* it will acknowledge.                                                    *)
ReadsInBounds ==
  \A q \in Ranks : rpc[q] = "copy" =>
    /\ rcv[q].sender_rank = inbox[q].shm_name
    /\ rcv[q].size = inbox[q].size
    /\ rcv[q].size <= file_size[inbox[q].shm_name]

(* No legal client meets one of the run-time checks of com.c: "send buffer *)
(* is already active", "is not active", "size mismatch", "invalid          *)
(* destination rank".  And the writer's mapping covers what it writes.     *)
ChecksNeverFail ==
  /\ \A p \in Ranks, w \in Workers :
       /\ pc[p][w] = "lock" /\ send_buffer_lock[p] = {} => ~send_buffer_active[p]
       /\ pc[p][w] \in {"fill", "ready", "box"} =>
            /\ send_buffer_active[p] /\ send_buffer_lock[p] = {w}
            /\ prepared_size[p] = call[p][w].size
            /\ call[p][w].size <= send_mapping[p]
            /\ send_mapping[p] <= file_size[p]
  /\ router_pc \in {"reserve", "forward"} => router_dest \in Ranks

(* The router has stopped, or finds the sentinel next. *)
SentinelPosted == router_pc = "stopped" \/ (box_full > 0 /\ server_box.dest_rank = NoRank)

(* The router is told to stop only after every message was read and        *)
(* acknowledged and every process is out of the layer: a shutdown loses    *)
(* nothing, and never happens when some process died on the way.           *)
QuietShutdown ==
  SentinelPosted =>
    \A p \in Ranks :
      /\ fpc[p] = "gone"
      /\ inbox[p] = EmptyInbox /\ slot_full[p] = 0 /\ rpc[p] = "idle"
      /\ pending_acks[p] = 0 /\ ack_full[p] = 0

(* Process p, in com_send or in com_finalize, has the central mailbox. *)
HasBox(p) == \/ fpc[p] = "sentinel"
             \/ \E w \in Workers : pc[p][w] \in {"post", "deliver", "release"}

BoxHeld == box_empty = 0 => SentinelPosted \/ \E p \in Ranks : HasBox(p)

InboxesHeld ==
  \A q \in Ranks : slot_empty[q] = 0 =>
    \/ slot_full[q] > 0 \/ rpc[q] \in {"copy", "clear"}
    \/ router_pc = "forward" /\ router_dest = q

FinalizeLockHeld == finalize_lock = 0 => \E p \in Ranks : fpc[p] = "count"

RouterIsTold ==
  (\A p \in Ranks : fpc[p] \in {"stop", "sentinel", "gone"}) =>
    SentinelPosted \/ \E p \in Ranks : fpc[p] \in {"stop", "sentinel"}

(* No permit is lost, on any path through the layer: while the mailbox, an *)
(* inbox or the shutdown lock is taken, somebody has it and gives it back, *)
(* unless its process dies; only the sentinel keeps the mailbox for good.  *)
(* And when all are counted in com_finalize, somebody stops the router.    *)
PermitsHeld == BoxHeld /\ InboxesHeld /\ FinalizeLockHeld /\ RouterIsTold
-----------------------------------------------------------------------------
(* Com implements PostOffice: the box of q is the message being received,  *)
(* if it is not copied yet, followed by the one in the mailbox, if it is   *)
(* for q and not forwarded yet.  The payload of a message that is not      *)
(* copied is whatever its sender's segment holds now, so a segment written *)
(* too early is a payload changed in the box, which PostOffice forbids.    *)

Content(m) == IF m.size = 0 THEN Blank ELSE segment[m.shm_name]

Letter(m) == <<[src |-> m.src_rank, payload |-> Content(m)]>>

InboxLetters(q) ==
  IF inbox[q] # EmptyInbox /\ rpc[q] # "clear" THEN Letter(inbox[q]) ELSE <<>>

MailboxLetters(q) ==
  IF InTransit /\ server_box.dest_rank = q THEN Letter(server_box) ELSE <<>>

HandedLetters(q) ==
  IF rpc[q] \in {"clear", "ack"}
    THEN <<[src |-> rcv[q].sender_rank, payload |-> rcv[q].msg]>> ELSE <<>>

PO == INSTANCE PostOffice WITH
        box    <- [q \in Ranks |-> InboxLetters(q) \o MailboxLetters(q)],
        handed <- [q \in Ranks |-> HandedLetters(q)]

(* Every legal use of com.h is a behaviour of PostOffice. *)
ImplementsPostOffice == PO!Spec
=============================================================================
