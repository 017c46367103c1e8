----------------------------- MODULE ComProofs -----------------------------
(***************************************************************************)
(* Com for every number of processes and threads, every set of sizes and   *)
(* payloads and any number of crashes: the invariant IInv of ComInv is     *)
(* inductive, the properties of Com follow from it, and Com implements     *)
(* PostOffice.                                                             *)
(*                                                                         *)
(* There is a lemma per part of the invariant, and under it a step per     *)
(* action; the parts build on each other in the order                      *)
(* TypeInv, LockInv, BufferInv, BoxInv, SlotInv, FinInv, AcksBalance.      *)
(***************************************************************************)
EXTENDS ComInv, FiniteSetTheorems, SequenceTheorems, TLAPS

(* The shared region as create_shared_region leaves it is well typed. *)
LEMMA TypeInit == ComInit => TypeInv
BY ComAssumption DEF ComInit, TypeInv, TypeOK, Named, Ranks, NoRank,
     EmptyBox, EmptyInbox, NoCall, Call, NoMessage, Callers, Payloads

(* Every step keeps the types (com.c:576-731, 446-481, 757-810). *)
LEMMA TypeStep ==
  ASSUME TypeInv, [ComNext]_comVars
  PROVE  TypeInv'
<1> USE ComAssumption DEF TypeInv, TypeOK, Named, Callers, Payloads, NoRank,
     NoCall, Call, EmptyBox, EmptyInbox, NoMessage, At, Goto, RecvAt, FinAt,
     boxVars, inboxVars, ackVars, segVars, lockVars,
      threadVars, recvVars, routerVars, finVars
<1>1. ASSUME NEW p \in Ranks, NEW w \in Workers, NEW s \in Sizes, Prepare(p, w, s)
      PROVE  TypeInv'
  BY <1>1 DEF Prepare
<1>2. ASSUME NEW p \in Ranks, NEW w \in Workers, NEW d \in Data, Fill(p, w, d)
      PROVE  TypeInv'
  BY <1>2 DEF Fill
<1>3. ASSUME NEW p \in Ranks, NEW w \in Workers, NEW q \in Ranks, Send(p, w, q)
      PROVE  TypeInv'
  BY <1>3 DEF Send
<1>4. ASSUME NEW p \in Ranks, NEW w \in Workers, FinishBuffer(p, w)
      PROVE  TypeInv'
  BY <1>4 DEF FinishBuffer, UnlockBuffer
<1>5. ASSUME NEW p \in Ranks, NEW w \in Workers, LockBuffer(p, w)
      PROVE  TypeInv'
  BY <1>5 DEF LockBuffer
<1>6. ASSUME NEW p \in Ranks, NEW w \in Workers, AwaitAck(p, w)
      PROVE  TypeInv'
  BY <1>6 DEF AwaitAck, ConsumeAck
<1>7. ASSUME NEW p \in Ranks, NEW w \in Workers, MapBuffer(p, w)
      PROVE  TypeInv'
  BY <1>7 DEF MapBuffer, Drained, TooSmall
<1>8. ASSUME NEW p \in Ranks, NEW w \in Workers, AcquireBox(p, w)
      PROVE  TypeInv'
  BY <1>8 DEF AcquireBox
<1>9. ASSUME NEW p \in Ranks, NEW w \in Workers, PostRequest(p, w)
      PROVE  TypeInv'
  BY <1>9 DEF PostRequest
<1>10. ASSUME NEW p \in Ranks, NEW w \in Workers, AwaitDelivered(p, w)
      PROVE  TypeInv'
  BY <1>10 DEF AwaitDelivered
<1>11. ASSUME NEW p \in Ranks, NEW w \in Workers, ReleaseBox(p, w)
      PROVE  TypeInv'
  BY <1>11 DEF ReleaseBox
<1>12. ASSUME NEW q \in Ranks, AwaitMessage(q)
      PROVE  TypeInv'
  BY <1>12 DEF AwaitMessage
<1>13. ASSUME NEW q \in Ranks, CopyPayload(q)
      PROVE  TypeInv'
  BY <1>13 DEF CopyPayload
<1>14. ASSUME NEW q \in Ranks, ClearInbox(q)
      PROVE  TypeInv'
  BY <1>14 DEF ClearInbox
<1>15. ASSUME NEW q \in Ranks, PostAck(q)
      PROVE  TypeInv'
  <2>1. ack_full' \in [Ranks -> Nat]
    <3>1. CASE rcv[q].sender_rank \in Ranks
      BY <1>15, <3>1 DEF PostAck, AckTarget
    <3>2. CASE rcv[q].sender_rank \notin Ranks
      BY ZenonT(40), <1>15, <3>2 DEF PostAck, AckTarget
    <3> QED
      BY <3>1, <3>2
  <2>2. /\ rpc' = [rpc EXCEPT ![q] = "idle"] /\ rcv' = [rcv EXCEPT ![q] = NoMessage]
        /\ UNCHANGED <<boxVars, inboxVars, pending_acks, segVars, lockVars, threadVars, routerVars, finVars, alive>>
    BY <1>15 DEF PostAck
  <2> QED
    BY <2>1, <2>2
<1>16. ASSUME NEW p \in Ranks, BeginFinalize(p)
      PROVE  TypeInv'
  <2>1. /\ prepared_size' \in [Ranks -> Nat]
        /\ send_buffer_lock' \in [Ranks -> SUBSET Workers] /\ send_buffer_active' \in [Ranks -> BOOLEAN]
    <3>1. CASE UnlockBuffer(p)
      BY <3>1 DEF UnlockBuffer
    <3>2. CASE UNCHANGED <<prepared_size, lockVars>>
      BY <3>2
    <3> QED
      BY <1>16, <3>1, <3>2 DEF BeginFinalize
  <2>2. pc' \in [Ranks -> [Workers -> Callers]] /\ fpc' = [fpc EXCEPT ![p] = "drain"]
    BY <1>16 DEF BeginFinalize
  <2>3. call' \in [Ranks -> [Workers -> [size: Nat, dest: Ranks \cup {NoRank}, msg_id: Nat]]]
    <3>1. [w \in Workers |-> NoCall] \in [Workers -> [size: Nat, dest: Ranks \cup {NoRank}, msg_id: Nat]]
      OBVIOUS
    <3> QED
      BY <1>16, <3>1 DEF BeginFinalize
  <2>4. UNCHANGED <<boxVars, inboxVars, ackVars, segment, file_size, capacity, send_mapping,
                    next_msg_id, recvVars, routerVars, finalize_lock, finalized_count, alive>>
    BY <1>16 DEF BeginFinalize
  <2> QED
    BY ZenonT(40), <2>1, <2>2, <2>3, <2>4
<1>17. ASSUME NEW p \in Ranks, FinalizeAwaitAck(p)
      PROVE  TypeInv'
  BY <1>17 DEF FinalizeAwaitAck, ConsumeAck
<1>18. ASSUME NEW p \in Ranks, FinalizeLock(p)
      PROVE  TypeInv'
  BY <1>18 DEF FinalizeLock, Drained
<1>19. ASSUME NEW p \in Ranks, FinalizeCount(p)
      PROVE  TypeInv'
  <2>1. send_mapping' \in [Ranks -> Nat]
    <3>1. CASE UNCHANGED send_mapping
      BY <3>1
    <3>2. CASE send_mapping' = [send_mapping EXCEPT ![p] = 0]
      BY <3>2
    <3> QED
      BY <1>19, <3>1, <3>2 DEF FinalizeCount
  <2>2. fpc' \in [Ranks -> {"run", "drain", "count", "stop", "sentinel", "gone"}]
    <3>1. CASE fpc' = [fpc EXCEPT ![p] = "stop"]
      BY <3>1
    <3>2. CASE fpc' = [fpc EXCEPT ![p] = "gone"]
      BY <3>2
    <3> QED
      BY <1>19, <3>1, <3>2 DEF FinalizeCount
  <2>3. finalized_count' \in Nat /\ finalize_lock' \in Nat
    BY <1>19 DEF FinalizeCount
  <2>4. UNCHANGED <<boxVars, inboxVars, ackVars, segment, file_size, capacity, prepared_size,
                    lockVars, threadVars, recvVars, routerVars, alive>>
    BY <1>19 DEF FinalizeCount
  <2> QED
    BY <2>1, <2>2, <2>3, <2>4
<1>20. ASSUME NEW p \in Ranks, StopAcquireBox(p)
      PROVE  TypeInv'
  BY <1>20 DEF StopAcquireBox
<1>21. ASSUME NEW p \in Ranks, PostSentinel(p)
      PROVE  TypeInv'
  BY <1>21 DEF PostSentinel
<1>22. ASSUME NEW p \in Ranks, Crash(p)
      PROVE  TypeInv'
  BY <1>22 DEF Crash
<1>23. CASE RouterTake
  BY <1>23 DEF RouterTake
<1>24. CASE RouterReserve
  <2>1. slot_empty' \in [Ranks -> Nat]
    <3>1. CASE router_dest \in Ranks
      BY <1>24, <3>1 DEF RouterReserve
    <3>2. CASE router_dest \notin Ranks
      BY ZenonT(40), <1>24, <3>2 DEF RouterReserve
    <3> QED
      BY <3>1, <3>2
  <2>2. /\ router_pc' = "forward"
        /\ UNCHANGED <<boxVars, inbox, slot_full, ackVars, segVars, lockVars, threadVars, recvVars, router_dest, finVars, alive>>
    BY <1>24 DEF RouterReserve
  <2> QED
    BY <2>1, <2>2
<1>25. CASE RouterForward
  <2> DEFINE m == [src_rank |-> server_box.src_rank, msg_id |-> server_box.msg_id,
                   size |-> server_box.size, shm_name |-> server_box.shm_name]
  <2>1. /\ m \in [src_rank: Ranks \cup {NoRank}, msg_id: Nat, size: Nat, shm_name: Ranks \cup {NoRank}]
        /\ m.size # 0 => m.shm_name \in Ranks
    OBVIOUS
  <2>2. inbox' = [inbox EXCEPT ![router_dest] = m] /\ slot_full' = [slot_full EXCEPT ![router_dest] = @ + 1]
    BY <1>25 DEF RouterForward
  <2>3. /\ router_pc' = "confirm"
        /\ UNCHANGED <<boxVars, slot_empty, ackVars, segVars, lockVars, threadVars, recvVars, router_dest, finVars, alive>>
    BY <1>25 DEF RouterForward
  <2> HIDE DEF m
  <2>4. CASE router_dest \in Ranks
    BY <2>1, <2>2, <2>3, <2>4
  <2>5. CASE router_dest \notin Ranks
    <3>1. inbox' = inbox
      BY <2>2, <2>5
    <3>2. slot_full' = slot_full
      BY <2>2, <2>5
    <3> QED
      BY <2>3, <3>1, <3>2
  <2> QED
    BY <2>4, <2>5
<1>26. CASE RouterConfirm
  BY <1>26 DEF RouterConfirm
<1>27. CASE UNCHANGED comVars
  BY <1>27 DEF comVars
<1> HIDE DEF TypeInv, TypeOK, Named, At, Goto, RecvAt, FinAt
<1> QED
  BY <1>1, <1>2, <1>3, <1>4, <1>5, <1>6, <1>7, <1>8, <1>9, <1>10, <1>11,
     <1>12, <1>13, <1>14, <1>15, <1>16, <1>17, <1>18, <1>19, <1>20, <1>21,
     <1>22, <1>23, <1>24, <1>25, <1>26, <1>27
  DEF ComNext, SendStep, RouterStep, FinalizeStep

(* The lock on the send buffer keeps excluding (com.c:135-163). *)
LEMMA LockStep ==
  ASSUME TypeOK, LockInv, [ComNext]_comVars
  PROVE  LockInv'
<1> USE DEF TypeOK, LockInv, Locked, Callers, At, Goto, RecvAt, FinAt,
     boxVars, inboxVars, ackVars, segVars, lockVars,
      threadVars, recvVars, routerVars, finVars
<1>1. ASSUME NEW p \in Ranks, NEW w \in Workers, NEW s \in Sizes, Prepare(p, w, s)
      PROVE  LockInv'
  BY <1>1 DEF Prepare
<1>2. ASSUME NEW p \in Ranks, NEW w \in Workers, NEW d \in Data, Fill(p, w, d)
      PROVE  LockInv'
  BY <1>2 DEF Fill
<1>3. ASSUME NEW p \in Ranks, NEW w \in Workers, NEW q \in Ranks, Send(p, w, q)
      PROVE  LockInv'
  BY <1>3 DEF Send
<1>4. ASSUME NEW p \in Ranks, NEW w \in Workers, FinishBuffer(p, w)
      PROVE  LockInv'
  BY <1>4 DEF FinishBuffer, UnlockBuffer
<1>5. ASSUME NEW p \in Ranks, NEW w \in Workers, LockBuffer(p, w)
      PROVE  LockInv'
  BY <1>5 DEF LockBuffer
<1>6. ASSUME NEW p \in Ranks, NEW w \in Workers, MapBuffer(p, w)
      PROVE  LockInv'
  BY <1>6 DEF MapBuffer, Drained, TooSmall
<1>7. ASSUME NEW p \in Ranks, NEW w \in Workers, AcquireBox(p, w)
      PROVE  LockInv'
  BY <1>7 DEF AcquireBox
<1>8. ASSUME NEW p \in Ranks, NEW w \in Workers, PostRequest(p, w)
      PROVE  LockInv'
  BY <1>8 DEF PostRequest
<1>9. ASSUME NEW p \in Ranks, NEW w \in Workers, AwaitDelivered(p, w)
      PROVE  LockInv'
  BY <1>9 DEF AwaitDelivered
<1>10. ASSUME NEW p \in Ranks, NEW w \in Workers, ReleaseBox(p, w)
      PROVE  LockInv'
  BY <1>10 DEF ReleaseBox
<1>11. ASSUME NEW q \in Ranks, AwaitMessage(q)
      PROVE  LockInv'
  BY <1>11 DEF AwaitMessage
<1>12. ASSUME NEW q \in Ranks, CopyPayload(q)
      PROVE  LockInv'
  BY <1>12 DEF CopyPayload
<1>13. ASSUME NEW q \in Ranks, ClearInbox(q)
      PROVE  LockInv'
  BY <1>13 DEF ClearInbox
<1>14. ASSUME NEW q \in Ranks, PostAck(q)
      PROVE  LockInv'
  BY <1>14 DEF PostAck, AckTarget
<1>15. ASSUME NEW p \in Ranks, BeginFinalize(p)
      PROVE  LockInv'
  BY <1>15 DEF BeginFinalize, UnlockBuffer
<1>16. ASSUME NEW p \in Ranks, FinalizeLock(p)
      PROVE  LockInv'
  BY <1>16 DEF FinalizeLock, Drained
<1>17. ASSUME NEW p \in Ranks, FinalizeCount(p)
      PROVE  LockInv'
  BY <1>17 DEF FinalizeCount, IsLast
<1>18. ASSUME NEW p \in Ranks, StopAcquireBox(p)
      PROVE  LockInv'
  BY <1>18 DEF StopAcquireBox
<1>19. ASSUME NEW p \in Ranks, PostSentinel(p)
      PROVE  LockInv'
  BY <1>19 DEF PostSentinel
<1>20. ASSUME NEW p \in Ranks, NEW w \in Workers,
             AwaitAck(p, w)
      PROVE  LockInv'
  <2>1. UNCHANGED <<send_buffer_active, send_buffer_lock, pc, rpc, fpc>>
    BY <1>20 DEF AwaitAck, ConsumeAck
  <2> QED
    BY <2>1
<1>21. ASSUME NEW p \in Ranks,
             \/ FinalizeAwaitAck(p)
             \/ Crash(p)
      PROVE  LockInv'
  <2>1. UNCHANGED <<send_buffer_active, send_buffer_lock, pc, rpc, fpc>>
    BY <1>21 DEF FinalizeAwaitAck, ConsumeAck, Crash
  <2> QED
    BY <2>1
<1>22. ASSUME \/ RouterTake
             \/ RouterReserve
             \/ RouterForward
             \/ RouterConfirm
      PROVE  LockInv'
  <2>1. UNCHANGED <<send_buffer_active, send_buffer_lock, pc, rpc, fpc>>
    BY <1>22 DEF RouterTake, RouterReserve, RouterForward, RouterConfirm
  <2> QED
    BY <2>1
<1>23. CASE UNCHANGED comVars
  BY <1>23 DEF comVars
<1> HIDE DEF TypeOK, LockInv, At, Goto, RecvAt, FinAt
<1> QED
  BY <1>1, <1>2, <1>3, <1>4, <1>5, <1>6, <1>7, <1>8, <1>9, <1>10, <1>11,
     <1>12, <1>13, <1>14, <1>15, <1>16, <1>17, <1>18, <1>19, <1>20, <1>21,
     <1>22, <1>23
  DEF ComNext, SendStep, RouterStep, FinalizeStep

(* A prepared buffer stays as large as its owner asked for (com.c:598-633). *)
LEMMA BufferStep ==
  ASSUME TypeOK, LockInv, BufferInv, [ComNext]_comVars
  PROVE  BufferInv'
<1> USE DEF TypeOK, LockInv, BufferInv, Locked, Mapped, Holding, Call,
     NoCall, NoRank, At, Goto, RecvAt, FinAt, boxVars, inboxVars, ackVars,
     segVars, lockVars,
      threadVars, recvVars, routerVars, finVars
<1>1. ASSUME NEW p \in Ranks, NEW w \in Workers, NEW s \in Sizes, Prepare(p, w, s)
      PROVE  BufferInv'
  BY <1>1 DEF Prepare
<1>2. ASSUME NEW p \in Ranks, NEW w \in Workers, NEW d \in Data, Fill(p, w, d)
      PROVE  BufferInv'
  BY <1>2 DEF Fill
<1>3. ASSUME NEW p \in Ranks, NEW w \in Workers, NEW q \in Ranks, Send(p, w, q)
      PROVE  BufferInv'
  BY <1>3 DEF Send
<1>4. ASSUME NEW p \in Ranks, NEW w \in Workers, FinishBuffer(p, w)
      PROVE  BufferInv'
  BY <1>4 DEF FinishBuffer, UnlockBuffer
<1>5. ASSUME NEW p \in Ranks, NEW w \in Workers, LockBuffer(p, w)
      PROVE  BufferInv'
  BY <1>5 DEF LockBuffer
<1>6. ASSUME NEW p \in Ranks, NEW w \in Workers, AwaitAck(p, w)
      PROVE  BufferInv'
  BY <1>6 DEF AwaitAck, ConsumeAck
<1>7. ASSUME NEW p \in Ranks, NEW w \in Workers, MapBuffer(p, w)
      PROVE  BufferInv'
  BY <1>7 DEF MapBuffer, Drained, TooSmall
<1>8. ASSUME NEW p \in Ranks, NEW w \in Workers, AcquireBox(p, w)
      PROVE  BufferInv'
  BY <1>8 DEF AcquireBox
<1>9. ASSUME NEW p \in Ranks, NEW w \in Workers, PostRequest(p, w)
      PROVE  BufferInv'
  BY <1>9 DEF PostRequest
<1>10. ASSUME NEW p \in Ranks, NEW w \in Workers, AwaitDelivered(p, w)
      PROVE  BufferInv'
  BY <1>10 DEF AwaitDelivered
<1>11. ASSUME NEW p \in Ranks, NEW w \in Workers, ReleaseBox(p, w)
      PROVE  BufferInv'
  BY <1>11 DEF ReleaseBox
<1>12. ASSUME NEW p \in Ranks, BeginFinalize(p)
      PROVE  BufferInv'
  BY <1>12 DEF BeginFinalize, UnlockBuffer
<1>13. ASSUME NEW p \in Ranks, FinalizeAwaitAck(p)
      PROVE  BufferInv'
  BY <1>13 DEF FinalizeAwaitAck, ConsumeAck
<1>14. ASSUME NEW p \in Ranks, FinalizeLock(p)
      PROVE  BufferInv'
  <2>1. fpc[p] # "run" /\ pc' = pc
    BY <1>14 DEF FinalizeLock
  <2>2. \A w \in Workers : pc[p][w] = "idle"
    BY <2>1
  <2> QED
    BY <1>14, <2>1, <2>2 DEF FinalizeLock
<1>15. ASSUME NEW p \in Ranks, FinalizeCount(p)
      PROVE  BufferInv'
  <2>1. fpc[p] # "run" /\ UNCHANGED <<pc, call, file_size, capacity, prepared_size, pending_acks>>
    BY <1>15 DEF FinalizeCount
  <2>2. \A w \in Workers : pc[p][w] = "idle"
    BY <2>1
  <2>3. CASE UNCHANGED send_mapping
    BY <2>1, <2>2, <2>3
  <2>4. CASE send_mapping' = [send_mapping EXCEPT ![p] = 0]
    BY <2>1, <2>2, <2>4
  <2> QED
    BY <1>15, <2>3, <2>4 DEF FinalizeCount
<1>16. ASSUME NEW p \in Ranks, StopAcquireBox(p)
      PROVE  BufferInv'
  BY <1>16 DEF StopAcquireBox
<1>17. ASSUME NEW p \in Ranks, PostSentinel(p)
      PROVE  BufferInv'
  <2>1. fpc[p] # "run" /\ pc' = pc
    BY <1>17 DEF PostSentinel
  <2>2. \A w \in Workers : pc[p][w] = "idle"
    BY <2>1
  <2> QED
    BY <1>17, <2>1, <2>2 DEF PostSentinel
<1>18. ASSUME NEW q \in Ranks,
             \/ AwaitMessage(q)
             \/ CopyPayload(q)
             \/ ClearInbox(q)
             \/ PostAck(q)
      PROVE  BufferInv'
  <2>1. UNCHANGED <<file_size, capacity, send_mapping, prepared_size, pending_acks, pc, call>>
    BY <1>18 DEF AwaitMessage, CopyPayload, ClearInbox, PostAck, AckTarget
  <2> QED
    BY <2>1
<1>19. ASSUME NEW p \in Ranks,
             Crash(p)
      PROVE  BufferInv'
  <2>1. UNCHANGED <<file_size, capacity, send_mapping, prepared_size, pending_acks, pc, call>>
    BY <1>19 DEF Crash
  <2> QED
    BY <2>1
<1>20. ASSUME \/ RouterTake
             \/ RouterReserve
             \/ RouterForward
             \/ RouterConfirm
      PROVE  BufferInv'
  <2>1. UNCHANGED <<file_size, capacity, send_mapping, prepared_size, pending_acks, pc, call>>
    BY <1>20 DEF RouterTake, RouterReserve, RouterForward, RouterConfirm
  <2> QED
    BY <2>1
<1>21. CASE UNCHANGED comVars
  BY <1>21 DEF comVars
<1> HIDE DEF TypeOK, LockInv, BufferInv, At, Goto, RecvAt, FinAt
<1> QED
  BY <1>1, <1>2, <1>3, <1>4, <1>5, <1>6, <1>7, <1>8, <1>9, <1>10, <1>11,
     <1>12, <1>13, <1>14, <1>15, <1>16, <1>17, <1>18, <1>19, <1>20, <1>21
  DEF ComNext, SendStep, RouterStep, FinalizeStep

(* The sentinel's destination is no process. *)
LEMMA NoRankNotRank == NoRank \notin Ranks
<1> PICK N \in Nat : N = NProc
  BY ComAssumption
<1> QED
  BY DEF NoRank, Ranks

(* The mailbox keeps its one holder (com.c:667-679, 454-477, 785-791). *)
LEMMA BoxStep ==
  ASSUME TypeOK, LockInv, BufferInv, BoxInv, [ComNext]_comVars
  PROVE  BoxInv'
<1> USE DEF TypeOK, LockInv, BufferInv, BoxInv, Idle, Posted, Routing,
     Confirmed, Stopped,
      NobodyHolds, RequestOf, Delivering, Closed, Locked, Mapped, Holding, Call, NoCall, NoRank, EmptyBox, At, Goto, RecvAt, FinAt, boxVars, inboxVars, ackVars, segVars, lockVars,
      threadVars, recvVars, routerVars, finVars
<1>1. ASSUME NEW p \in Ranks, NEW w \in Workers, NEW s \in Sizes, Prepare(p, w, s)
      PROVE  BoxInv'
  BY SMTT(40), <1>1 DEF Prepare
<1>2. ASSUME NEW p \in Ranks, NEW w \in Workers, NEW d \in Data, Fill(p, w, d)
      PROVE  BoxInv'
  BY SMTT(40), <1>2 DEF Fill
<1>3. ASSUME NEW p \in Ranks, NEW w \in Workers, NEW q \in Ranks, Send(p, w, q)
      PROVE  BoxInv'
  BY SMTT(40), <1>3 DEF Send
<1>4. ASSUME NEW p \in Ranks, NEW w \in Workers, FinishBuffer(p, w)
      PROVE  BoxInv'
  BY SMTT(40), <1>4 DEF FinishBuffer, UnlockBuffer
<1>5. ASSUME NEW p \in Ranks, NEW w \in Workers, LockBuffer(p, w)
      PROVE  BoxInv'
  BY SMTT(40), <1>5 DEF LockBuffer
<1>6. ASSUME NEW p \in Ranks, NEW w \in Workers, MapBuffer(p, w)
      PROVE  BoxInv'
  BY <1>6 DEF MapBuffer, Drained, TooSmall
<1>7. ASSUME NEW p \in Ranks, NEW w \in Workers, AcquireBox(p, w)
      PROVE  BoxInv'
  BY SMTT(40), <1>7 DEF AcquireBox
<1>8. ASSUME NEW p \in Ranks, NEW w \in Workers, PostRequest(p, w)
      PROVE  BoxInv'
  BY <1>8 DEF PostRequest
<1>9. ASSUME NEW p \in Ranks, NEW w \in Workers, AwaitDelivered(p, w)
      PROVE  BoxInv'
  BY SMTT(40), <1>9 DEF AwaitDelivered
<1>10. ASSUME NEW p \in Ranks, NEW w \in Workers, ReleaseBox(p, w)
      PROVE  BoxInv'
  BY SMTT(40), <1>10 DEF ReleaseBox
<1>11. ASSUME NEW p \in Ranks, BeginFinalize(p)
      PROVE  BoxInv'
  <2>1. /\ UNCHANGED <<boxVars, routerVars>>
        /\ pc' = [pc EXCEPT ![p] = [w \in Workers |-> "idle"]]
        /\ call' = [call EXCEPT ![p] = [w \in Workers |-> NoCall]]
        /\ fpc' = [fpc EXCEPT ![p] = "drain"]
    BY <1>11 DEF BeginFinalize
  <2>2. \A w \in Workers : pc[p][w] \notin Holding
    BY <1>11 DEF BeginFinalize
  <2>3. \A r \in Ranks, w \in Workers : pc'[r][w] \in Holding => r # p /\ pc'[r] = pc[r] /\ call'[r] = call[r]
    BY <2>1
  <2>4. \A r \in Ranks, w \in Workers : pc[r][w] \in Holding => r # p /\ pc'[r] = pc[r] /\ call'[r] = call[r]
    BY <2>1, <2>2
  <2>5. \A r \in Ranks : fpc'[r] = "sentinel" <=> fpc[r] = "sentinel"
    BY <1>11, <2>1 DEF BeginFinalize
  <2> QED
    BY <2>1, <2>3, <2>4, <2>5
<1>12. ASSUME NEW p \in Ranks, FinalizeLock(p)
      PROVE  BoxInv'
  BY SMTT(40), <1>12 DEF FinalizeLock, Drained
<1>13. ASSUME NEW p \in Ranks, FinalizeCount(p)
      PROVE  BoxInv'
  <2>1. CASE fpc' = [fpc EXCEPT ![p] = "stop"]
    BY <1>13, <2>1 DEF FinalizeCount
  <2>2. CASE fpc' = [fpc EXCEPT ![p] = "gone"]
    BY <1>13, <2>2 DEF FinalizeCount
  <2> QED
    BY <1>13, <2>1, <2>2 DEF FinalizeCount
<1>14. ASSUME NEW p \in Ranks, StopAcquireBox(p)
      PROVE  BoxInv'
  BY <1>14 DEF StopAcquireBox
<1>15. ASSUME NEW p \in Ranks, PostSentinel(p)
      PROVE  BoxInv'
  BY SMTT(40), <1>15 DEF PostSentinel
<1>16. CASE RouterTake
  <2>1. CASE server_box.dest_rank = NoRank
    <3>1. Closed
      BY <1>16, <2>1, NoRankNotRank DEF RouterTake
    <3>2. Posted /\ NobodyHolds /\ server_box = EmptyBox /\ box_empty = 0
      BY <1>16, <3>1 DEF RouterTake
    <3>3. Stopped'
      <4>1. box_full' = 0 /\ box_delivered' = 0
        BY <1>16, <3>2 DEF RouterTake
      <4>2. router_pc' = "stopped"
        BY <1>16, <2>1 DEF RouterTake
      <4> QED
        BY <4>1, <4>2
    <3>4. UNCHANGED <<server_box, box_empty, pc, fpc>>
      BY <1>16 DEF RouterTake
    <3> QED
      BY <3>2, <3>3, <3>4
  <2>2. CASE server_box.dest_rank # NoRank
    <3>1. PICK p \in Ranks, w \in Workers : Delivering(p, w)
      BY <1>16, <2>2 DEF RouterTake
    <3> QED
      BY <1>16, <2>2, <3>1 DEF RouterTake
  <2> QED
    BY <2>1, <2>2
<1>17. CASE RouterReserve
  BY <1>17 DEF RouterReserve
<1>18. CASE RouterForward
  BY <1>18 DEF RouterForward
<1>19. CASE RouterConfirm
  BY <1>19 DEF RouterConfirm
<1>20. ASSUME NEW p \in Ranks, NEW w \in Workers,
             AwaitAck(p, w)
      PROVE  BoxInv'
  <2>1. UNCHANGED <<boxVars, routerVars, pc, call, fpc>>
    BY <1>20 DEF AwaitAck, ConsumeAck
  <2> QED
    BY <2>1
<1>21. ASSUME NEW q \in Ranks,
             \/ AwaitMessage(q)
             \/ CopyPayload(q)
             \/ ClearInbox(q)
             \/ PostAck(q)
      PROVE  BoxInv'
  <2>1. UNCHANGED <<boxVars, routerVars, pc, call, fpc>>
    BY <1>21 DEF AwaitMessage, CopyPayload, ClearInbox, PostAck, AckTarget
  <2> QED
    BY <2>1
<1>22. ASSUME NEW p \in Ranks,
             \/ FinalizeAwaitAck(p)
             \/ Crash(p)
      PROVE  BoxInv'
  <2>1. UNCHANGED <<boxVars, routerVars, pc, call, fpc>>
    BY <1>22 DEF FinalizeAwaitAck, ConsumeAck, Crash
  <2> QED
    BY <2>1
<1>23. CASE UNCHANGED comVars
  BY <1>23 DEF comVars
<1> QED
  BY ZenonT(40), <1>1, <1>2, <1>3, <1>4, <1>5, <1>6, <1>7, <1>8, <1>9, <1>10, <1>11,
     <1>12, <1>13, <1>14, <1>15, <1>16, <1>17, <1>18, <1>19, <1>20, <1>21,
     <1>22, <1>23
  DEF ComNext, SendStep, RouterStep, FinalizeStep

(* An inbox stays free, being written, full or being read (com.c:466-474,    *)
(* 702-715).                                                                 *)
LEMMA SlotStep ==
  ASSUME TypeOK, LockInv, BufferInv, BoxInv, SlotInv, [ComNext]_comVars
  PROVE  SlotInv'
<1> USE DEF TypeOK, SlotInv, Forwarding, Valid, Reading, EmptyInbox,
     NoMessage, At, Goto, RecvAt, FinAt, boxVars, inboxVars, ackVars,
     segVars, lockVars,
      threadVars, recvVars, routerVars, finVars
<1>1. ASSUME NEW p \in Ranks, NEW w \in Workers, MapBuffer(p, w)
      PROVE  SlotInv'
  <2>1. \A r \in Ranks : file_size[r] <= file_size'[r]
    BY <1>1 DEF MapBuffer, TooSmall, BufferInv
  <2>2. UNCHANGED <<inboxVars, recvVars, routerVars>> /\ file_size' \in [Ranks -> Nat]
    BY <1>1 DEF MapBuffer
  <2> QED
    BY <2>1, <2>2
<1>2. ASSUME NEW q \in Ranks, AwaitMessage(q)
      PROVE  SlotInv'
  BY <1>2 DEF AwaitMessage
<1>3. ASSUME NEW q \in Ranks, CopyPayload(q)
      PROVE  SlotInv'
  BY <1>3 DEF CopyPayload
<1>4. ASSUME NEW q \in Ranks, ClearInbox(q)
      PROVE  SlotInv'
  BY <1>4 DEF ClearInbox
<1>5. ASSUME NEW q \in Ranks, PostAck(q)
      PROVE  SlotInv'
  BY <1>5 DEF PostAck, AckTarget
<1>6. CASE RouterTake
  BY <1>6 DEF RouterTake
<1>7. CASE RouterReserve
  BY <1>7 DEF RouterReserve
<1>8. CASE RouterForward
  <2>1. PICK p \in Ranks, w \in Workers : Delivering(p, w)
    BY <1>8, NoRankNotRank DEF RouterForward, BoxInv, Idle, Posted,
         Routing, Confirmed, Stopped, Closed, EmptyBox
  <2>2. /\ server_box.src_rank = p /\ server_box.shm_name = p /\ server_box.size <= file_size[p]
    BY <2>1 DEF Delivering, RequestOf, BufferInv, Mapped
  <2> DEFINE d == router_dest
  <2>3. /\ d \in Ranks
        /\ inbox' = [inbox EXCEPT ![d] = [src_rank |-> p, msg_id |-> server_box.msg_id,
                                          size |-> server_box.size, shm_name |-> p]]
        /\ slot_full' = [slot_full EXCEPT ![d] = @ + 1]
        /\ router_pc' = "confirm"
        /\ UNCHANGED <<slot_empty, file_size, rpc, rcv>>
    BY <1>8, <2>2 DEF RouterForward, BoxInv, Idle, Posted, Routing,
         Confirmed, Stopped
  <2>4. slot_full[d] = 0 /\ rpc[d] \notin Reading /\ slot_empty[d] = 0
    BY <1>8, <2>3 DEF RouterForward
  <2> QED
    BY <2>2, <2>3, <2>4
<1>9. CASE RouterConfirm
  BY <1>9 DEF RouterConfirm
<1>10. ASSUME NEW p \in Ranks, NEW w \in Workers,
             \/ \E s \in Sizes : Prepare(p, w, s)
             \/ \E d \in Data : Fill(p, w, d)
             \/ \E q \in Ranks : Send(p, w, q)
             \/ FinishBuffer(p, w)
             \/ LockBuffer(p, w)
             \/ AwaitAck(p, w)
             \/ AcquireBox(p, w)
             \/ PostRequest(p, w)
             \/ AwaitDelivered(p, w)
             \/ ReleaseBox(p, w)
      PROVE  SlotInv'
  <2>1. UNCHANGED <<inbox, slot_empty, slot_full, rpc, rcv, router_pc, router_dest, file_size>>
    BY <1>10 DEF Prepare, Fill, Send, FinishBuffer, UnlockBuffer, LockBuffer,
        AwaitAck, ConsumeAck, AcquireBox, PostRequest, AwaitDelivered,
        ReleaseBox
  <2> QED
    BY <2>1
<1>11. ASSUME NEW p \in Ranks,
             \/ BeginFinalize(p)
             \/ FinalizeAwaitAck(p)
             \/ FinalizeLock(p)
             \/ FinalizeCount(p)
             \/ StopAcquireBox(p)
             \/ PostSentinel(p)
             \/ Crash(p)
      PROVE  SlotInv'
  <2>1. UNCHANGED <<inbox, slot_empty, slot_full, rpc, rcv, router_pc, router_dest, file_size>>
    BY <1>11 DEF BeginFinalize, UnlockBuffer, FinalizeAwaitAck, ConsumeAck,
        FinalizeLock, Drained, FinalizeCount, IsLast, StopAcquireBox,
        PostSentinel, Crash
  <2> QED
    BY <2>1
<1>12. CASE UNCHANGED comVars
  BY <1>12 DEF comVars
<1> HIDE DEF TypeOK, SlotInv, At, Goto, RecvAt, FinAt
<1> QED
  BY <1>1, <1>2, <1>3, <1>4, <1>5, <1>6, <1>7, <1>8, <1>9, <1>10, <1>11,
     <1>12
  DEF ComNext, SendStep, RouterStep, FinalizeStep

(* There are NProc processes. *)
LEMMA RanksFinite == IsFiniteSet(Ranks) /\ Cardinality(Ranks) = NProc
<1>1. 0 \in Int /\ NProc - 1 \in Int
  BY ComAssumption
<1> QED
  BY <1>1, FS_Interval, ComAssumption DEF Ranks

(* The processes com_finalize has counted are a finite set. *)
LEMMA CountedFinite == Counted \subseteq Ranks /\ IsFiniteSet(Counted)
<1>1. Counted \subseteq Ranks
  BY DEF Counted
<1> QED
  BY <1>1, RanksFinite, FS_Subset

(* Only a step of com_finalize can change which processes are counted. *)
LEMMA CountedSame ==
  ASSUME fpc' = fpc
  PROVE  Counted' = Counted
BY DEF Counted

(* com.c:778 counts one more process. *)
LEMMA CountedAdd ==
  ASSUME NEW p \in Ranks, p \notin Counted
  PROVE  Cardinality(Counted \cup {p}) = Cardinality(Counted) + 1
BY CountedFinite, FS_AddElement

(* Counting the processes that finalize stays right (com.c:777-791). *)
LEMMA FinStep ==
  ASSUME TypeOK, LockInv, BufferInv, BoxInv, FinInv, [ComNext]_comVars
  PROVE  FinInv'
<1> USE DEF TypeOK, LockInv, FinInv, Idle, EmptyBox, Locked, At, Goto,
     RecvAt, FinAt, boxVars, inboxVars, ackVars, segVars, lockVars,
      threadVars, recvVars, routerVars, finVars
<1>1. ASSUME NEW p \in Ranks, NEW w \in Workers, AwaitAck(p, w)
      PROVE  FinInv'
  <2>1. UNCHANGED <<finalized_count, finalize_lock, fpc, Counted>>
    BY <1>1, CountedSame DEF AwaitAck, ConsumeAck
  <2> QED
    BY <1>1, <2>1 DEF AwaitAck, ConsumeAck
<1>2. ASSUME NEW p \in Ranks, NEW w \in Workers, PostRequest(p, w)
      PROVE  FinInv'
  <2>1. server_box'.dest_rank # NoRank
    BY <1>2, NoRankNotRank DEF PostRequest, BufferInv, Holding
  <2>2. UNCHANGED <<finalized_count, finalize_lock, fpc, pending_acks, Counted>>
    BY <1>2 DEF PostRequest, Counted
  <2> QED
    BY <2>1, <2>2
<1>3. ASSUME NEW p \in Ranks, NEW w \in Workers, AwaitDelivered(p, w)
      PROVE  FinInv'
  <2>1. UNCHANGED <<finalized_count, finalize_lock, fpc, Counted>>
    BY <1>3, CountedSame DEF AwaitDelivered
  <2> QED
    BY <1>3, <2>1 DEF AwaitDelivered
<1>4. ASSUME NEW p \in Ranks, NEW w \in Workers, ReleaseBox(p, w)
      PROVE  FinInv'
  <2>1. UNCHANGED <<finalized_count, finalize_lock, fpc, Counted, server_box, box_full, box_delivered, router_pc>>
    BY <1>4, CountedSame DEF ReleaseBox
  <2>2. fpc[p] = "run"
    BY <1>4 DEF ReleaseBox
  <2>3. pending_acks' = [pending_acks EXCEPT ![p] = @ + 1]
    BY <1>4 DEF ReleaseBox
  <2> QED
    BY <2>1, <2>2, <2>3
<1>5. ASSUME NEW p \in Ranks, BeginFinalize(p)
      PROVE  FinInv'
  <2>1. fpc' = [fpc EXCEPT ![p] = "drain"] /\ finalized_count' = finalized_count
    BY <1>5 DEF BeginFinalize
  <2>2. Counted' = Counted
    BY <1>5, <2>1 DEF BeginFinalize, Counted
  <2>3. finalized_count' = Cardinality(Counted')
    BY <2>1, <2>2
  <2> QED
    BY <1>5, <2>1, <2>2, <2>3 DEF BeginFinalize
<1>6. ASSUME NEW p \in Ranks, FinalizeAwaitAck(p)
      PROVE  FinInv'
  <2>1. UNCHANGED <<finalized_count, finalize_lock, fpc, Counted>>
    BY <1>6, CountedSame DEF FinalizeAwaitAck, ConsumeAck
  <2> QED
    BY <1>6, <2>1 DEF FinalizeAwaitAck, ConsumeAck
<1>7. ASSUME NEW p \in Ranks, FinalizeLock(p)
      PROVE  FinInv'
  <2>1. fpc' = [fpc EXCEPT ![p] = "count"] /\ finalized_count' = finalized_count
    BY <1>7 DEF FinalizeLock
  <2>2. Counted' = Counted
    BY <1>7, <2>1 DEF FinalizeLock, Counted
  <2>3. finalized_count' = Cardinality(Counted')
    BY <2>1, <2>2
  <2>4. finalize_lock = 1 /\ finalize_lock' = 0 /\ pending_acks[p] = 0
    BY <1>7 DEF FinalizeLock, Drained
  <2>5. \A q \in Ranks : fpc[q] # "count"
    BY <2>4
  <2> QED
    BY <1>7, <2>1, <2>2, <2>3, <2>4, <2>5 DEF FinalizeLock
<1>8. ASSUME NEW p \in Ranks, FinalizeCount(p)
      PROVE  FinInv'
  <2>1. p \notin Counted
    BY <1>8 DEF FinalizeCount, Counted
  <2>2. Counted' = Counted \cup {p}
    <3>1. CASE fpc' = [fpc EXCEPT ![p] = "stop"]
      BY <3>1 DEF Counted
    <3>2. CASE fpc' = [fpc EXCEPT ![p] = "gone"]
      BY <3>2 DEF Counted
    <3> QED
      BY <1>8, <3>1, <3>2 DEF FinalizeCount
  <2>3. finalized_count' = Cardinality(Counted')
    <3>1. Cardinality(Counted \cup {p}) = Cardinality(Counted) + 1
      BY <2>1, CountedAdd
    <3>2. finalized_count = Cardinality(Counted) /\ finalized_count' = finalized_count + 1
      BY <1>8 DEF FinalizeCount
    <3> QED
      BY <2>2, <3>1, <3>2
  <2>4. finalize_lock' = 1 /\ \A q \in Ranks : fpc'[q] # "count"
    <3>1. \A q \in Ranks \ {p} : fpc[q] # "count"
      BY <1>8 DEF FinalizeCount
    <3>2. finalize_lock' = 1
      BY <1>8 DEF FinalizeCount
    <3>3. CASE fpc' = [fpc EXCEPT ![p] = "stop"]
      BY <3>1, <3>2, <3>3
    <3>4. CASE fpc' = [fpc EXCEPT ![p] = "gone"]
      BY <3>1, <3>2, <3>4
    <3> QED
      BY <1>8, <3>3, <3>4 DEF FinalizeCount
  <2>5. pending_acks' = pending_acks /\ pending_acks[p] = 0 /\ UNCHANGED <<boxVars, routerVars>>
    BY <1>8 DEF FinalizeCount
  <2>6. \A q \in Ranks : fpc[q] \notin {"stop", "sentinel"}
    BY <2>1, CountedFinite
  <2>7. CASE IsLast
    <3>1. fpc' = [fpc EXCEPT ![p] = "stop"]
      BY <1>8, <2>7 DEF FinalizeCount
    <3>2. Counted' = Ranks
      <4>1. Cardinality(Counted') = NProc
        BY <1>8, <2>3, <2>7 DEF FinalizeCount, IsLast
      <4>2. Counted' \subseteq Ranks
        BY <2>2, CountedFinite
      <4> QED
        BY <4>1, <4>2, RanksFinite, FS_Subset
    <3>3. \A q \in Ranks \ {p} : fpc'[q] = "gone"
      BY <3>1, <3>2, <2>6 DEF Counted
    <3>4. ~(~Idle' /\ server_box'.dest_rank = NoRank)
      BY <1>8, <2>5 DEF FinalizeCount
    <3>5. \A q \in Ranks : fpc'[q] \in {"stop", "sentinel"} => q = p
      BY <3>3
    <3>6. \A q \in Ranks : pending_acks'[q] = 0
      BY <2>5, <3>1, <3>3
    <3> QED
      BY <2>3, <2>4, <3>2, <3>3, <3>4, <3>5, <3>6
  <2>8. CASE ~IsLast
    <3>1. fpc' = [fpc EXCEPT ![p] = "gone"]
      BY <1>8, <2>8 DEF FinalizeCount
    <3> QED
      BY <1>8, <2>1, <2>3, <2>4, <2>5, <2>6, <3>1
  <2> QED
    BY <2>7, <2>8
<1>9. ASSUME NEW p \in Ranks, StopAcquireBox(p)
      PROVE  FinInv'
  <2>1. fpc' = [fpc EXCEPT ![p] = "sentinel"] /\ finalized_count' = finalized_count
    BY <1>9 DEF StopAcquireBox
  <2>2. Counted' = Counted
    BY <1>9, <2>1 DEF StopAcquireBox, Counted
  <2>3. finalized_count' = Cardinality(Counted')
    BY <2>1, <2>2
  <2> QED
    BY <1>9, <2>1, <2>2, <2>3 DEF StopAcquireBox
<1>10. ASSUME NEW p \in Ranks, PostSentinel(p)
      PROVE  FinInv'
  <2>1. fpc' = [fpc EXCEPT ![p] = "gone"] /\ finalized_count' = finalized_count
    BY <1>10 DEF PostSentinel
  <2>2. Counted' = Counted
    BY <1>10, <2>1 DEF PostSentinel, Counted
  <2>3. finalized_count' = Cardinality(Counted')
    BY <2>1, <2>2
  <2>4. \A q \in Ranks \ {p} : fpc[q] = "gone"
    BY <1>10 DEF PostSentinel
  <2> QED
    BY <1>10, <2>1, <2>2, <2>3, <2>4 DEF PostSentinel
<1>11. CASE RouterTake
  <2>1. UNCHANGED <<finalized_count, finalize_lock, fpc, Counted>>
    BY <1>11, CountedSame DEF RouterTake
  <2> QED
    BY <1>11, <2>1 DEF RouterTake
<1>12. CASE RouterConfirm
  <2>1. UNCHANGED <<finalized_count, finalize_lock, fpc, Counted>>
    BY <1>12, CountedSame DEF RouterConfirm
  <2> QED
    BY <1>12, <2>1 DEF RouterConfirm
<1>13. ASSUME NEW p \in Ranks, NEW w \in Workers,
             \/ \E s \in Sizes : Prepare(p, w, s)
             \/ \E d \in Data : Fill(p, w, d)
             \/ \E q \in Ranks : Send(p, w, q)
             \/ FinishBuffer(p, w)
             \/ LockBuffer(p, w)
             \/ MapBuffer(p, w)
             \/ AcquireBox(p, w)
      PROVE  FinInv'
  <2>1. UNCHANGED <<finalized_count, finalize_lock, fpc, pending_acks, box_full, box_delivered, Idle, server_box, Counted>>
    BY <1>13, CountedSame DEF Prepare, Fill, Send, FinishBuffer,
         UnlockBuffer, LockBuffer,
        MapBuffer, Drained, TooSmall, AcquireBox
  <2> QED
    BY <2>1
<1>14. ASSUME NEW q \in Ranks,
             \/ AwaitMessage(q)
             \/ CopyPayload(q)
             \/ ClearInbox(q)
             \/ PostAck(q)
      PROVE  FinInv'
  <2>1. UNCHANGED <<finalized_count, finalize_lock, fpc, pending_acks, box_full, box_delivered, Idle, server_box, Counted>>
    BY <1>14, CountedSame DEF AwaitMessage, CopyPayload, ClearInbox,
         PostAck, AckTarget
  <2> QED
    BY <2>1
<1>15. ASSUME NEW p \in Ranks,
             Crash(p)
      PROVE  FinInv'
  <2>1. UNCHANGED <<finalized_count, finalize_lock, fpc, pending_acks, box_full, box_delivered, Idle, server_box, Counted>>
    BY <1>15, CountedSame DEF Crash
  <2> QED
    BY <2>1
<1>16. ASSUME \/ RouterReserve
             \/ RouterForward
      PROVE  FinInv'
  <2>1. UNCHANGED <<finalized_count, finalize_lock, fpc, pending_acks, box_full, box_delivered, Idle, server_box, Counted>>
    BY <1>16, CountedSame DEF RouterReserve, RouterForward
  <2> QED
    BY <2>1
<1>17. CASE UNCHANGED comVars
  BY <1>17, CountedSame DEF comVars
<1> HIDE DEF TypeOK, LockInv, FinInv, At, Goto, RecvAt, FinAt
<1> QED
  BY <1>1, <1>2, <1>3, <1>4, <1>5, <1>6, <1>7, <1>8, <1>9, <1>10, <1>11,
     <1>12, <1>13, <1>14, <1>15, <1>16, <1>17
  DEF ComNext, SendStep, RouterStep, FinalizeStep

(* The inboxes and the receivers a process waits for can be counted. *)
LEMMA AckSetsFinite ==
  ASSUME NEW p
  PROVE  /\ IsFiniteSet(Unread(p)) /\ Cardinality(Unread(p)) \in Nat
         /\ IsFiniteSet(Acknowledging(p)) /\ Cardinality(Acknowledging(p)) \in Nat
<1>1. Unread(p) \subseteq Ranks /\ Acknowledging(p) \subseteq Ranks
  BY DEF Unread, Acknowledging
<1> QED
  BY <1>1, RanksFinite, FS_Subset, FS_CardinalityType

(* What a process has in inboxes changes only with an inbox. *)
LEMMA UnreadSame ==
  ASSUME inbox' = inbox
  PROVE  \A p : Unread(p)' = Unread(p)
BY DEF Unread

(* Who is about to acknowledge changes only with a receiver. *)
LEMMA AcknowledgingSame ==
  ASSUME rpc' = rpc, rcv' = rcv
  PROVE  \A p : Acknowledging(p)' = Acknowledging(p)
BY DEF Acknowledging

(* Steps that do not enter or leave the window between delivery and the     *)
(* increment of pending_acks (com.c:678-685) leave Uncounted alone.          *)
LEMMA UncountedSame ==
  ASSUME TypeOK, BoxInv,
         \A p \in Ranks, w \in Workers :
           /\ pc'[p][w] = "release" <=> pc[p][w] = "release"
           /\ pc'[p][w] = "deliver" /\ (router_pc' = "confirm" \/ box_delivered' > 0)
                <=> pc[p][w] = "deliver" /\ (router_pc = "confirm" \/ box_delivered > 0)
  PROVE  \A p \in Ranks : Uncounted(p)' = Uncounted(p)
BY DEF Uncounted

(* Only the holder of the mailbox can have a message in that window. *)
LEMMA UncountedHolder ==
  ASSUME BoxInv, NEW p \in Ranks, NEW w \in Workers, pc[p][w] \in Holding
  PROVE  /\ \A r \in Ranks, v \in Workers : r # p \/ v # w => pc[r][v] \notin Holding
         /\ \A r \in Ranks \ {p} : Uncounted(r) = 0
         /\ pc[p][w] = "release" => Uncounted(p) = 1
         /\ pc[p][w] = "deliver" =>
              Uncounted(p) = IF router_pc = "confirm" \/ box_delivered > 0 THEN 1 ELSE 0
<1>1. \A r \in Ranks, v \in Workers : r # p \/ v # w => pc[r][v] \notin Holding
  BY DEF BoxInv
<1>2. \A r \in Ranks \ {p} : Uncounted(r) = 0
  BY <1>1 DEF Uncounted, Holding
<1>3. pc[p][w] = "release" => Uncounted(p) = 1
  BY DEF Uncounted
<1>4. ASSUME pc[p][w] = "deliver", router_pc = "confirm" \/ box_delivered > 0
      PROVE  Uncounted(p) = 1
  BY <1>4 DEF Uncounted
<1>5. ASSUME pc[p][w] = "deliver", ~(router_pc = "confirm" \/ box_delivered > 0)
      PROVE  Uncounted(p) = 0
  BY <1>1, <1>5 DEF Uncounted, Holding
<1> QED
  BY <1>1, <1>2, <1>3, <1>4, <1>5

(* Every term of AcksBalance is a natural number. *)
LEMMA AckTypes ==
  ASSUME TypeOK, NEW r \in Ranks
  PROVE  /\ ack_full[r] \in Nat /\ pending_acks[r] \in Nat
         /\ Cardinality(Unread(r)) \in Nat /\ Cardinality(Acknowledging(r)) \in Nat
BY AckSetsFinite DEF TypeOK

(* The cardinality of a set with one more element. *)
LEMMA AddCard ==
  ASSUME NEW S, NEW x, IsFiniteSet(S), x \notin S
  PROVE  Cardinality(S \cup {x}) = Cardinality(S) + 1
BY FS_AddElement

(* The cardinality of a set with one element less. *)
LEMMA RemoveCard ==
  ASSUME NEW S, NEW x, IsFiniteSet(S), x \in S
  PROVE  Cardinality(S \ {x}) = Cardinality(S) - 1
BY FS_RemoveElement

(* Steps that touch no acknowledgement, inbox or receiver keep the balance. *)
LEMMA AcksSame ==
  ASSUME AcksBalance, UNCHANGED <<ack_full, pending_acks, inbox, rpc, rcv>>,
         \A p \in Ranks : Uncounted(p)' = Uncounted(p)
  PROVE  AcksBalance'
BY UnreadSame, AcknowledgingSame DEF AcksBalance

(* The same for steps that leave the senders and the mailbox alone. *)
LEMMA UncountedSame0 ==
  ASSUME UNCHANGED <<pc, router_pc, box_delivered>>
  PROVE  \A p : Uncounted(p)' = Uncounted(p)
BY DEF Uncounted

(* A process has at most one message in that window. *)
LEMMA UncountedType == \A p : Uncounted(p) \in {0, 1}
BY DEF Uncounted

(* No acknowledgement is lost or counted twice (com.c:177-180, 685, 730). *)
LEMMA AcksStep ==
  ASSUME TypeOK, LockInv, BufferInv, BoxInv, SlotInv, AcksBalance, [ComNext]_comVars
  PROVE  AcksBalance'
<1> USE DEF At, Goto, RecvAt, FinAt, boxVars, inboxVars, ackVars, segVars,
     lockVars,
      threadVars, recvVars, routerVars, finVars
<1>1. ASSUME NEW p \in Ranks, NEW w \in Workers, NEW s \in Sizes, Prepare(p, w, s)
      PROVE  AcksBalance'
  <2>1. \A r \in Ranks : Uncounted(r)' = Uncounted(r)
    BY <1>1, UncountedSame DEF Prepare, BoxInv, Holding, Idle, Posted,
         Routing, Confirmed, Stopped, TypeOK, Callers
  <2>2. UNCHANGED <<ack_full, pending_acks, inbox, rpc, rcv>>
    BY <1>1 DEF Prepare
  <2> QED
    BY <2>1, <2>2, AcksSame
<1>2. ASSUME NEW p \in Ranks, NEW w \in Workers, NEW d \in Data, Fill(p, w, d)
      PROVE  AcksBalance'
  <2>1. \A r \in Ranks : Uncounted(r)' = Uncounted(r)
    BY <1>2, UncountedSame DEF Fill, BoxInv, Holding, Idle, Posted,
         Routing, Confirmed, Stopped, TypeOK, Callers
  <2>2. UNCHANGED <<ack_full, pending_acks, inbox, rpc, rcv>>
    BY <1>2 DEF Fill
  <2> QED
    BY <2>1, <2>2, AcksSame
<1>3. ASSUME NEW p \in Ranks, NEW w \in Workers, NEW q \in Ranks, Send(p, w, q)
      PROVE  AcksBalance'
  <2>1. \A r \in Ranks : Uncounted(r)' = Uncounted(r)
    BY <1>3, UncountedSame DEF Send, BoxInv, Holding, Idle, Posted,
         Routing, Confirmed, Stopped, TypeOK, Callers
  <2>2. UNCHANGED <<ack_full, pending_acks, inbox, rpc, rcv>>
    BY <1>3 DEF Send
  <2> QED
    BY <2>1, <2>2, AcksSame
<1>4. ASSUME NEW p \in Ranks, NEW w \in Workers, FinishBuffer(p, w)
      PROVE  AcksBalance'
  <2>1. \A r \in Ranks : Uncounted(r)' = Uncounted(r)
    BY SMTT(40), <1>4, UncountedSame DEF FinishBuffer, UnlockBuffer, BoxInv,
         Holding, Idle, Posted, Routing, Confirmed, Stopped, TypeOK,
         Callers
  <2>2. UNCHANGED <<ack_full, pending_acks, inbox, rpc, rcv>>
    BY <1>4 DEF FinishBuffer, UnlockBuffer
  <2> QED
    BY <2>1, <2>2, AcksSame
<1>5. ASSUME NEW p \in Ranks, NEW w \in Workers, LockBuffer(p, w)
      PROVE  AcksBalance'
  <2>1. \A r \in Ranks : Uncounted(r)' = Uncounted(r)
    BY ZenonT(40), <1>5, UncountedSame DEF LockBuffer, BoxInv, Holding, Idle,
         Posted, Routing, Confirmed, Stopped, TypeOK, Callers
  <2>2. UNCHANGED <<ack_full, pending_acks, inbox, rpc, rcv>>
    BY <1>5 DEF LockBuffer
  <2> QED
    BY <2>1, <2>2, AcksSame
<1>6. ASSUME NEW p \in Ranks, NEW w \in Workers, AwaitAck(p, w)
      PROVE  AcksBalance'
  <2>1. /\ ack_full' = [ack_full EXCEPT ![p] = @ - 1]
        /\ pending_acks' = [pending_acks EXCEPT ![p] = @ - 1]
        /\ UNCHANGED <<pc, router_pc, box_delivered, inbox, rpc, rcv>>
    BY <1>6 DEF AwaitAck, ConsumeAck
  <2>2. \A r \in Ranks : Uncounted(r)' = Uncounted(r)
    BY <2>1 DEF Uncounted
  <2> QED
    BY <2>1, <2>2, UnreadSame, AcknowledgingSame, AckSetsFinite,
         UncountedType DEF AcksBalance, TypeOK
<1>7. ASSUME NEW p \in Ranks, NEW w \in Workers, MapBuffer(p, w)
      PROVE  AcksBalance'
  <2>1. \A r \in Ranks : Uncounted(r)' = Uncounted(r)
    BY <1>7, UncountedSame DEF MapBuffer, Drained, TooSmall, BoxInv,
         Holding, Idle, Posted, Routing, Confirmed, Stopped, TypeOK,
         Callers
  <2>2. UNCHANGED <<ack_full, pending_acks, inbox, rpc, rcv>>
    BY <1>7 DEF MapBuffer, Drained, TooSmall
  <2> QED
    BY <2>1, <2>2, AcksSame
<1>8. ASSUME NEW p \in Ranks, NEW w \in Workers, AcquireBox(p, w)
      PROVE  AcksBalance'
  <2>1. \A r \in Ranks : Uncounted(r)' = Uncounted(r)
    BY <1>8, UncountedSame DEF AcquireBox, BoxInv, Holding, Idle,
         Posted, Routing, Confirmed, Stopped, TypeOK, Callers
  <2>2. UNCHANGED <<ack_full, pending_acks, inbox, rpc, rcv>>
    BY <1>8 DEF AcquireBox
  <2> QED
    BY <2>1, <2>2, AcksSame
<1>9. ASSUME NEW p \in Ranks, NEW w \in Workers, PostRequest(p, w)
      PROVE  AcksBalance'
  <2>1. \A r \in Ranks : Uncounted(r)' = Uncounted(r)
    BY SMTT(40), <1>9, UncountedSame DEF PostRequest, BoxInv, Holding, Idle,
         Posted, Routing, Confirmed, Stopped, TypeOK, Callers
  <2>2. UNCHANGED <<ack_full, pending_acks, inbox, rpc, rcv>>
    BY <1>9 DEF PostRequest
  <2> QED
    BY <2>1, <2>2, AcksSame
<1>10. ASSUME NEW p \in Ranks, NEW w \in Workers, AwaitDelivered(p, w)
      PROVE  AcksBalance'
  <2>1. /\ pc[p][w] \in Holding /\ box_delivered > 0
        /\ pc' = [pc EXCEPT ![p][w] = "release"] /\ pc[p][w] = "deliver"
        /\ UNCHANGED <<ack_full, pending_acks, inbox, rpc, rcv>>
    BY <1>10 DEF AwaitDelivered, Holding
  <2>2. \A r \in Ranks : Uncounted(r) = IF r = p THEN 1 ELSE 0
    BY <2>1, UncountedHolder
  <2>3. \A r \in Ranks \ {p}, v \in Workers : pc'[r][v] \notin Holding
    BY <2>1, UncountedHolder DEF TypeOK
  <2>4. pc'[p][w] = "release"
    BY <2>1 DEF TypeOK
  <2>5. \A r \in Ranks : Uncounted(r)' = IF r = p THEN 1 ELSE 0
    BY <2>3, <2>4 DEF Uncounted, Holding
  <2> QED
    BY <2>1, <2>2, <2>5, AcksSame
<1>11. ASSUME NEW p \in Ranks, NEW w \in Workers, ReleaseBox(p, w)
      PROVE  AcksBalance'
  <2>1. /\ pc[p][w] \in Holding /\ pc[p][w] = "release"
        /\ pc' = [pc EXCEPT ![p][w] = "ready"]
        /\ pending_acks' = [pending_acks EXCEPT ![p] = @ + 1]
        /\ UNCHANGED <<ack_full, inbox, rpc, rcv>>
    BY <1>11 DEF ReleaseBox, Holding
  <2>2. \A r \in Ranks : Uncounted(r) = IF r = p THEN 1 ELSE 0
    BY <2>1, UncountedHolder
  <2>3. \A r \in Ranks, v \in Workers : pc'[r][v] \notin Holding
    BY <2>1, UncountedHolder DEF TypeOK, Holding
  <2>4. \A r \in Ranks : Uncounted(r)' = 0
    BY <2>3 DEF Uncounted, Holding
  <2> QED
    BY <2>1, <2>2, <2>4, UnreadSame, AcknowledgingSame, AckSetsFinite
         DEF AcksBalance, TypeOK
<1>12. ASSUME NEW q \in Ranks, AwaitMessage(q)
      PROVE  AcksBalance'
  <2>1. UNCHANGED <<pc, router_pc, box_delivered, ack_full, pending_acks, inbox>>
    BY <1>12 DEF AwaitMessage
  <2>2. \A r \in Ranks : Uncounted(r)' = Uncounted(r)
    BY <2>1 DEF Uncounted
  <2>3. \A r \in Ranks : Acknowledging(r)' = Acknowledging(r)
    BY <1>12 DEF AwaitMessage, Acknowledging, TypeOK
  <2> QED
    BY <2>1, <2>2, <2>3, UnreadSame DEF AcksBalance
<1>13. ASSUME NEW q \in Ranks, CopyPayload(q)
      PROVE  AcksBalance'
  <2>1. UNCHANGED <<pc, router_pc, box_delivered, ack_full, pending_acks, inbox>>
    BY <1>13 DEF CopyPayload
  <2>2. \A r \in Ranks : Uncounted(r)' = Uncounted(r)
    BY <2>1 DEF Uncounted
  <2>3. \A r \in Ranks : Acknowledging(r)' = Acknowledging(r)
    BY <1>13 DEF CopyPayload, Acknowledging, TypeOK
  <2> QED
    BY <2>1, <2>2, <2>3, UnreadSame DEF AcksBalance
<1>14. ASSUME NEW q \in Ranks, ClearInbox(q)
      PROVE  AcksBalance'
  <2>1. PICK s \in Ranks : s = inbox[q].src_rank /\ s = rcv[q].sender_rank /\ rpc[q] = "clear"
    BY <1>14 DEF ClearInbox, SlotInv, Reading, Valid
  <2>2. /\ inbox' = [inbox EXCEPT ![q] = EmptyInbox]
        /\ rpc' = [rpc EXCEPT ![q] = "ack"]
        /\ UNCHANGED <<pc, router_pc, box_delivered, ack_full, pending_acks, rcv>>
    BY <1>14 DEF ClearInbox
  <2>3. \A r \in Ranks : Uncounted(r)' = Uncounted(r)
    BY <2>2 DEF Uncounted
  <2>4. \A r \in Ranks \ {s} : Unread(r)' = Unread(r) /\ Acknowledging(r)' = Acknowledging(r)
    <3>1. \A a \in Ranks : a # q => inbox'[a] = inbox[a] /\ rpc'[a] = rpc[a]
      BY <2>2
    <3>2. inbox'[q].src_rank = NoRank /\ rpc'[q] = "ack"
      BY <2>2 DEF TypeOK, EmptyInbox
    <3>3. ASSUME NEW r \in Ranks \ {s}, NEW a \in Ranks
          PROVE  /\ (inbox'[a].src_rank = r) <=> (inbox[a].src_rank = r)
                 /\ (rpc'[a] = "ack" /\ rcv'[a].sender_rank = r) <=>
                      (rpc[a] = "ack" /\ rcv[a].sender_rank = r)
      <4>1. CASE a = q
        BY <2>1, <2>2, <3>2, <4>1, NoRankNotRank
      <4>2. CASE a # q
        BY <2>2, <3>1, <4>2
      <4> QED
        BY <4>1, <4>2
    <3> QED
      BY <3>3 DEF Unread, Acknowledging
  <2>5. q \in Unread(s) /\ q \notin Acknowledging(s)
    BY <2>1 DEF Unread, Acknowledging
  <2>6. Unread(s)' = Unread(s) \ {q}
    BY <2>1, <2>2, NoRankNotRank DEF Unread, TypeOK, EmptyInbox
  <2>7. Acknowledging(s)' = Acknowledging(s) \cup {q}
    BY <2>1, <2>2 DEF Acknowledging, TypeOK
  <2>8. /\ Cardinality(Unread(s) \ {q}) = Cardinality(Unread(s)) - 1
        /\ Cardinality(Acknowledging(s) \cup {q}) = Cardinality(Acknowledging(s)) + 1
    BY <2>5, AckSetsFinite, AddCard, RemoveCard
  <2> QED
    <3> SUFFICES ASSUME NEW r \in Ranks
                 PROVE  pending_acks'[r] + Uncounted(r)' =
                          ack_full'[r] + Cardinality(Unread(r)') + Cardinality(Acknowledging(r)')
      BY DEF AcksBalance
    <3>1. pending_acks[r] + Uncounted(r) =
            ack_full[r] + Cardinality(Unread(r)) + Cardinality(Acknowledging(r))
      BY DEF AcksBalance
    <3>2. CASE r = s
      <4>1. /\ pending_acks'[s] = pending_acks[s] /\ ack_full'[s] = ack_full[s]
            /\ Uncounted(s)' = Uncounted(s)
            /\ Cardinality(Unread(s)') = Cardinality(Unread(s)) - 1
            /\ Cardinality(Acknowledging(s)') = Cardinality(Acknowledging(s)) + 1
        BY <2>1, <2>2, <2>3, <2>4, <2>6, <2>7, <2>8 DEF TypeOK
      <4>2. /\ Cardinality(Unread(s)) \in Nat /\ Cardinality(Acknowledging(s)) \in Nat
            /\ ack_full[s] \in Nat /\ pending_acks[s] \in Nat /\ Uncounted(s) \in {0, 1}
        BY AckTypes, UncountedType
      <4> QED
        BY <3>1, <3>2, <4>1, <4>2
    <3>3. CASE r # s
      BY <2>1, <2>2, <2>3, <2>4, <2>6, <2>7, <2>8, <3>1, <3>3,
           AckTypes, UncountedType DEF TypeOK
    <3> QED
      BY <3>2, <3>3
<1>15. ASSUME NEW q \in Ranks, PostAck(q)
      PROVE  AcksBalance'
  <2>1. PICK s \in Ranks : s = rcv[q].sender_rank /\ rpc[q] = "ack"
    BY <1>15 DEF PostAck, SlotInv
  <2>2. /\ ack_full' = [ack_full EXCEPT ![s] = @ + 1]
        /\ rpc' = [rpc EXCEPT ![q] = "idle"]
        /\ rcv' = [rcv EXCEPT ![q] = NoMessage]
        /\ UNCHANGED <<pc, router_pc, box_delivered, pending_acks, inbox>>
    BY <1>15, <2>1 DEF PostAck, AckTarget
  <2>3. \A r \in Ranks : Uncounted(r)' = Uncounted(r)
    BY <2>2 DEF Uncounted
  <2>4. \A r \in Ranks \ {s} : Acknowledging(r)' = Acknowledging(r)
    BY <2>1, <2>2 DEF Acknowledging, TypeOK
  <2>5. q \in Acknowledging(s) /\ Acknowledging(s)' = Acknowledging(s) \ {q}
    BY <2>1, <2>2 DEF Acknowledging, TypeOK
  <2>6. Cardinality(Acknowledging(s) \ {q}) = Cardinality(Acknowledging(s)) - 1
    BY <2>5, AckSetsFinite, RemoveCard
  <2> QED
    <3> SUFFICES ASSUME NEW r \in Ranks
                 PROVE  pending_acks'[r] + Uncounted(r)' =
                          ack_full'[r] + Cardinality(Unread(r)') + Cardinality(Acknowledging(r)')
      BY DEF AcksBalance
    <3>1. pending_acks[r] + Uncounted(r) =
            ack_full[r] + Cardinality(Unread(r)) + Cardinality(Acknowledging(r))
      BY DEF AcksBalance
    <3>2. CASE r = s
      <4>1. /\ pending_acks'[s] = pending_acks[s] /\ ack_full'[s] = ack_full[s] + 1
            /\ Uncounted(s)' = Uncounted(s)
            /\ Cardinality(Unread(s)') = Cardinality(Unread(s))
            /\ Cardinality(Acknowledging(s)') = Cardinality(Acknowledging(s)) - 1
        BY <2>1, <2>2, <2>3, <2>4, <2>5, <2>6, UnreadSame DEF TypeOK
      <4>2. /\ Cardinality(Unread(s)) \in Nat /\ Cardinality(Acknowledging(s)) \in Nat
            /\ ack_full[s] \in Nat /\ pending_acks[s] \in Nat /\ Uncounted(s) \in {0, 1}
        BY AckTypes, UncountedType
      <4> QED
        BY <3>1, <3>2, <4>1, <4>2
    <3>3. CASE r # s
      BY <2>1, <2>2, <2>3, <2>4, <2>5, <2>6, UnreadSame, <3>1, <3>3,
           AckTypes, UncountedType DEF TypeOK
    <3> QED
      BY <3>2, <3>3
<1>16. ASSUME NEW p \in Ranks, BeginFinalize(p)
      PROVE  AcksBalance'
  <2>1. \A r \in Ranks : Uncounted(r)' = Uncounted(r)
    BY ZenonT(40), <1>16, UncountedSame DEF BeginFinalize, UnlockBuffer, BoxInv,
         Holding, Idle, Posted, Routing, Confirmed, Stopped, TypeOK,
         Callers
  <2>2. UNCHANGED <<ack_full, pending_acks, inbox, rpc, rcv>>
    BY <1>16 DEF BeginFinalize, UnlockBuffer
  <2> QED
    BY <2>1, <2>2, AcksSame
<1>17. ASSUME NEW p \in Ranks, FinalizeAwaitAck(p)
      PROVE  AcksBalance'
  <2>1. /\ ack_full' = [ack_full EXCEPT ![p] = @ - 1]
        /\ pending_acks' = [pending_acks EXCEPT ![p] = @ - 1]
        /\ UNCHANGED <<pc, router_pc, box_delivered, inbox, rpc, rcv>>
    BY <1>17 DEF FinalizeAwaitAck, ConsumeAck
  <2>2. \A r \in Ranks : Uncounted(r)' = Uncounted(r)
    BY <2>1 DEF Uncounted
  <2> QED
    BY <2>1, <2>2, UnreadSame, AcknowledgingSame, AckSetsFinite,
         UncountedType DEF AcksBalance, TypeOK
<1>18. ASSUME NEW p \in Ranks, FinalizeLock(p)
      PROVE  AcksBalance'
  <2>1. \A r \in Ranks : Uncounted(r)' = Uncounted(r)
    BY <1>18, UncountedSame DEF FinalizeLock, Drained, BoxInv, Holding,
         Idle, Posted, Routing, Confirmed, Stopped, TypeOK, Callers
  <2>2. UNCHANGED <<ack_full, pending_acks, inbox, rpc, rcv>>
    BY <1>18 DEF FinalizeLock, Drained
  <2> QED
    BY <2>1, <2>2, AcksSame
<1>19. ASSUME NEW p \in Ranks, FinalizeCount(p)
      PROVE  AcksBalance'
  <2>1. \A r \in Ranks : Uncounted(r)' = Uncounted(r)
    BY <1>19, UncountedSame DEF FinalizeCount, IsLast, BoxInv, Holding,
         Idle, Posted, Routing, Confirmed, Stopped, TypeOK, Callers
  <2>2. UNCHANGED <<ack_full, pending_acks, inbox, rpc, rcv>>
    BY <1>19 DEF FinalizeCount, IsLast
  <2> QED
    BY <2>1, <2>2, AcksSame
<1>20. ASSUME NEW p \in Ranks, StopAcquireBox(p)
      PROVE  AcksBalance'
  <2>1. \A r \in Ranks : Uncounted(r)' = Uncounted(r)
    BY <1>20, UncountedSame DEF StopAcquireBox, BoxInv, Holding, Idle,
         Posted, Routing, Confirmed, Stopped, TypeOK, Callers
  <2>2. UNCHANGED <<ack_full, pending_acks, inbox, rpc, rcv>>
    BY <1>20 DEF StopAcquireBox
  <2> QED
    BY <2>1, <2>2, AcksSame
<1>21. ASSUME NEW p \in Ranks, PostSentinel(p)
      PROVE  AcksBalance'
  <2>1. \A r \in Ranks : Uncounted(r)' = Uncounted(r)
    BY <1>21, UncountedSame DEF PostSentinel, BoxInv, Holding, Idle,
         Posted, Routing, Confirmed, Stopped, TypeOK, Callers
  <2>2. UNCHANGED <<ack_full, pending_acks, inbox, rpc, rcv>>
    BY <1>21 DEF PostSentinel
  <2> QED
    BY <2>1, <2>2, AcksSame
<1>22. ASSUME NEW p \in Ranks, Crash(p)
      PROVE  AcksBalance'
  <2>1. \A r \in Ranks : Uncounted(r)' = Uncounted(r)
    BY <1>22, UncountedSame DEF Crash, BoxInv, Holding, Idle, Posted,
         Routing, Confirmed, Stopped, TypeOK, Callers
  <2>2. UNCHANGED <<ack_full, pending_acks, inbox, rpc, rcv>>
    BY <1>22 DEF Crash
  <2> QED
    BY <2>1, <2>2, AcksSame
<1>23. CASE RouterTake
  <2>1. \A r \in Ranks : Uncounted(r)' = Uncounted(r)
    BY <1>23, UncountedSame DEF RouterTake, BoxInv, Holding, Idle,
         Posted, Routing, Confirmed, Stopped, TypeOK, Callers
  <2>2. UNCHANGED <<ack_full, pending_acks, inbox, rpc, rcv>>
    BY <1>23 DEF RouterTake
  <2> QED
    BY <2>1, <2>2, AcksSame
<1>24. CASE RouterReserve
  <2>1. \A r \in Ranks : Uncounted(r)' = Uncounted(r)
    BY <1>24, UncountedSame DEF RouterReserve, BoxInv, Holding, Idle,
         Posted, Routing, Confirmed, Stopped, TypeOK, Callers
  <2>2. UNCHANGED <<ack_full, pending_acks, inbox, rpc, rcv>>
    BY <1>24 DEF RouterReserve
  <2> QED
    BY <2>1, <2>2, AcksSame
<1>25. CASE RouterForward
  <2> DEFINE d == router_dest
  <2>1. PICK p \in Ranks, w \in Workers : Delivering(p, w)
    BY <1>25, NoRankNotRank DEF RouterForward, BoxInv, Idle, Posted,
         Routing, Confirmed, Stopped, Closed, EmptyBox
  <2>2. pc[p][w] = "deliver" /\ pc[p][w] \in Holding /\ server_box.src_rank = p
    BY <2>1 DEF Delivering, RequestOf, Holding
  <2>3. /\ d \in Ranks /\ box_delivered = 0 /\ router_pc = "forward"
        /\ inbox[d] = EmptyInbox
    BY <1>25 DEF RouterForward, BoxInv, Idle, Posted, Routing,
         Confirmed, Stopped, SlotInv, Forwarding
  <2>4. /\ inbox' = [inbox EXCEPT ![d] = [src_rank |-> p, msg_id |-> server_box.msg_id,
                                          size |-> server_box.size, shm_name |-> server_box.shm_name]]
        /\ router_pc' = "confirm"
        /\ UNCHANGED <<pc, box_delivered, ack_full, pending_acks, rpc, rcv>>
    BY <1>25, <2>2 DEF RouterForward
  <2>5. \A r \in Ranks : Uncounted(r) = 0
    BY <2>2, <2>3, UncountedHolder
  <2>6. \A r \in Ranks : Uncounted(r)' = IF r = p THEN 1 ELSE 0
    BY <2>2, <2>4, UncountedHolder DEF Uncounted, Holding
  <2>7. \A r \in Ranks \ {p} : Unread(r)' = Unread(r)
    BY <2>3, <2>4, NoRankNotRank DEF Unread, TypeOK, EmptyInbox
  <2>8. d \notin Unread(p) /\ Unread(p)' = Unread(p) \cup {d}
    BY <2>3, <2>4, NoRankNotRank DEF Unread, TypeOK, EmptyInbox
  <2>9. Cardinality(Unread(p) \cup {d}) = Cardinality(Unread(p)) + 1
    BY <2>8, AckSetsFinite, AddCard
  <2> QED
    <3> SUFFICES ASSUME NEW r \in Ranks
                 PROVE  pending_acks'[r] + Uncounted(r)' =
                          ack_full'[r] + Cardinality(Unread(r)') + Cardinality(Acknowledging(r)')
      BY DEF AcksBalance
    <3>1. pending_acks[r] + Uncounted(r) =
            ack_full[r] + Cardinality(Unread(r)) + Cardinality(Acknowledging(r))
      BY DEF AcksBalance
    <3>2. CASE r = p
      <4>1. /\ pending_acks'[p] = pending_acks[p] /\ ack_full'[p] = ack_full[p]
            /\ Uncounted(p) = 0 /\ Uncounted(p)' = 1
            /\ Cardinality(Unread(p)') = Cardinality(Unread(p)) + 1
            /\ Cardinality(Acknowledging(p)') = Cardinality(Acknowledging(p))
        BY <2>4, <2>5, <2>6, <2>7, <2>8, <2>9, AcknowledgingSame DEF TypeOK
      <4>2. /\ Cardinality(Unread(p)) \in Nat /\ Cardinality(Acknowledging(p)) \in Nat
            /\ ack_full[p] \in Nat /\ pending_acks[p] \in Nat /\ Uncounted(p) \in {0, 1}
        BY AckTypes, UncountedType
      <4> QED
        BY <3>1, <3>2, <4>1, <4>2
    <3>3. CASE r # p
      BY <2>4, <2>5, <2>6, <2>7, <2>8, <2>9, AcknowledgingSame, <3>1,
           <3>3, AckTypes, UncountedType DEF TypeOK
    <3> QED
      BY <3>2, <3>3
<1>26. CASE RouterConfirm
  <2>1. \A r \in Ranks : Uncounted(r)' = Uncounted(r)
    BY <1>26, UncountedSame DEF RouterConfirm, BoxInv, Holding, Idle,
         Posted, Routing, Confirmed, Stopped, TypeOK, Callers
  <2>2. UNCHANGED <<ack_full, pending_acks, inbox, rpc, rcv>>
    BY <1>26 DEF RouterConfirm
  <2> QED
    BY <2>1, <2>2, AcksSame
<1>27. CASE UNCHANGED comVars
  BY <1>27, UncountedSame0, AcksSame DEF comVars
<1> QED
  BY <1>1, <1>2, <1>3, <1>4, <1>5, <1>6, <1>7, <1>8, <1>9, <1>10, <1>11,
     <1>12, <1>13, <1>14, <1>15, <1>16, <1>17, <1>18, <1>19, <1>20, <1>21,
     <1>22, <1>23, <1>24, <1>25, <1>26, <1>27
  DEF ComNext, SendStep, RouterStep, FinalizeStep

(* com_initialize hands the processes a region in which all of it holds. *)
LEMMA InitInv == ComInit => IInv
<1> SUFFICES ASSUME ComInit PROVE IInv
  OBVIOUS
<1>1. TypeInv
  BY TypeInit
<1>2. LockInv /\ BufferInv
  BY DEF ComInit, LockInv, BufferInv, Locked, Mapped, Holding
<1>3. BoxInv
  BY DEF ComInit, BoxInv, Idle, NobodyHolds, Holding
<1>4. SlotInv
  BY DEF ComInit, SlotInv, Forwarding, Reading
<1>5. AcksBalance
  <2> SUFFICES ASSUME NEW p \in Ranks
               PROVE  pending_acks[p] + Uncounted(p) =
                        ack_full[p] + Cardinality(Unread(p)) + Cardinality(Acknowledging(p))
    BY DEF AcksBalance
  <2>1. Unread(p) = {}
    BY NoRankNotRank DEF ComInit, Unread, EmptyInbox
  <2>2. Acknowledging(p) = {}
    BY DEF ComInit, Acknowledging
  <2>3. pending_acks[p] = 0 /\ ack_full[p] = 0 /\ Uncounted(p) = 0
    BY DEF ComInit, Uncounted
  <2> QED
    BY <2>1, <2>2, <2>3, FS_EmptySet
<1>6. FinInv
  <2>1. Counted = {}
    BY DEF ComInit, Counted
  <2>2. finalized_count = Cardinality(Counted)
    BY <2>1, FS_EmptySet DEF ComInit
  <2> QED
    BY <2>2 DEF ComInit, FinInv, Idle
<1> QED
  BY <1>1, <1>2, <1>3, <1>4, <1>5, <1>6 DEF IInv

(* Every operation of the layer, the router, com_finalize and a crash keep *)
(* the invariant.                                                          *)
LEMMA StepInv ==
  ASSUME IInv, [ComNext]_comVars
  PROVE  IInv'
<1> USE DEF IInv
<1>1. TypeInv'
  BY TypeStep
<1>2. TypeOK
  BY DEF TypeInv
<1>3. LockInv'
  BY <1>2, LockStep
<1>4. BufferInv'
  BY <1>2, BufferStep
<1>5. BoxInv'
  BY <1>2, BoxStep
<1>6. SlotInv'
  BY <1>2, SlotStep
<1>7. AcksBalance'
  BY <1>2, AcksStep
<1>8. FinInv'
  BY <1>2, FinStep
<1> QED
  BY <1>1, <1>3, <1>4, <1>5, <1>6, <1>7, <1>8

(* The inductive invariant holds in every state of every legal client. *)
THEOREM Inductive == ComSpec => []IInv
<1>1. ComInit => IInv
  BY InitInv
<1>2. IInv /\ [ComNext]_comVars => IInv'
  BY StepInv
<1> QED
  BY <1>1, <1>2, PTL DEF ComSpec

-----------------------------------------------------------------------------
(* The properties of Com: each follows from the inductive invariant.       *)

(* Every variable of the layer keeps its type. *)
THEOREM TypeCorrect == ComSpec => []TypeOK
<1>1. IInv => TypeOK
  BY DEF IInv, TypeInv
<1> QED
  BY <1>1, Inductive, PTL

(* No acknowledgement is lost or counted twice, in whatever order com_send *)
(* increments pending_acks and the receiver posts ack_full.                *)
THEOREM AcksBalanced == ComSpec => []AcksBalance
<1>1. IInv => AcksBalance
  BY DEF IInv
<1> QED
  BY <1>1, Inductive, PTL

(* The thread or process that writes the central mailbox has it alone. *)
THEOREM MailboxExclusion == ComSpec => []MailboxExclusive
<1>1. IInv => MailboxExclusive
  BY DEF IInv, BoxInv, Idle, Holding, MailboxExclusive
<1> QED
  BY <1>1, Inductive, PTL

(* The router writes only inboxes that were read and cleared. *)
THEOREM InboxExclusion == ComSpec => []InboxExclusive
<1>1. IInv => InboxExclusive
  <2> SUFFICES ASSUME IInv, router_pc = "forward"
               PROVE  /\ inbox[router_dest] = EmptyInbox
                      /\ slot_full[router_dest] = 0
                      /\ rpc[router_dest] \notin {"copy", "clear"}
    BY DEF InboxExclusive
  <2>1. router_dest \in Ranks
    BY DEF IInv, BoxInv, Idle, Posted, Routing, Confirmed, Stopped
  <2> QED
    BY <2>1 DEF IInv, SlotInv, Forwarding, Reading
<1> QED
  BY <1>1, Inductive, PTL

(* A receiver copies no more bytes than the segment has, out of the        *)
(* segment of the process it will acknowledge.                             *)
THEOREM ReadsWithinBounds == ComSpec => []ReadsInBounds
<1>1. IInv => ReadsInBounds
  BY DEF IInv, SlotInv, Valid, Reading, ReadsInBounds
<1> QED
  BY <1>1, Inductive, PTL

(* The run-time checks of com.c on the send buffer and on the destination  *)
(* never end a legal client.                                               *)
THEOREM ChecksHold == ComSpec => []ChecksNeverFail
<1>1. IInv => ChecksNeverFail
  <2> SUFFICES ASSUME IInv PROVE ChecksNeverFail
    OBVIOUS
  <2>1. ASSUME NEW p \in Ranks, NEW w \in Workers,
               pc[p][w] = "lock", send_buffer_lock[p] = {}
        PROVE  ~send_buffer_active[p]
    BY <2>1 DEF IInv, LockInv
  <2>2. ASSUME NEW p \in Ranks, NEW w \in Workers, pc[p][w] \in {"fill", "ready", "box"}
        PROVE  /\ send_buffer_active[p] /\ send_buffer_lock[p] = {w}
               /\ prepared_size[p] = call[p][w].size
               /\ call[p][w].size <= send_mapping[p]
               /\ send_mapping[p] <= file_size[p]
    BY <2>2 DEF IInv, LockInv, BufferInv, Locked, Mapped
  <2>3. router_pc \in {"reserve", "forward"} => router_dest \in Ranks
    BY DEF IInv, BoxInv, Idle, Posted, Routing, Confirmed, Stopped
  <2> QED
    BY <2>1, <2>2, <2>3 DEF ChecksNeverFail
<1> QED
  BY <1>1, Inductive, PTL

(* If the balance of p is zero, nothing of p is unread or unacknowledged. *)
LEMMA NothingOut ==
  ASSUME IInv, NEW p \in Ranks, pending_acks[p] = 0, Uncounted(p) = 0
  PROVE  /\ ack_full[p] = 0
         /\ \A q \in Ranks : inbox[q].src_rank # p
         /\ \A q \in Ranks : ~(rpc[q] = "ack" /\ rcv[q].sender_rank = p)
<1>1. ack_full[p] + Cardinality(Unread(p)) + Cardinality(Acknowledging(p)) = 0
  BY DEF IInv, AcksBalance
<1>2. ack_full[p] = 0 /\ Cardinality(Unread(p)) = 0 /\ Cardinality(Acknowledging(p)) = 0
  <2>1. /\ ack_full[p] \in Nat /\ Cardinality(Unread(p)) \in Nat
        /\ Cardinality(Acknowledging(p)) \in Nat
    BY AckTypes DEF IInv, TypeInv
  <2> QED
    BY <1>1, <2>1
<1>3. Unread(p) = {} /\ Acknowledging(p) = {}
  BY <1>2, AckSetsFinite, FS_EmptySet
<1> QED
  BY <1>2, <1>3 DEF Unread, Acknowledging

(* A message that is nowhere in an inbox or the mailbox is not read later: *)
(* an inbox that names the segment of p holds a message of p.              *)
LEMMA ReadsFromSender ==
  ASSUME IInv, NEW p \in Ranks, NEW q \in Ranks, Reads(q, p)
  PROVE  inbox[q].src_rank = p
BY NoRankNotRank DEF IInv, SlotInv, Valid, EmptyInbox, Reads

(* A message of p that is not acknowledged is the only kind that is read.  *)
LEMMA QuietSegments == IInv => SegmentQuiet
<1> SUFFICES ASSUME IInv, NEW p \in Ranks, NEW w \in Workers,
                    pc[p][w] = "fill" \/ (pc[p][w] = "drain" /\ pending_acks[p] = 0)
             PROVE  /\ \A q \in Ranks : ~Reads(q, p)
                    /\ ~(InTransit /\ server_box.shm_name = p)
  BY DEF SegmentQuiet
<1>1. pending_acks[p] = 0
  BY DEF IInv, BufferInv
<1>2. \A v \in Workers : pc[p][v] \notin Holding
  BY DEF IInv, LockInv, Locked, Holding
<1>3. Uncounted(p) = 0
  BY <1>2 DEF Uncounted, Holding
<1>4. \A q \in Ranks : ~Reads(q, p)
  BY <1>1, <1>3, NothingOut, ReadsFromSender
<1>5. ASSUME InTransit, server_box.shm_name = p
      PROVE  FALSE
  <2>1. ~Idle
    BY <1>5 DEF InTransit, Idle
  <2>2. CASE Closed
    BY <1>5, <2>2, NoRankNotRank DEF Closed, EmptyBox
  <2>3. CASE \E r \in Ranks, v \in Workers : Delivering(r, v)
    BY <1>2, <1>5, <2>3 DEF Delivering, RequestOf, Holding
  <2> QED
    BY <2>1, <2>2, <2>3 DEF IInv, BoxInv
<1> QED
  BY <1>4, <1>5

(* The promise of com_prepare_send_buffer: nobody still has to read the    *)
(* segment a client writes or com.c resizes.                               *)
THEOREM SegmentsQuiet == ComSpec => []SegmentQuiet
BY QuietSegments, Inductive, PTL

(* Once the sentinel is posted no thread is in the layer any more. *)
LEMMA AfterSentinel ==
  ASSUME IInv, SentinelPosted
  PROVE  /\ Closed
         /\ \A r \in Ranks : /\ fpc[r] = "gone" /\ rpc[r] = "idle"
                             /\ \A w \in Workers : pc[r][w] = "idle"
<1>1. ~Idle
  BY DEF SentinelPosted, Idle
<1>2. Closed
  <2>1. CASE router_pc = "stopped"
    <3>1. Stopped
      BY <2>1 DEF IInv, BoxInv, Idle, Posted, Routing, Confirmed
    <3> QED
      BY <1>1, <3>1 DEF IInv, BoxInv, Delivering
  <2>2. CASE server_box.dest_rank = NoRank
    <3>1. ASSUME NEW p \in Ranks, NEW w \in Workers, Delivering(p, w)  PROVE FALSE
      <4>1. call[p][w].dest \in Ranks
        BY <3>1 DEF IInv, BufferInv, Delivering, Holding
      <4> QED
        BY <2>2, <3>1, <4>1, NoRankNotRank DEF Delivering, RequestOf
    <3> QED
      BY <1>1, <3>1 DEF IInv, BoxInv
  <2> QED
    BY <2>1, <2>2 DEF SentinelPosted
<1>3. server_box.dest_rank = NoRank
  BY <1>2 DEF Closed, EmptyBox
<1>4. \A r \in Ranks : fpc[r] = "gone"
  BY <1>1, <1>3 DEF IInv, FinInv
<1> QED
  BY <1>2, <1>4 DEF IInv, LockInv

(* The router is told to stop only when every process has left the layer   *)
(* and every message was read and acknowledged, whoever crashed.           *)
THEOREM ShutdownQuiet == ComSpec => []QuietShutdown
<1>1. IInv => QuietShutdown
  <2> SUFFICES ASSUME IInv, SentinelPosted, NEW p \in Ranks
               PROVE  /\ fpc[p] = "gone"
                      /\ inbox[p] = EmptyInbox /\ slot_full[p] = 0 /\ rpc[p] = "idle"
                      /\ pending_acks[p] = 0 /\ ack_full[p] = 0
    BY DEF QuietShutdown
  <2>1. \A r \in Ranks : /\ fpc[r] = "gone" /\ rpc[r] = "idle"
                         /\ \A w \in Workers : pc[r][w] = "idle"
    BY AfterSentinel
  <2>2. \A r \in Ranks : pending_acks[r] = 0 /\ Uncounted(r) = 0
    BY <2>1 DEF IInv, FinInv, Uncounted
  <2>3. \A r, q \in Ranks : ack_full[r] = 0 /\ inbox[q].src_rank # r
    BY <2>2, NothingOut
  <2>4. inbox[p].src_rank \notin Ranks
    BY <2>3
  <2>5. slot_full[p] = 0
    BY <2>4 DEF IInv, SlotInv, Valid
  <2>6. inbox[p] = EmptyInbox
    BY <2>1, <2>5 DEF IInv, SlotInv, Reading
  <2> QED
    BY <2>1, <2>2, <2>3, <2>5, <2>6
<1> QED
  BY <1>1, Inductive, PTL

-----------------------------------------------------------------------------
(* No permit is lost. *)

(* The router takes the sentinel, and nothing else happens. *)
LEMMA SentinelStays ==
  ASSUME IInv, SentinelPosted, [ComNext]_comVars
  PROVE  SentinelPosted'
<1>1. /\ Closed
      /\ \A r \in Ranks : /\ fpc[r] = "gone" /\ rpc[r] = "idle"
                          /\ \A w \in Workers : pc[r][w] = "idle"
  BY AfterSentinel
<1>2. router_pc \in {"wait", "stopped"}
  BY <1>1 DEF Closed, Posted, Stopped
<1>3. CASE RouterTake
  BY <1>1, <1>3 DEF RouterTake, Closed, EmptyBox, SentinelPosted
<1>4. CASE UNCHANGED comVars
  BY <1>4 DEF comVars, boxVars, routerVars, SentinelPosted
<1>5. ~RouterReserve /\ ~RouterForward /\ ~RouterConfirm
  BY <1>2 DEF RouterReserve, RouterForward, RouterConfirm
<1>6. ASSUME NEW p \in Ranks, NEW w \in Workers
      PROVE  /\ \A s \in Sizes : ~Prepare(p, w, s)
             /\ \A d \in Data : ~Fill(p, w, d)
             /\ \A q \in Ranks : ~Send(p, w, q)
             /\ ~FinishBuffer(p, w) /\ ~SendStep(p, w)
  BY <1>1 DEF Prepare, Fill, Send, FinishBuffer, SendStep, LockBuffer, AwaitAck, MapBuffer,
              AcquireBox, PostRequest, AwaitDelivered, ReleaseBox, At
<1>7. ASSUME NEW q \in Ranks
      PROVE  /\ ~AwaitMessage(q) /\ ~CopyPayload(q) /\ ~ClearInbox(q) /\ ~PostAck(q)
             /\ ~BeginFinalize(q) /\ ~FinalizeStep(q) /\ ~Crash(q)
  BY <1>1 DEF AwaitMessage, CopyPayload, ClearInbox, PostAck, RecvAt, BeginFinalize, FinalizeStep,
              FinalizeAwaitAck, FinalizeLock, FinalizeCount, StopAcquireBox, PostSentinel, Crash, FinAt
<1> QED
  BY <1>3, <1>4, <1>5, <1>6, <1>7 DEF ComNext, RouterStep

(* Whoever takes the mailbox has it until it returns it, or posts the      *)
(* sentinel in it.                                                         *)
LEMMA BoxHeldStep ==
  ASSUME IInv, BoxHeld, [ComNext]_comVars
  PROVE  BoxHeld'
<1>1. TypeOK /\ LockInv /\ BoxInv
  BY DEF IInv, TypeInv
<1>2. CASE SentinelPosted
  BY <1>2, SentinelStays DEF BoxHeld
<1>3. SUFFICES ASSUME ~SentinelPosted  PROVE BoxHeld'
  BY <1>2
<1>4. ASSUME NEW p \in Ranks, NEW w \in Workers,
             AcquireBox(p, w) \/ PostRequest(p, w) \/ AwaitDelivered(p, w)
      PROVE  HasBox(p)'
  BY <1>1, <1>4 DEF AcquireBox, PostRequest, AwaitDelivered, TypeOK, Goto, HasBox
<1>5. ASSUME NEW p \in Ranks, NEW w \in Workers, ReleaseBox(p, w)  PROVE box_empty' # 0
  BY <1>1, <1>5 DEF ReleaseBox, TypeOK
<1>6. ASSUME NEW p \in Ranks, StopAcquireBox(p)  PROVE HasBox(p)'
  BY <1>1, <1>6 DEF StopAcquireBox, TypeOK, HasBox
<1>7. ASSUME NEW p \in Ranks, PostSentinel(p)  PROVE SentinelPosted'
  BY <1>1, <1>7 DEF PostSentinel, TypeOK, SentinelPosted, EmptyBox
<1>8. ASSUME UNCHANGED box_empty, \A r \in Ranks : HasBox(r) => HasBox(r)'  PROVE BoxHeld'
  BY <1>3, <1>8 DEF BoxHeld
<1>9. ASSUME UNCHANGED <<box_empty, fpc>>, NEW p \in Ranks, NEW w \in Workers,
             pc[p][w] \notin {"post", "deliver", "release"},
             \E label : Goto(p, w, label)
      PROVE  BoxHeld'
  <2>1. \A r \in Ranks, v \in Workers :
          pc[r][v] \in {"post", "deliver", "release"} => pc'[r][v] = pc[r][v]
    BY <1>1, <1>9 DEF Goto, TypeOK
  <2> QED
    BY <1>8, <1>9, <2>1 DEF HasBox
<1>10. ASSUME UNCHANGED <<box_empty, fpc, pc>>  PROVE BoxHeld'
  BY <1>8, <1>10 DEF HasBox
<1>11. ASSUME UNCHANGED <<box_empty, pc>>, NEW p \in Ranks, fpc[p] # "sentinel",
              NEW label, fpc' = [fpc EXCEPT ![p] = label]
       PROVE  BoxHeld'
  <2>1. \A r \in Ranks : fpc[r] = "sentinel" => fpc'[r] = "sentinel"
    BY <1>1, <1>11 DEF TypeOK
  <2> QED
    BY <1>8, <1>11, <2>1 DEF HasBox
<1>12. ASSUME NEW p \in Ranks, NEW w \in Workers,
              \/ \E s \in Sizes : Prepare(p, w, s)
              \/ \E d \in Data : Fill(p, w, d)
              \/ \E q \in Ranks : Send(p, w, q)
              \/ FinishBuffer(p, w)
              \/ LockBuffer(p, w)
              \/ MapBuffer(p, w)
       PROVE  BoxHeld'
  <2>1. /\ UNCHANGED <<box_empty, fpc>>
        /\ pc[p][w] \notin {"post", "deliver", "release"}
        /\ \E label : Goto(p, w, label)
    BY <1>12 DEF Prepare, Fill, Send, FinishBuffer, LockBuffer, MapBuffer, At, boxVars, finVars
  <2> QED
    BY <1>9, <2>1
<1>13. ASSUME NEW p \in Ranks, BeginFinalize(p)  PROVE BoxHeld'
  <2>1. /\ UNCHANGED box_empty
        /\ fpc[p] # "sentinel" /\ fpc' = [fpc EXCEPT ![p] = "drain"]
        /\ \A w \in Workers : pc[p][w] \notin {"post", "deliver", "release"}
        /\ pc' = [pc EXCEPT ![p] = [w \in Workers |-> "idle"]]
    BY <1>13 DEF BeginFinalize, FinAt, boxVars
  <2>2. \A r \in Ranks : HasBox(r) => r # p /\ fpc'[r] = fpc[r] /\ pc'[r] = pc[r]
    BY <1>1, <2>1 DEF HasBox, TypeOK
  <2> QED
    BY <1>8, <2>1, <2>2 DEF HasBox
<1>14. ASSUME NEW p \in Ranks, FinalizeLock(p) \/ FinalizeCount(p)  PROVE BoxHeld'
  <2>1. /\ UNCHANGED <<box_empty, pc>> /\ fpc[p] # "sentinel"
        /\ \E label : fpc' = [fpc EXCEPT ![p] = label]
    BY <1>14 DEF FinalizeLock, FinalizeCount, FinAt, boxVars, threadVars
  <2> QED
    BY <1>11, <2>1
<1>15. ASSUME \/ \E p \in Ranks, w \in Workers : AwaitAck(p, w)
              \/ \E q \in Ranks : AwaitMessage(q) \/ CopyPayload(q) \/ ClearInbox(q) \/ PostAck(q)
              \/ \E p \in Ranks : FinalizeAwaitAck(p) \/ Crash(p)
              \/ RouterStep
              \/ UNCHANGED comVars
       PROVE  BoxHeld'
  <2>1. UNCHANGED <<box_empty, fpc, pc>>
    BY <1>15 DEF AwaitAck, AwaitMessage, CopyPayload, ClearInbox, PostAck, FinalizeAwaitAck, Crash,
                 RouterStep, RouterTake, RouterReserve, RouterForward, RouterConfirm,
                 comVars, boxVars, finVars, threadVars
  <2> QED
    BY <1>10, <2>1
<1>16. ASSUME (\E p \in Ranks : HasBox(p)') \/ box_empty' # 0 \/ SentinelPosted'  PROVE BoxHeld'
  BY <1>16 DEF BoxHeld
<1> QED
  BY <1>4, <1>5, <1>6, <1>7, <1>12, <1>13, <1>14, <1>15, <1>16 DEF ComNext, SendStep, FinalizeStep

(* An inbox that is taken is being written, full, or being read. *)
LEMMA InboxesHeldStep ==
  ASSUME IInv, InboxesHeld, [ComNext]_comVars
  PROVE  InboxesHeld'
<1>1. TypeOK /\ SlotInv /\ BoxInv
  BY DEF IInv, TypeInv
<1>2. ASSUME UNCHANGED <<slot_empty, slot_full, rpc>>,
             router_pc = "forward" => UNCHANGED <<router_pc, router_dest>>
      PROVE  InboxesHeld'
  BY <1>2 DEF InboxesHeld
<1>3. CASE RouterReserve
  BY <1>1, <1>3 DEF RouterReserve, TypeOK, InboxesHeld, recvVars
<1>4. CASE RouterForward
  <2>1. router_dest \in Ranks
    BY <1>1, <1>4 DEF RouterForward, BoxInv, Idle, Posted, Routing, Confirmed, Stopped
  <2>2. /\ slot_full' = [slot_full EXCEPT ![router_dest] = @ + 1]
        /\ UNCHANGED <<slot_empty, rpc>> /\ router_pc = "forward"
    BY <1>4 DEF RouterForward, recvVars
  <2>3. slot_full'[router_dest] > 0 /\ \A q \in Ranks \ {router_dest} : slot_full'[q] = slot_full[q]
    BY <1>1, <2>1, <2>2 DEF TypeOK
  <2> QED
    BY <2>2, <2>3 DEF InboxesHeld
<1>5. CASE RouterTake \/ RouterConfirm
  <2>1. UNCHANGED <<slot_empty, slot_full, rpc>> /\ router_pc # "forward"
    BY <1>5 DEF RouterTake, RouterConfirm, inboxVars, recvVars
  <2> QED
    BY <1>2, <2>1
<1>6. ASSUME NEW q \in Ranks, AwaitMessage(q) \/ CopyPayload(q)  PROVE InboxesHeld'
  <2>1. /\ rpc'[q] \in {"copy", "clear"}
        /\ \A r \in Ranks \ {q} : slot_full'[r] = slot_full[r] /\ rpc'[r] = rpc[r]
        /\ UNCHANGED <<slot_empty, router_pc, router_dest>>
    BY <1>1, <1>6 DEF AwaitMessage, CopyPayload, TypeOK, inboxVars, routerVars
  <2> QED
    BY <2>1 DEF InboxesHeld
<1>7. ASSUME NEW q \in Ranks, ClearInbox(q)  PROVE InboxesHeld'
  <2>1. /\ slot_empty'[q] = slot_empty[q] + 1 /\ slot_empty[q] \in Nat
        /\ \A r \in Ranks \ {q} : slot_empty'[r] = slot_empty[r] /\ rpc'[r] = rpc[r]
        /\ UNCHANGED <<slot_full, router_pc, router_dest>>
    BY <1>1, <1>7 DEF ClearInbox, TypeOK, routerVars
  <2>2. slot_empty'[q] # 0
    BY <2>1
  <2> QED
    BY <2>1, <2>2 DEF InboxesHeld
<1>8. ASSUME NEW q \in Ranks, PostAck(q)  PROVE InboxesHeld'
  <2>1. /\ rpc[q] = "ack"
        /\ \A r \in Ranks \ {q} : rpc'[r] = rpc[r]
        /\ UNCHANGED <<slot_empty, slot_full, router_pc, router_dest>>
    BY <1>1, <1>8 DEF PostAck, RecvAt, TypeOK, inboxVars, routerVars
  <2> QED
    BY <2>1 DEF InboxesHeld
<1>9. ASSUME \/ \E p \in Ranks, w \in Workers :
                   \/ \E s \in Sizes : Prepare(p, w, s)
                   \/ \E d \in Data : Fill(p, w, d)
                   \/ \E q \in Ranks : Send(p, w, q)
                   \/ FinishBuffer(p, w)
                   \/ SendStep(p, w)
             \/ \E p \in Ranks : BeginFinalize(p) \/ FinalizeStep(p) \/ Crash(p)
             \/ UNCHANGED comVars
      PROVE  InboxesHeld'
  <2>1. UNCHANGED <<slot_empty, slot_full, rpc, router_pc, router_dest>>
    BY <1>9 DEF Prepare, Fill, Send, FinishBuffer, SendStep, LockBuffer, AwaitAck, MapBuffer, AcquireBox,
                PostRequest, AwaitDelivered, ReleaseBox, BeginFinalize, FinalizeStep, FinalizeAwaitAck,
                FinalizeLock, FinalizeCount, StopAcquireBox, PostSentinel, Crash,
                comVars, inboxVars, recvVars, routerVars
  <2> QED
    BY <1>2, <2>1
<1> QED
  BY <1>3, <1>4, <1>5, <1>6, <1>7, <1>8, <1>9 DEF ComNext, RouterStep

(* A step that is not one of com_finalize's changes neither its lock nor   *)
(* where a process is in it.                                               *)
LEMMA FinalizeSteps ==
  ASSUME [ComNext]_comVars
  PROVE  \/ UNCHANGED <<fpc, finalize_lock>>
         \/ \E p \in Ranks : \/ BeginFinalize(p) \/ FinalizeLock(p) \/ FinalizeCount(p)
                             \/ StopAcquireBox(p) \/ PostSentinel(p)
<1>1. ASSUME \/ \E p \in Ranks, w \in Workers :
                   \/ \E s \in Sizes : Prepare(p, w, s)
                   \/ \E d \in Data : Fill(p, w, d)
                   \/ \E q \in Ranks : Send(p, w, q)
                   \/ FinishBuffer(p, w)
                   \/ SendStep(p, w)
             \/ \E q \in Ranks : AwaitMessage(q) \/ CopyPayload(q) \/ ClearInbox(q) \/ PostAck(q)
             \/ \E p \in Ranks : FinalizeAwaitAck(p) \/ Crash(p)
             \/ RouterStep
             \/ UNCHANGED comVars
      PROVE  UNCHANGED <<fpc, finalize_lock>>
  BY <1>1 DEF Prepare, Fill, Send, FinishBuffer, SendStep, LockBuffer, AwaitAck, MapBuffer, AcquireBox,
              PostRequest, AwaitDelivered, ReleaseBox, AwaitMessage, CopyPayload, ClearInbox, PostAck,
              FinalizeAwaitAck, Crash, RouterStep, RouterTake, RouterReserve, RouterForward,
              RouterConfirm, comVars, finVars
<1> QED
  BY <1>1 DEF ComNext, FinalizeStep

(* The shutdown lock is held by the process that counts itself, and the    *)
(* process that counts up to NProc goes on to stop the router.             *)
LEMMA ShutdownHeldStep ==
  ASSUME IInv, FinalizeLockHeld, RouterIsTold, [ComNext]_comVars
  PROVE  FinalizeLockHeld' /\ RouterIsTold'
<1>1. TypeOK /\ FinInv
  BY DEF IInv, TypeInv
<1>2. CASE UNCHANGED <<fpc, finalize_lock>>
  <2>1. RouterIsTold'
    BY <1>2, SentinelStays DEF RouterIsTold
  <2> QED
    BY <1>2, <2>1 DEF FinalizeLockHeld
<1>3. ASSUME NEW p \in Ranks, NEW to, fpc' = [fpc EXCEPT ![p] = to]
      PROVE  fpc'[p] = to /\ \A r \in Ranks \ {p} : fpc'[r] = fpc[r]
  BY <1>1, <1>3 DEF TypeOK
<1>4. ASSUME NEW p \in Ranks, BeginFinalize(p)  PROVE FinalizeLockHeld' /\ RouterIsTold'
  <2>1. fpc[p] = "run" /\ fpc' = [fpc EXCEPT ![p] = "drain"] /\ UNCHANGED finalize_lock
    BY <1>4 DEF BeginFinalize, FinAt
  <2>2. fpc'[p] = "drain" /\ \A r \in Ranks \ {p} : fpc'[r] = fpc[r]
    BY <1>3, <2>1
  <2> QED
    BY <2>1, <2>2 DEF FinalizeLockHeld, RouterIsTold
<1>5. ASSUME NEW p \in Ranks, FinalizeLock(p)  PROVE FinalizeLockHeld' /\ RouterIsTold'
  <2>1. fpc' = [fpc EXCEPT ![p] = "count"]
    BY <1>5 DEF FinalizeLock
  <2>2. fpc'[p] = "count"
    BY <1>3, <2>1
  <2> QED
    BY <2>2 DEF FinalizeLockHeld, RouterIsTold
<1>6. ASSUME NEW p \in Ranks, FinalizeCount(p)  PROVE FinalizeLockHeld' /\ RouterIsTold'
  <2>1. fpc[p] = "count" /\ finalize_lock' = finalize_lock + 1 /\ finalize_lock \in Nat
    BY <1>1, <1>6 DEF FinalizeCount, FinAt, TypeOK
  <2>2. FinalizeLockHeld'
    BY <2>1 DEF FinalizeLockHeld
  <2>3. CASE IsLast
    <3>1. fpc' = [fpc EXCEPT ![p] = "stop"]
      BY <1>6, <2>3 DEF FinalizeCount
    <3>2. fpc'[p] = "stop"
      BY <1>3, <3>1
    <3> QED
      BY <2>2, <3>2 DEF RouterIsTold
  <2>4. CASE ~IsLast
    <3>1. Cardinality(Counted \cup {p}) # NProc
      <4>1. p \notin Counted
        BY <2>1 DEF Counted
      <4>2. Cardinality(Counted \cup {p}) = Cardinality(Counted) + 1
        BY <4>1, CountedAdd
      <4> QED
        BY <1>1, <2>4, <4>2 DEF IsLast, FinInv
    <3>2. PICK r \in Ranks : r \notin Counted \cup {p}
      <4>1. Counted \cup {p} # Ranks
        BY <3>1, RanksFinite
      <4> QED
        BY <4>1, CountedFinite
    <3>3. fpc' = [fpc EXCEPT ![p] = "gone"]
      BY <1>6, <2>4 DEF FinalizeCount
    <3>4. fpc'[r] \notin {"stop", "sentinel", "gone"}
      BY <1>3, <3>2, <3>3 DEF Counted
    <3> QED
      BY <2>2, <3>4 DEF RouterIsTold
  <2> QED
    BY <2>3, <2>4
<1>7. ASSUME NEW p \in Ranks, StopAcquireBox(p)  PROVE FinalizeLockHeld' /\ RouterIsTold'
  <2>1. fpc[p] = "stop" /\ fpc' = [fpc EXCEPT ![p] = "sentinel"] /\ UNCHANGED finalize_lock
    BY <1>7 DEF StopAcquireBox, FinAt
  <2>2. fpc'[p] = "sentinel" /\ \A r \in Ranks \ {p} : fpc'[r] = fpc[r]
    BY <1>3, <2>1
  <2> QED
    BY <2>1, <2>2 DEF FinalizeLockHeld, RouterIsTold
<1>8. ASSUME NEW p \in Ranks, PostSentinel(p)  PROVE FinalizeLockHeld' /\ RouterIsTold'
  <2>1. fpc[p] = "sentinel" /\ fpc' = [fpc EXCEPT ![p] = "gone"] /\ UNCHANGED finalize_lock
    BY <1>8 DEF PostSentinel, FinAt
  <2>2. fpc'[p] = "gone" /\ \A r \in Ranks \ {p} : fpc'[r] = fpc[r]
    BY <1>3, <2>1
  <2>3. SentinelPosted'
    BY <1>1, <1>8 DEF PostSentinel, TypeOK, SentinelPosted, EmptyBox
  <2> QED
    BY <2>1, <2>2, <2>3 DEF FinalizeLockHeld, RouterIsTold
<1> QED
  BY <1>2, <1>4, <1>5, <1>6, <1>7, <1>8, FinalizeSteps

(* At the start nothing is taken. *)
LEMMA PermitsInit == ComInit => PermitsHeld
<1> SUFFICES ASSUME ComInit  PROVE PermitsHeld
  OBVIOUS
<1>1. 0 \in Ranks
  <2>1. PICK N \in Nat \ {0} : N = NProc
    BY ComAssumption
  <2> QED
    BY <2>1 DEF Ranks
<1>2. fpc[0] = "run"
  BY <1>1 DEF ComInit
<1> QED
  BY <1>1, <1>2 DEF ComInit, PermitsHeld, BoxHeld, InboxesHeld, FinalizeLockHeld, RouterIsTold

(* Every step keeps what is taken in somebody's hands. *)
LEMMA PermitsStep ==
  ASSUME IInv, PermitsHeld, [ComNext]_comVars
  PROVE  PermitsHeld'
BY BoxHeldStep, InboxesHeldStep, ShutdownHeldStep DEF PermitsHeld

(* Whatever the threads, the router and com_finalize do, and whoever dies, *)
(* the mailbox, the inboxes and the shutdown lock are never taken without  *)
(* a holder (com.c:454-477, 667-679, 702-715, 770-791).                    *)
THEOREM NoPermitLost == ComSpec => []PermitsHeld
<1>1. ComInit => PermitsHeld
  BY PermitsInit
<1>2. IInv /\ PermitsHeld /\ [ComNext]_comVars => PermitsHeld'
  BY PermitsStep
<1> QED
  BY <1>1, <1>2, Inductive, PTL DEF ComSpec

(* When no receiver has anything to do, no other thread is kept waiting    *)
(* inside the layer: only a send buffer that somebody is using keeps       *)
(* others from it.  And when all processes have left, the router stops.    *)
LEMMA LayerIdle ==
  ASSUME IInv, PermitsHeld,
         \A q \in Ranks : rpc[q] = "idle" /\ slot_full[q] = 0,
         ~RouterReady,
         \A p \in Ranks : ~FinalizeReady(p) /\ \A w \in Workers : ~SendStepReady(p, w)
  PROVE  /\ \A p \in Ranks : fpc[p] \in {"run", "gone"}
         /\ \A p \in Ranks, w \in Workers :
              /\ pc[p][w] \in {"idle", "lock", "fill", "ready"}
              /\ pc[p][w] = "lock" => \E v \in Workers : pc[p][v] \in {"fill", "ready"}
         /\ ~InTransit /\ \A q \in Ranks : inbox[q] = EmptyInbox
         /\ (\A p \in Ranks : fpc[p] = "gone") => router_pc = "stopped"
<1>1. TypeOK /\ LockInv /\ BoxInv /\ SlotInv /\ FinInv
  BY DEF IInv, TypeInv
<1>2. \A q \in Ranks : inbox[q] = EmptyInbox
  BY <1>1 DEF SlotInv, Reading
<1>3. box_full = 0 /\ router_pc \notin {"reserve", "forward", "confirm"}
  <2>1. router_pc \notin {"forward", "confirm"}
    BY DEF RouterReady
  <2>2. ASSUME router_pc = "reserve"  PROVE FALSE
    <3>1. router_dest \in Ranks
      BY <1>1, <2>2 DEF BoxInv, Idle, Posted, Routing, Confirmed, Stopped
    <3>2. slot_empty[router_dest] = 0
      BY <1>1, <2>2, <3>1 DEF RouterReady, SlotInv
    <3>3. slot_full[router_dest] = 0 /\ rpc[router_dest] = "idle"
      BY <3>1
    <3> QED
      BY <2>2, <3>1, <3>2, <3>3 DEF PermitsHeld, InboxesHeld
  <2>3. box_full = 0
    BY <1>1, <2>1, <2>2 DEF BoxInv, Idle, Posted, Routing, Confirmed, Stopped, RouterReady
  <2> QED
    BY <2>1, <2>2, <2>3
<1>4. ~InTransit
  BY <1>3 DEF InTransit
<1>5. \A p \in Ranks, w \in Workers : pc[p][w] \notin Holding
  <2> SUFFICES ASSUME NEW p \in Ranks, NEW w \in Workers, pc[p][w] \in Holding  PROVE FALSE
    OBVIOUS
  <2>1. pc[p][w] = "deliver"
    BY DEF Holding, SendStepReady
  <2>2. Confirmed
    BY <1>1, <1>3, <2>1 DEF BoxInv, Idle, Posted, Routing, Confirmed, Stopped
  <2>3. box_delivered > 0
    BY <2>2 DEF Confirmed
  <2> QED
    BY <2>1, <2>3 DEF SendStepReady
<1>6. \A p \in Ranks : fpc[p] # "sentinel" /\ fpc[p] # "count"
  BY DEF FinalizeReady
<1>7. SentinelPosted \/ box_empty > 0
  <2>1. \A p \in Ranks : ~HasBox(p)
    BY <1>5, <1>6 DEF HasBox, Holding
  <2> QED
    BY <1>1, <2>1 DEF PermitsHeld, BoxHeld, BoxInv
<1>8. SentinelPosted => router_pc = "stopped"
  BY <1>3 DEF SentinelPosted
<1>9. CASE SentinelPosted
  BY <1>2, <1>4, <1>8, <1>9, AfterSentinel
<1>10. CASE ~SentinelPosted
  <2>1. box_empty > 0
    BY <1>7, <1>10
  <2>2. \A p \in Ranks : pending_acks[p] > 0 => ack_full[p] > 0
    <3> SUFFICES ASSUME NEW p \in Ranks, pending_acks[p] > 0  PROVE ack_full[p] > 0
      OBVIOUS
    <3>1. Unread(p) = {} /\ Acknowledging(p) = {}
      BY <1>2, NoRankNotRank DEF Unread, Acknowledging, EmptyInbox
    <3>2. pending_acks[p] + Uncounted(p) = ack_full[p]
      <4>1. Cardinality(Unread(p)) = 0 /\ Cardinality(Acknowledging(p)) = 0
        BY <3>1, FS_EmptySet
      <4> QED
        BY <1>1, <4>1 DEF IInv, AcksBalance, TypeOK
    <3>3. pending_acks[p] \in Nat /\ Uncounted(p) \in {0, 1}
      BY <1>1, UncountedType DEF TypeOK
    <3> QED
      BY <3>2, <3>3
  <2>3. \A p \in Ranks : pending_acks[p] \in Nat
    BY <1>1 DEF TypeOK
  <2>4. \A p \in Ranks : Drained(p) \/ ack_full[p] > 0
    BY <2>2, <2>3 DEF Drained
  <2>5. finalize_lock > 0
    BY <1>1, <1>6 DEF PermitsHeld, FinalizeLockHeld, FinInv
  <2>6. \A p \in Ranks : fpc[p] \in {"run", "gone"}
    <3> TAKE p \in Ranks
    <3>1. fpc[p] # "stop"
      BY <2>1 DEF FinalizeReady
    <3>2. fpc[p] # "drain"
      BY <2>4, <2>5 DEF FinalizeReady
    <3> QED
      BY <1>1, <1>6, <3>1, <3>2 DEF TypeOK
  <2>7. \A p \in Ranks, w \in Workers : pc[p][w] \in {"idle", "lock", "fill", "ready"}
    <3> TAKE p \in Ranks, w \in Workers
    <3>1. pc[p][w] # "drain" /\ pc[p][w] # "box"
      BY <2>1, <2>4 DEF SendStepReady
    <3>2. pc[p][w] \in Callers
      BY <1>1 DEF TypeOK
    <3> QED
      BY <1>5, <3>1, <3>2 DEF Callers, Holding
  <2>8. ASSUME NEW p \in Ranks, NEW w \in Workers, pc[p][w] = "lock"
        PROVE  \E v \in Workers : pc[p][v] \in {"fill", "ready"}
    <3>1. PICK v : v \in send_buffer_lock[p]
      BY <2>8 DEF SendStepReady
    <3>2. v \in Workers
      BY <1>1, <3>1 DEF TypeOK
    <3>3. pc[p][v] \in Locked
      BY <1>1, <3>1, <3>2 DEF LockInv
    <3> QED
      BY <2>7, <3>2, <3>3 DEF Locked
  <2>9. ~(\A p \in Ranks : fpc[p] = "gone")
    <3>1. \A p \in Ranks : fpc[p] \notin {"stop", "sentinel"}
      BY <2>6
    <3> QED
      BY <1>10, <3>1 DEF PermitsHeld, RouterIsTold
  <2> QED
    BY <1>2, <1>4, <2>6, <2>7, <2>8, <2>9
<1> QED
  BY <1>9, <1>10

-----------------------------------------------------------------------------
(* Com implements PostOffice: posting a request into the central mailbox   *)
(* is Accept, the end of the copy is Hand, the acknowledgement is Return,  *)
(* and every other step of com.c changes neither a box nor what com_recv   *)
(* hands out.                                                              *)

(* A sequence of one or two elements made by Append. *)
LEMMA AppendToShort ==
  ASSUME NEW x, NEW y
  PROVE  Append(<<>>, y) = <<y>> /\ Append(<<x>>, y) = <<x, y>>
<1> DEFINE S == {x, y}
<1>1. <<>> \in Seq(S) /\ <<x>> \in Seq(S) /\ <<y>> \in Seq(S) /\ <<x, y>> \in Seq(S)
  OBVIOUS
<1>2. Append(<<>>, y) = <<y>>
  BY <1>1, AppendProperties, SeqEqual
<1>3. Append(<<x>>, y) \in Seq(S) /\ Len(Append(<<x>>, y)) = 2
  BY <1>1, AppendProperties
<1>4. Append(<<x>>, y)[1] = x /\ Append(<<x>>, y)[2] = y
  BY <1>1, AppendProperties
<1>5. \A i \in 1 .. 2 : Append(<<x>>, y)[i] = <<x, y>>[i]
  BY <1>4
<1> HIDE DEF S
<1>6. Append(<<x>>, y) = <<x, y>>
  BY <1>1, <1>3, <1>5, SeqEqual
<1> QED
  BY <1>2, <1>6

(* The sequences a box can be: an inbox's message, then a mailbox's. *)
LEMMA ConcatShort ==
  ASSUME NEW x, NEW y
  PROVE  /\ <<>> \o <<>> = <<>> /\ <<x>> \o <<>> = <<x>>
         /\ <<>> \o <<y>> = <<y>> /\ <<x>> \o <<y>> = <<x, y>>
<1> DEFINE S == {x, y}
<1>1. <<>> \in Seq(S) /\ <<x>> \in Seq(S) /\ <<y>> \in Seq(S) /\ <<x, y>> \in Seq(S)
  OBVIOUS
<1> QED
  BY <1>1, ConcatEmptySeq, AppendIsConcat, AppendToShort

BoxLetters(q) == InboxLetters(q) \o MailboxLetters(q)

(* A step that changes no box and hands out nothing is a stuttering step   *)
(* of PostOffice.                                                          *)
LEMMA StepStutters ==
  ASSUME \A q \in Ranks : BoxLetters(q)' = BoxLetters(q) /\ HandedLetters(q)' = HandedLetters(q)
  PROVE  UNCHANGED PO!poVars
BY DEF PO!poVars, BoxLetters

(* The letters are made of the segments, the inboxes, the mailbox and what *)
(* the router and the receivers do with them.                              *)
LEMMA LettersSame ==
  ASSUME UNCHANGED <<segment, inbox, server_box, InTransit, rpc, rcv>>
  PROVE  UNCHANGED PO!poVars
<1>1. \A m : Content(m)' = Content(m) /\ Letter(m)' = Letter(m)
  BY DEF Content, Letter
<1>2. \A q : /\ InboxLetters(q)' = InboxLetters(q)
             /\ MailboxLetters(q)' = MailboxLetters(q)
             /\ HandedLetters(q)' = HandedLetters(q)
  BY DEF InboxLetters, MailboxLetters, HandedLetters, Letter, Content
<1> QED
  BY <1>2, StepStutters DEF BoxLetters

(* A well-typed letter of a rank is a message of PostOffice. *)
LEMMA LetterIsMessage ==
  ASSUME TypeInv, NEW p \in Ranks, NEW w \in Workers
  PROVE  [src |-> p, payload |-> Content(RequestOf(p, w))] \in PO!Messages
<1>1. Content(RequestOf(p, w)) \in Payloads
  BY DEF TypeInv, TypeOK, Content, RequestOf, Payloads
<1> QED
  BY <1>1 DEF PO!Messages

(* Writing the payload changes no letter: nobody still has to read the     *)
(* segment (com.c:596).                                                    *)
LEMMA FillStutters ==
  ASSUME TypeInv, SegmentQuiet, NEW p \in Ranks, NEW w \in Workers, NEW d \in Data,
         Fill(p, w, d)
  PROVE  UNCHANGED PO!poVars
<1>1. /\ pc[p][w] = "fill"
      /\ segment' = [segment EXCEPT ![p] = d]
      /\ UNCHANGED <<inbox, server_box, box_full, router_pc, rpc, rcv>>
  BY DEF Fill, At, boxVars, inboxVars, recvVars, routerVars
<1>2. /\ \A q \in Ranks : inbox[q].shm_name # p
      /\ ~(InTransit /\ server_box.shm_name = p)
  BY <1>1 DEF SegmentQuiet, Reads
<1>3. \A r : r # p => segment'[r] = segment[r]
  BY <1>1 DEF TypeInv, TypeOK
<1>4. \A q \in Ranks : Letter(inbox[q])' = Letter(inbox[q])
  BY <1>1, <1>2, <1>3 DEF Letter, Content
<1>5. InTransit => Letter(server_box)' = Letter(server_box)
  BY <1>1, <1>2, <1>3 DEF Letter, Content
<1>6. InTransit' = InTransit
  BY <1>1 DEF InTransit
<1>7. \A q \in Ranks : /\ InboxLetters(q)' = InboxLetters(q)
                       /\ MailboxLetters(q)' = MailboxLetters(q)
                       /\ HandedLetters(q)' = HandedLetters(q)
  BY <1>1, <1>4, <1>5, <1>6 DEF InboxLetters, MailboxLetters, HandedLetters
<1> QED
  BY <1>7, StepStutters DEF BoxLetters

(* Changes to one box. *)
LEMMA BoxUpdate ==
  ASSUME NEW q \in Ranks, NEW b,
         BoxLetters(q)' = b,
         \A r \in Ranks \ {q} : BoxLetters(r)' = BoxLetters(r)
  PROVE  [r \in Ranks |-> InboxLetters(r) \o MailboxLetters(r)]' =
           [[r \in Ranks |-> InboxLetters(r) \o MailboxLetters(r)] EXCEPT ![q] = b]
BY DEF BoxLetters

(* What a receiver was handed is updated for one receiver at a time. *)
LEMMA HandedUpdate ==
  ASSUME NEW q \in Ranks, NEW b,
         HandedLetters(q)' = b,
         \A r \in Ranks \ {q} : HandedLetters(r)' = HandedLetters(r)
  PROVE  [r \in Ranks |-> HandedLetters(r)]' =
           [[r \in Ranks |-> HandedLetters(r)] EXCEPT ![q] = b]
OBVIOUS

(* com_send posts its request: the letter joins the box of its destination *)
(* (com.c:667-675).                                                        *)
LEMMA RequestPosted ==
  ASSUME IInv, NEW p \in Ranks, NEW w \in Workers, PostRequest(p, w),
         NEW q \in Ranks, q = call[p][w].dest,
         NEW m, m = [src |-> p, payload |-> Content(RequestOf(p, w))]
  PROVE  /\ BoxLetters(q)' = Append(BoxLetters(q), m)
         /\ \A r \in Ranks \ {q} : BoxLetters(r)' = BoxLetters(r)
         /\ \A r \in Ranks : HandedLetters(r)' = HandedLetters(r)
<1>1. pc[p][w] = "post" /\ Idle
  BY DEF PostRequest, At, IInv, BoxInv
<1>2. /\ server_box' = RequestOf(p, w)
      /\ box_full' = box_full + 1
      /\ UNCHANGED <<segment, inbox, router_pc, rpc, rcv>>
  BY DEF PostRequest, RequestOf, inboxVars, segVars, recvVars, routerVars
<1>3. ~InTransit /\ InTransit'
  BY <1>1, <1>2 DEF Idle, InTransit
<1>4. \A x : Content(x)' = Content(x) /\ Letter(x)' = Letter(x)
  BY <1>2 DEF Content, Letter
<1>5. \A r : InboxLetters(r)' = InboxLetters(r) /\ HandedLetters(r)' = HandedLetters(r)
  BY <1>2, <1>4 DEF InboxLetters, HandedLetters, Letter, Content
<1>6. \A r : MailboxLetters(r) = <<>>
  BY <1>3 DEF MailboxLetters
<1>7. \A r \in Ranks \ {q} : MailboxLetters(r)' = <<>>
  BY <1>2 DEF MailboxLetters, RequestOf
<1>8. MailboxLetters(q)' = <<m>>
  <2>1. server_box'.dest_rank = q /\ server_box'.src_rank = p
    BY <1>2 DEF RequestOf
  <2>2. Letter(server_box)' = <<m>>
    BY <1>2, <2>1 DEF Letter, Content
  <2> QED
    BY <1>3, <2>1, <2>2 DEF MailboxLetters
<1>9. BoxLetters(q)' = Append(BoxLetters(q), m)
  <2>1. CASE InboxLetters(q) = <<>>
    BY <1>5, <1>6, <1>8, <2>1, AppendToShort, ConcatShort DEF BoxLetters
  <2>2. ASSUME NEW x, InboxLetters(q) = <<x>>
        PROVE  BoxLetters(q)' = Append(BoxLetters(q), m)
    <3>1. BoxLetters(q) = <<x>>
      BY <1>6, <2>2, ConcatShort DEF BoxLetters
    <3>2. BoxLetters(q)' = <<x, m>>
      BY <1>5, <1>8, <2>2, ConcatShort DEF BoxLetters
    <3> QED
      BY <3>1, <3>2, AppendToShort
  <2> QED
    BY <2>1, <2>2 DEF InboxLetters, Letter
<1>10. \A r \in Ranks \ {q} : BoxLetters(r)' = BoxLetters(r)
  BY <1>5, <1>6, <1>7 DEF BoxLetters
<1> QED
  BY <1>5, <1>9, <1>10

(* PostOffice accepts what is posted. *)
LEMMA PostRequestAccepts ==
  ASSUME IInv, NEW p \in Ranks, NEW w \in Workers, PostRequest(p, w)
  PROVE  PO!Next
<1>1. call[p][w].dest \in Ranks
  BY DEF PostRequest, At, IInv, BufferInv, Holding
<1> PICK q \in Ranks : q = call[p][w].dest
  BY <1>1
<1> PICK m \in PO!Messages : m = [src |-> p, payload |-> Content(RequestOf(p, w))]
  BY LetterIsMessage DEF IInv
<1>2. /\ BoxLetters(q)' = Append(BoxLetters(q), m)
      /\ \A r \in Ranks \ {q} : BoxLetters(r)' = BoxLetters(r)
      /\ \A r \in Ranks : HandedLetters(r)' = HandedLetters(r)
  BY RequestPosted
<1>3. PO!Accept(q, m)
  <2>1. [r \in Ranks |-> InboxLetters(r) \o MailboxLetters(r)]' =
          [[r \in Ranks |-> InboxLetters(r) \o MailboxLetters(r)] EXCEPT ![q] = Append(BoxLetters(q), m)]
    BY <1>2, BoxUpdate
  <2> QED
    BY ZenonT(40), <1>2, <2>1 DEF PO!Accept, BoxLetters
<1> QED
  BY <1>3 DEF PO!Next

(* com_recv has copied the payload of the first letter (com.c:702-722). *)
LEMMA LetterCopied ==
  ASSUME IInv, NEW q \in Ranks, CopyPayload(q),
         NEW m, m = [src |-> inbox[q].src_rank, payload |-> Content(inbox[q])]
  PROVE  /\ BoxLetters(q) # <<>> /\ Head(BoxLetters(q)) = m
         /\ BoxLetters(q)' = Tail(BoxLetters(q))
         /\ \A r \in Ranks \ {q} : BoxLetters(r)' = BoxLetters(r)
         /\ HandedLetters(q) = <<>> /\ HandedLetters(q)' = <<m>>
         /\ \A r \in Ranks \ {q} : HandedLetters(r)' = HandedLetters(r)
<1>1. /\ rpc[q] = "copy" /\ Valid(q)
      /\ rcv[q].sender_rank = inbox[q].src_rank
  BY DEF CopyPayload, RecvAt, IInv, SlotInv, Reading
<1>2. inbox[q] # EmptyInbox
  BY <1>1, NoRankNotRank DEF Valid, EmptyInbox
<1>3. /\ rpc' = [rpc EXCEPT ![q] = "clear"]
      /\ UNCHANGED <<segment, inbox, server_box, box_full, router_pc>>
  BY DEF CopyPayload, boxVars, inboxVars, segVars, routerVars
<1>4. rcv' = [rcv EXCEPT ![q] = [sender_rank |-> rcv[q].sender_rank,
                                 sender_msg_id |-> rcv[q].sender_msg_id, size |-> rcv[q].size,
                                 msg |-> Content(inbox[q])]]
  BY DEF CopyPayload, Content
<1>5. /\ rpc'[q] = "clear" /\ rcv'[q].sender_rank = inbox[q].src_rank
      /\ rcv'[q].msg = Content(inbox[q])
      /\ \A r \in Ranks \ {q} : rpc'[r] = rpc[r] /\ rcv'[r] = rcv[r]
  BY <1>1, <1>3, <1>4 DEF IInv, TypeInv, TypeOK
<1>6. InboxLetters(q) = <<m>> /\ InboxLetters(q)' = <<>> /\ HandedLetters(q) = <<>>
  BY <1>1, <1>2, <1>5 DEF InboxLetters, HandedLetters, Letter
<1>7. HandedLetters(q)' = <<m>>
  BY <1>5 DEF HandedLetters
<1>8. \A r : MailboxLetters(r)' = MailboxLetters(r)
  BY <1>3 DEF MailboxLetters, InTransit, Letter, Content
<1>9. \A r \in Ranks \ {q} :
        InboxLetters(r)' = InboxLetters(r) /\ HandedLetters(r)' = HandedLetters(r)
  BY <1>3, <1>5 DEF InboxLetters, HandedLetters, Letter, Content
<1>10. /\ BoxLetters(q) # <<>> /\ Head(BoxLetters(q)) = m
       /\ BoxLetters(q)' = Tail(BoxLetters(q))
  <2>1. CASE MailboxLetters(q) = <<>>
    BY <1>6, <1>8, <2>1, ConcatShort DEF BoxLetters
  <2>2. ASSUME NEW x, MailboxLetters(q) = <<x>>
        PROVE  <1>10!1 /\ <1>10!2
    BY <1>6, <1>8, <2>2, ConcatShort DEF BoxLetters
  <2> QED
    BY <2>1, <2>2 DEF MailboxLetters, Letter
<1>11. \A r \in Ranks \ {q} : BoxLetters(r)' = BoxLetters(r)
  BY <1>8, <1>9 DEF BoxLetters
<1> QED
  BY <1>6, <1>7, <1>9, <1>10, <1>11

(* PostOffice hands out what is copied. *)
LEMMA CopyHands ==
  ASSUME IInv, NEW q \in Ranks, CopyPayload(q)
  PROVE  PO!Next
<1> PICK m : m = [src |-> inbox[q].src_rank, payload |-> Content(inbox[q])]
  OBVIOUS
<1>1. /\ BoxLetters(q) # <<>> /\ Head(BoxLetters(q)) = m
      /\ BoxLetters(q)' = Tail(BoxLetters(q))
      /\ \A r \in Ranks \ {q} : BoxLetters(r)' = BoxLetters(r)
      /\ HandedLetters(q) = <<>> /\ HandedLetters(q)' = <<m>>
      /\ \A r \in Ranks \ {q} : HandedLetters(r)' = HandedLetters(r)
  BY LetterCopied
<1>2. PO!Hand(q)
  <2>1. [r \in Ranks |-> InboxLetters(r) \o MailboxLetters(r)]' =
          [[r \in Ranks |-> InboxLetters(r) \o MailboxLetters(r)] EXCEPT ![q] = Tail(BoxLetters(q))]
    BY <1>1, BoxUpdate
  <2>2. [r \in Ranks |-> HandedLetters(r)]' = [[r \in Ranks |-> HandedLetters(r)] EXCEPT ![q] = <<m>>]
    BY <1>1, HandedUpdate
  <2> QED
    BY <1>1, <2>1, <2>2 DEF PO!Hand, BoxLetters
<1> QED
  BY <1>2 DEF PO!Next

(* com_recv has acknowledged: PostOffice's com_recv returns (com.c:724-731). *)
LEMMA AckReturns ==
  ASSUME IInv, NEW q \in Ranks, PostAck(q)
  PROVE  PO!Next
<1>1. /\ rpc[q] = "ack" /\ rpc' = [rpc EXCEPT ![q] = "idle"]
      /\ rcv' = [rcv EXCEPT ![q] = NoMessage]
      /\ UNCHANGED <<segment, inbox, server_box, box_full, router_pc>>
  BY DEF PostAck, RecvAt, boxVars, inboxVars, segVars, routerVars
<1>2. /\ rpc'[q] = "idle"
      /\ \A r \in Ranks \ {q} : rpc'[r] = rpc[r] /\ rcv'[r] = rcv[r]
  BY <1>1 DEF IInv, TypeInv, TypeOK
<1>3. \A r \in Ranks : /\ InboxLetters(r)' = InboxLetters(r)
                       /\ MailboxLetters(r)' = MailboxLetters(r)
  BY <1>1, <1>2 DEF InboxLetters, MailboxLetters, InTransit, Letter, Content
<1>4. \A r \in Ranks \ {q} : HandedLetters(r)' = HandedLetters(r)
  BY <1>2 DEF HandedLetters
<1>5. HandedLetters(q) # <<>> /\ HandedLetters(q)' = <<>>
  BY <1>1, <1>2 DEF HandedLetters
<1>6. PO!Return(q)
  BY <1>3, <1>4, <1>5, HandedUpdate DEF PO!Return
<1> QED
  BY <1>6 DEF PO!Next

(* The inbox is cleared when its message was already handed out            *)
(* (com.c:723).                                                            *)
LEMMA ClearStutters ==
  ASSUME IInv, NEW q \in Ranks, ClearInbox(q)
  PROVE  UNCHANGED PO!poVars
<1>1. /\ rpc[q] = "clear" /\ rpc' = [rpc EXCEPT ![q] = "ack"]
      /\ inbox' = [inbox EXCEPT ![q] = EmptyInbox]
      /\ UNCHANGED <<segment, server_box, box_full, router_pc, rcv>>
  BY DEF ClearInbox, RecvAt, boxVars, segVars, routerVars
<1>2. /\ rpc'[q] = "ack" /\ inbox'[q] = EmptyInbox
      /\ \A r \in Ranks \ {q} : rpc'[r] = rpc[r] /\ inbox'[r] = inbox[r]
  BY <1>1 DEF IInv, TypeInv, TypeOK
<1>3. \A r \in Ranks : InboxLetters(r)' = InboxLetters(r)
  BY <1>1, <1>2 DEF InboxLetters, Letter, Content
<1>4. \A r \in Ranks : HandedLetters(r)' = HandedLetters(r)
  BY <1>1, <1>2 DEF HandedLetters
<1>5. \A r \in Ranks : MailboxLetters(r)' = MailboxLetters(r)
  BY <1>1 DEF MailboxLetters, InTransit, Letter, Content
<1> QED
  BY <1>3, <1>4, <1>5, StepStutters DEF BoxLetters

(* The receiver that begins to copy still has the message in its inbox     *)
(* (com.c:702-709).                                                        *)
LEMMA AwaitMessageStutters ==
  ASSUME IInv, NEW q \in Ranks, AwaitMessage(q)
  PROVE  UNCHANGED PO!poVars
<1>1. /\ rpc[q] = "idle" /\ rpc' = [rpc EXCEPT ![q] = "copy"]
      /\ \A r \in Ranks \ {q} : rcv'[r] = rcv[r]
      /\ UNCHANGED <<segment, inbox, server_box, box_full, router_pc>>
  BY DEF AwaitMessage, RecvAt, boxVars, segVars, routerVars, IInv, TypeInv, TypeOK
<1>2. rpc'[q] = "copy" /\ \A r \in Ranks \ {q} : rpc'[r] = rpc[r]
  BY <1>1 DEF IInv, TypeInv, TypeOK
<1>3. \A r \in Ranks : /\ InboxLetters(r)' = InboxLetters(r)
                       /\ MailboxLetters(r)' = MailboxLetters(r)
  BY <1>1, <1>2 DEF InboxLetters, MailboxLetters, InTransit, Letter, Content
<1>4. \A r \in Ranks : HandedLetters(r)' = HandedLetters(r)
  BY <1>1, <1>2 DEF HandedLetters
<1> QED
  BY <1>3, <1>4, StepStutters DEF BoxLetters

(* The router that takes a request has not moved it yet; the sentinel is a *)
(* letter to nobody (com.c:454-464).                                       *)
LEMMA TakeStutters ==
  ASSUME IInv, RouterTake
  PROVE  UNCHANGED PO!poVars
<1>1. /\ box_full = 1 /\ router_pc = "wait" /\ box_full' = 0
      /\ UNCHANGED <<segment, inbox, server_box, rpc, rcv>>
      /\ router_pc' = IF server_box.dest_rank = NoRank THEN "stopped" ELSE "reserve"
  BY DEF RouterTake, inboxVars, segVars, recvVars, IInv, BoxInv, Idle, Posted, Routing,
         Confirmed, Stopped
<1>2. \A m : Content(m)' = Content(m) /\ Letter(m)' = Letter(m)
  BY <1>1 DEF Content, Letter
<1>3. \A r \in Ranks : MailboxLetters(r)' = MailboxLetters(r)
  BY <1>1, <1>2, NoRankNotRank DEF MailboxLetters, InTransit
<1>4. \A r \in Ranks : /\ InboxLetters(r)' = InboxLetters(r)
                       /\ HandedLetters(r)' = HandedLetters(r)
  BY <1>1, <1>2 DEF InboxLetters, HandedLetters
<1> QED
  BY <1>3, <1>4, StepStutters DEF BoxLetters

(* The router moves the letter from the mailbox to the inbox, which is     *)
(* empty: the box of the destination stays the same (com.c:469-474).       *)
LEMMA ForwardStutters ==
  ASSUME IInv, RouterForward
  PROVE  UNCHANGED PO!poVars
<1>1. router_pc = "forward" /\ Routing
  BY DEF RouterForward, IInv, BoxInv, Idle, Posted, Routing, Confirmed, Stopped
<1> PICK q \in Ranks : q = router_dest
  BY <1>1 DEF Routing
<1>2. /\ inbox' = [inbox EXCEPT ![q] =
                     [src_rank |-> server_box.src_rank, msg_id |-> server_box.msg_id,
                      size |-> server_box.size, shm_name |-> server_box.shm_name]]
      /\ router_pc' = "confirm" /\ box_full' = 0
      /\ UNCHANGED <<segment, server_box, rpc, rcv>>
  BY <1>1 DEF RouterForward, boxVars, segVars, recvVars, Routing
<1>3. inbox[q] = EmptyInbox /\ rpc[q] # "clear"
  BY <1>1 DEF IInv, SlotInv, Forwarding, Reading
<1>4. server_box.src_rank \in Ranks
  <2>1. ~Idle /\ ~Closed
    BY <1>1 DEF Idle, Closed, Posted, Stopped
  <2> QED
    BY <2>1 DEF IInv, BoxInv, Delivering, RequestOf
<1>5. \A r \in Ranks \ {q} : inbox'[r] = inbox[r]
  BY <1>2 DEF IInv, TypeInv, TypeOK
<1>6. /\ inbox'[q].src_rank = server_box.src_rank /\ inbox'[q].size = server_box.size
      /\ inbox'[q].shm_name = server_box.shm_name
  BY <1>2 DEF IInv, TypeInv, TypeOK
<1>7. inbox'[q] # EmptyInbox
  BY <1>4, <1>6, NoRankNotRank DEF EmptyInbox
<1>8. <<[src |-> inbox'[q].src_rank,
         payload |-> IF inbox'[q].size = 0 THEN Blank ELSE segment'[inbox'[q].shm_name]]>>
        = Letter(server_box)
  BY <1>2, <1>6 DEF Letter, Content
<1>9. InboxLetters(q) = <<>> /\ InboxLetters(q)' = Letter(server_box)
  BY <1>2, <1>3, <1>7, <1>8 DEF InboxLetters, Letter, Content
<1>10. InTransit /\ ~InTransit'
  BY <1>1, <1>2 DEF InTransit
<1>11. MailboxLetters(q) = Letter(server_box) /\ MailboxLetters(q)' = <<>>
  BY <1>1, <1>10 DEF MailboxLetters, Routing
<1>12. BoxLetters(q)' = BoxLetters(q)
  BY <1>9, <1>11, ConcatShort DEF BoxLetters, Letter
<1>13. \A r \in Ranks \ {q} : /\ InboxLetters(r)' = InboxLetters(r)
                              /\ MailboxLetters(r)' = MailboxLetters(r)
  BY <1>1, <1>2, <1>5, <1>10 DEF InboxLetters, MailboxLetters, Letter, Content, Routing
<1>14. \A r \in Ranks : HandedLetters(r)' = HandedLetters(r)
  BY <1>2 DEF HandedLetters
<1>15. \A r \in Ranks : BoxLetters(r)' = BoxLetters(r)
  BY <1>12, <1>13 DEF BoxLetters
<1> QED
  BY <1>14, <1>15, StepStutters

(* The other steps of the router move nothing (com.c:464-479). *)
LEMMA RouterStutters ==
  ASSUME IInv, RouterReserve \/ RouterConfirm
  PROVE  UNCHANGED PO!poVars
<1>1. CASE RouterReserve
  <2>1. InTransit' = InTransit
    BY <1>1 DEF RouterReserve, InTransit, boxVars
  <2> QED
    BY <1>1, <2>1, LettersSame DEF RouterReserve, boxVars, segVars, recvVars
<1>2. CASE RouterConfirm
  <2>1. box_full = 0
    BY <1>2 DEF RouterConfirm, IInv, BoxInv, Idle, Posted, Routing, Confirmed, Stopped
  <2>2. InTransit' = InTransit
    BY <1>2, <2>1 DEF RouterConfirm, InTransit
  <2> QED
    BY <1>2, <2>2, LettersSame DEF RouterConfirm, inboxVars, segVars, recvVars
<1> QED
  BY <1>1, <1>2

(* The sentinel is a letter to nobody (com.c:785-791). *)
LEMMA SentinelStutters ==
  ASSUME IInv, NEW p \in Ranks, PostSentinel(p)
  PROVE  UNCHANGED PO!poVars
<1>1. Idle
  BY DEF PostSentinel, FinAt, IInv, BoxInv
<1>2. /\ server_box' = EmptyBox
      /\ UNCHANGED <<segment, inbox, rpc, rcv>>
  BY DEF PostSentinel, inboxVars, recvVars
<1>3. \A r \in Ranks : MailboxLetters(r) = <<>> /\ MailboxLetters(r)' = <<>>
  BY <1>1, <1>2, NoRankNotRank DEF Idle, MailboxLetters, InTransit, EmptyBox
<1>4. \A r \in Ranks : /\ InboxLetters(r)' = InboxLetters(r)
                       /\ HandedLetters(r)' = HandedLetters(r)
  BY <1>2 DEF InboxLetters, HandedLetters, Letter, Content
<1> QED
  BY <1>3, <1>4, StepStutters DEF BoxLetters

(* No other step of a sender thread or of com_finalize, and no crash,      *)
(* touches a segment's contents, the mailbox or an inbox.                  *)
LEMMA OtherStepStutters ==
  ASSUME NEW p \in Ranks,
         \/ \E w \in Workers :
              \/ \E s \in Sizes : Prepare(p, w, s)
              \/ \E q \in Ranks : Send(p, w, q)
              \/ FinishBuffer(p, w) \/ LockBuffer(p, w) \/ AwaitAck(p, w) \/ MapBuffer(p, w)
              \/ AcquireBox(p, w) \/ AwaitDelivered(p, w) \/ ReleaseBox(p, w)
         \/ BeginFinalize(p) \/ FinalizeAwaitAck(p) \/ FinalizeLock(p) \/ FinalizeCount(p)
         \/ StopAcquireBox(p) \/ Crash(p)
  PROVE  UNCHANGED PO!poVars
<1>1. UNCHANGED <<segment, inbox, server_box, box_full, router_pc, rpc, rcv>>
  BY DEF Prepare, Send, FinishBuffer, LockBuffer, AwaitAck, MapBuffer, AcquireBox,
         AwaitDelivered, ReleaseBox, BeginFinalize, FinalizeAwaitAck, FinalizeLock,
         FinalizeCount, StopAcquireBox, Crash,
         boxVars, inboxVars, segVars, recvVars, routerVars
<1>2. InTransit' = InTransit
  BY <1>1 DEF InTransit
<1> QED
  BY <1>1, <1>2, LettersSame

(* At the beginning every box is empty. *)
LEMMA PostOfficeInit == ComInit => PO!Init
<1> SUFFICES ASSUME ComInit PROVE PO!Init
  OBVIOUS
<1>1. \A q \in Ranks : InboxLetters(q) = <<>> /\ MailboxLetters(q) = <<>> /\ HandedLetters(q) = <<>>
  BY DEF ComInit, InboxLetters, MailboxLetters, HandedLetters, InTransit
<1> QED
  BY <1>1, ConcatShort DEF PO!Init

(* Every step of com.c is a step of PostOffice or changes nothing there. *)
LEMMA PostOfficeStep ==
  ASSUME IInv, SegmentQuiet, [ComNext]_comVars
  PROVE  [PO!Next]_PO!poVars
<1>1. ASSUME NEW p \in Ranks, NEW w \in Workers,
             \/ \E s \in Sizes : Prepare(p, w, s)
             \/ \E d \in Data : Fill(p, w, d)
             \/ \E q \in Ranks : Send(p, w, q)
             \/ FinishBuffer(p, w) \/ SendStep(p, w)
      PROVE  PO!Next \/ UNCHANGED PO!poVars
  <2>1. CASE \E d \in Data : Fill(p, w, d)
    BY <2>1, FillStutters DEF IInv
  <2>2. CASE PostRequest(p, w)
    BY <2>2, PostRequestAccepts
  <2> QED
    BY <1>1, <2>1, <2>2, OtherStepStutters DEF SendStep
<1>2. ASSUME NEW q \in Ranks,
             AwaitMessage(q) \/ CopyPayload(q) \/ ClearInbox(q) \/ PostAck(q)
      PROVE  PO!Next \/ UNCHANGED PO!poVars
  BY <1>2, AwaitMessageStutters, CopyHands, ClearStutters, AckReturns
<1>3. ASSUME NEW p \in Ranks, BeginFinalize(p) \/ FinalizeStep(p) \/ Crash(p)
      PROVE  UNCHANGED PO!poVars
  BY <1>3, SentinelStutters, OtherStepStutters DEF FinalizeStep
<1>4. CASE RouterStep
  BY <1>4, TakeStutters, ForwardStutters, RouterStutters DEF RouterStep
<1>5. CASE UNCHANGED comVars
  <2>1. UNCHANGED <<segment, inbox, server_box, box_full, router_pc, rpc, rcv>>
    BY <1>5 DEF comVars, boxVars, inboxVars, segVars, recvVars, routerVars
  <2>2. InTransit' = InTransit
    BY <2>1 DEF InTransit
  <2> QED
    BY <2>1, <2>2, LettersSame
<1> QED
  BY <1>1, <1>2, <1>3, <1>4, <1>5 DEF ComNext

(* Every legal use of com.h is a behaviour of PostOffice: each message is  *)
(* handed out once, in the order of the posts to its destination, with the *)
(* payload it had when it was posted.                                      *)
THEOREM PostOfficeImplemented == ComSpec => ImplementsPostOffice
<1>1. ComInit => PO!Init
  BY PostOfficeInit
<1>2. IInv /\ SegmentQuiet /\ [ComNext]_comVars => [PO!Next]_PO!poVars
  BY PostOfficeStep
<1> QED
  BY <1>1, <1>2, Inductive, SegmentsQuiet, PTL DEF ComSpec, ImplementsPostOffice, PO!Spec
=============================================================================
