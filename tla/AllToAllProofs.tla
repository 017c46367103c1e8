--------------------------- MODULE AllToAllProofs ---------------------------
(***************************************************************************)
(* What rpBenchmark1 relies on com.c for, for every number of processes,   *)
(* cycles and every message size: whatever the router and the threads do,  *)
(* every process receives the message of every cycle of every other        *)
(* process once, in the order of the cycles and with the pattern of its    *)
(* cycle.  AllToAll is a legal client of Com, so the invariant of Com      *)
(* holds in it; on top of that a tally for every pair of processes says    *)
(* where each message is.                                                  *)
(***************************************************************************)
EXTENDS AllToAll, ComProofs

(* How many messages p has sent to q, counting the call under way. *)
Sent(p, q) == IF p = q THEN 0 ELSE cycle[p] + (IF q < dest[p] THEN 1 ELSE 0)

(* The four places where the next message from p to q can be. *)
Called(p, q)  == pc[p][Sender] \in {"box", "post"} /\ call[p][Sender].dest = q
Mailed(p, q)  == InTransit /\ server_box.src_rank = p /\ server_box.dest_rank = q
Arrived(p, q) == inbox[q].src_rank = p
Copied(p, q)  == rpc[q] = "ack" /\ rcv[q].sender_rank = p

CalledNr(p, q)  == IF Called(p, q) THEN 1 ELSE 0
MailedNr(p, q)  == IF Mailed(p, q) THEN 1 ELSE 0
ArrivedNr(p, q) == IF Arrived(p, q) THEN 1 ELSE 0
CopiedNr(p, q)  == IF Copied(p, q) THEN 1 ELSE 0

(* Between two cycles, and while a sender thread waits for the buffer. *)
Early == {"idle", "lock", "drain"}

(* Where a sender thread is in its loops. *)
Stance(p) ==
  /\ pc[p][Sender] = "idle" => dest[p] = 0
  /\ pc[p][Sender] # "idle" =>
       cycle[p] < Repeat /\ dest[p] # p /\ call[p][Sender].size = MsgSize
  /\ pc[p][Sender] \in {"lock", "drain", "fill"} => dest[p] = SkipSelf(p, 0)
  /\ pc[p][Sender] \in {"box", "post"} => call[p][Sender].dest # p

SenderInv ==
  /\ cycle \in [Ranks -> 0 .. Repeat] /\ dest \in [Ranks -> 0 .. NProc]
  /\ received \in [Ranks -> Nat] /\ got \in [Ranks -> [Ranks -> Nat]]
  /\ alive = Ranks
  /\ \A p \in Ranks : Stance(p)

(* Every message that was sent is in one place or was received. *)
Tally(p, q) ==
  Sent(p, q) = got[q][p] + CalledNr(p, q) + MailedNr(p, q) + ArrivedNr(p, q) + CopiedNr(p, q)

TallyInv == \A p, q \in Ranks : Tally(p, q)

(* A sender thread that may write its segment has no message out. *)
Quiet(p, q) == got[q][p] >= IF pc[p][Sender] \in Early THEN cycle[p] - 1 ELSE cycle[p]

CycleInv == \A p, q \in Ranks : p # q => Quiet(p, q)

(* The segment holds the pattern of the cycle whose messages may be out,   *)
(* and what a receiver has copied is the pattern of the cycle it counts.   *)
Written(p) ==
  /\ pc[p][Sender] \in Early /\ cycle[p] > 0 => segment[p] = Pattern(p, cycle[p] - 1)
  /\ pc[p][Sender] \in Mapped \ {"fill"} => segment[p] = Pattern(p, cycle[p])

Sized(q) ==
  /\ InTransit /\ server_box.dest_rank = q => server_box.size = MsgSize
  /\ inbox[q].src_rank \in Ranks => inbox[q].size = MsgSize

Intact(q) ==
  rpc[q] \in {"clear", "ack"} =>
    /\ rcv[q].sender_rank \in Ranks
    /\ rcv[q].msg = Pattern(rcv[q].sender_rank, got[q][rcv[q].sender_rank])
    /\ rcv[q].size = MsgSize

ContentInv == \A p \in Ranks : Written(p) /\ Sized(p) /\ Intact(p)

(* The messages q has counted: the first got[q][p] of every p. *)
Counts(q) == {x \in Ranks \X (0 .. Repeat - 1) : x[2] < got[q][x[1]]}

ReceivedInv == \A q \in Ranks : received[q] = Cardinality(Counts(q))

AInv == IInv /\ SenderInv /\ TallyInv /\ CycleInv /\ ContentInv /\ ReceivedInv

(* The numbers of the run. *)
LEMMA Numbers == Repeat \in Nat \ {0} /\ NProc \in Nat \ {0} /\ MsgSize \in Nat \ {0}
BY AllToAllAssumption, ComAssumption

(* The next destination is not the sender, and after the last one the      *)
(* index is nr_proc.                                                       *)
LEMMA SkipNext ==
  ASSUME NEW p \in Ranks, NEW d \in 0 .. NProc
  PROVE  SkipSelf(p, d) \in 0 .. NProc /\ SkipSelf(p, d) # p
<1>1. p \in Int /\ 0 <= p /\ p < NProc /\ p + 1 <= NProc /\ d \in Int /\ 0 <= d /\ d <= NProc
  BY Numbers DEF Ranks
<1>2. CASE d = p
  BY <1>1, <1>2, Numbers DEF SkipSelf
<1>3. CASE d # p
  BY <1>1, <1>3, Numbers DEF SkipSelf
<1> QED
  BY <1>2, <1>3

(* The types of the variables of com.h that the threads look at. *)
LEMMA ClientTypes ==
  ASSUME IInv
  PROVE  /\ Sender \in Workers /\ \A w \in Workers : w = Sender
         /\ pc \in [Ranks -> [Workers -> Callers]]
         /\ call \in [Ranks -> [Workers -> [size: Nat, dest: Ranks \cup {NoRank}, msg_id: Nat]]]
         /\ rpc \in [Ranks -> {"idle", "copy", "clear", "ack"}]
         /\ rcv \in [Ranks -> [sender_rank: Ranks \cup {NoRank}, sender_msg_id: Nat,
                               size: Nat, msg: Payloads]]
         /\ inbox \in [Ranks -> [src_rank: Ranks \cup {NoRank}, msg_id: Nat, size: Nat,
                                 shm_name: Ranks \cup {NoRank}]]
         /\ segment \in [Ranks -> Payloads]
BY AllToAllAssumption DEF IInv, TypeInv, TypeOK

(* A thread of the benchmark takes a step of a legal client. *)
LEMMA ClientStep ==
  ASSUME SenderInv, [Next]_vars
  PROVE  [ComNext]_comVars
<1>1. Sender \in Workers /\ MsgSize \in Sizes
  BY AllToAllAssumption
<1>2. ASSUME NEW p \in Ranks, StartCycle(p)
      PROVE  ComNext
  BY <1>1, <1>2 DEF StartCycle, ComNext
<1>3. ASSUME NEW p \in Ranks, FillMessage(p)
      PROVE  ComNext
  <2>1. Fill(p, Sender, Pattern(p, cycle[p])) /\ pc[p][Sender] = "fill"
    BY <1>3 DEF FillMessage, Fill, At
  <2>2. cycle[p] \in 0 .. Repeat /\ cycle[p] < Repeat
    BY <2>1 DEF SenderInv, Stance
  <2>3. cycle[p] \in 0 .. Repeat - 1
    BY <2>2, AllToAllAssumption
  <2>4. Pattern(p, cycle[p]) \in Data
    BY <2>3, PatternAssumption
  <2> QED
    BY <1>1, <2>1, <2>4 DEF ComNext
<1>4. ASSUME NEW p \in Ranks, SendNext(p)
      PROVE  ComNext
  <2>1. Send(p, Sender, dest[p]) /\ dest[p] < NProc /\ dest[p] \in 0 .. NProc
    BY <1>4 DEF SendNext, SenderInv
  <2>2. dest[p] \in Ranks
    BY <2>1, ComAssumption DEF Ranks
  <2> QED
    BY <1>1, <2>1, <2>2 DEF ComNext
<1>5. ASSUME NEW p \in Ranks, EndCycle(p)
      PROVE  ComNext
  BY <1>1, <1>5 DEF EndCycle, ComNext
<1>6. ASSUME NEW p \in Ranks, SendStep(p, Sender)
      PROVE  ComNext
  BY <1>1, <1>6 DEF ComNext
<1>7. ASSUME NEW p \in Ranks, ReceiverThread(p)
      PROVE  ComNext
  BY <1>7 DEF ReceiverThread, StartReceive, EndReceive, ComNext
<1>8. ASSUME NEW p \in Ranks, MainThread(p)
      PROVE  ComNext
  BY <1>8 DEF MainThread, ComNext
<1>9. ASSUME Router
      PROVE  ComNext
  BY <1>9 DEF Router, ComNext
<1>10. ASSUME UNCHANGED vars
       PROVE  UNCHANGED comVars
  BY SMTT(40), <1>10 DEF vars
<1> QED
  BY <1>2, <1>3, <1>4, <1>5, <1>6, <1>7, <1>8, <1>9, <1>10 DEF Next, SenderThread, Terminated

(* The loops of sender_thread_main (rpBenchmark1/main.c:120-152). *)
LEMMA SenderStep ==
  ASSUME IInv, SenderInv, [Next]_vars
  PROVE  SenderInv'
<1> USE Numbers DEF SenderInv, Stance, SkipSelf, Callers, At, Goto, RecvAt, FinAt,
       boxVars, inboxVars, ackVars, segVars, lockVars,
       threadVars, recvVars, routerVars, finVars, clientVars
<1> USE ClientTypes
<1>1. ASSUME NEW p \in Ranks, StartCycle(p)
      PROVE  SenderInv'
  <2>1. /\ dest' = [dest EXCEPT ![p] = SkipSelf(p, 0)] /\ cycle[p] < Repeat
        /\ UNCHANGED <<cycle, received, got, alive>>
        /\ \A a \in Ranks : pc'[a][Sender] = IF a = p THEN "lock" ELSE pc[a][Sender]
        /\ \A a \in Ranks : call'[a][Sender].size = IF a = p THEN MsgSize ELSE call[a][Sender].size
        /\ \A a \in Ranks : a # p => call'[a][Sender].dest = call[a][Sender].dest
    BY <1>1 DEF StartCycle, Prepare, Call
  <2>2. SkipSelf(p, 0) \in 0 .. NProc /\ SkipSelf(p, 0) # p
    BY DEF SkipSelf, Ranks
  <2>3. \A a \in Ranks : Stance(a)'
    BY <2>1, <2>2
  <2> QED
    BY <2>1, <2>2, <2>3
<1>2. ASSUME NEW p \in Ranks, FillMessage(p)
      PROVE  SenderInv'
  BY <1>2 DEF FillMessage, Fill
<1>3. ASSUME NEW p \in Ranks, SendNext(p)
      PROVE  SenderInv'
  <2>1. /\ dest' = [dest EXCEPT ![p] = SkipSelf(p, dest[p] + 1)] /\ dest[p] < NProc
        /\ UNCHANGED <<cycle, received, got, alive>> /\ pc[p][Sender] = "ready"
        /\ \A a \in Ranks : pc'[a][Sender] = IF a = p THEN "box" ELSE pc[a][Sender]
        /\ \A a \in Ranks : call'[a][Sender].size = call[a][Sender].size
        /\ \A a \in Ranks : call'[a][Sender].dest = IF a = p THEN dest[p] ELSE call[a][Sender].dest
    BY <1>3 DEF SendNext, Send, Call
  <2>2. PICK d \in 0 .. NProc : d = dest[p] /\ d < NProc /\ d # p
    BY <2>1
  <2>3. SkipSelf(p, d + 1) \in 0 .. NProc /\ SkipSelf(p, d + 1) # p
    <3>1. d \in Int /\ 0 <= d /\ d < NProc
      BY <2>2
    <3>2. d + 1 \in 0 .. NProc
      BY <3>1
    <3> QED
      BY <3>2, SkipNext
  <2>4. \A a \in Ranks : Stance(a)'
    BY <2>1, <2>2, <2>3
  <2> QED
    BY <2>1, <2>2, <2>3, <2>4
<1>4. ASSUME NEW p \in Ranks, EndCycle(p)
      PROVE  SenderInv'
  <2>1. /\ dest' = [dest EXCEPT ![p] = 0] /\ cycle' = [cycle EXCEPT ![p] = @ + 1]
        /\ UNCHANGED <<received, got, alive>> /\ pc[p][Sender] = "ready"
        /\ \A a \in Ranks : pc'[a][Sender] = IF a = p THEN "idle" ELSE pc[a][Sender]
        /\ \A a \in Ranks : a # p => call'[a][Sender] = call[a][Sender]
    BY <1>4 DEF EndCycle, FinishBuffer, UnlockBuffer
  <2>2. PICK c \in 0 .. Repeat : c = cycle[p] /\ c + 1 \in 0 .. Repeat
    <3>1. PICK c \in 0 .. Repeat : c = cycle[p] /\ c < Repeat
      BY <2>1
    <3> QED
      BY <3>1
  <2>3. cycle' \in [Ranks -> 0 .. Repeat] /\ dest' \in [Ranks -> 0 .. NProc]
    <3>1. 0 \in 0 .. NProc
      OBVIOUS
    <3>2. cycle' = [cycle EXCEPT ![p] = c + 1]
      BY <2>1, <2>2
    <3> QED
      BY <2>1, <2>2, <3>1, <3>2
  <2>4. \A a \in Ranks : Stance(a)'
    BY <2>1
  <2> QED
    BY <2>1, <2>3, <2>4
<1>5. ASSUME NEW p \in Ranks, LockBuffer(p, Sender) /\ UNCHANGED clientVars
      PROVE  SenderInv'
  BY <1>5 DEF LockBuffer
<1>6. ASSUME NEW p \in Ranks, AwaitAck(p, Sender) /\ UNCHANGED clientVars
      PROVE  SenderInv'
  BY <1>6 DEF AwaitAck, ConsumeAck
<1>7. ASSUME NEW p \in Ranks, MapBuffer(p, Sender) /\ UNCHANGED clientVars
      PROVE  SenderInv'
  BY <1>7 DEF MapBuffer
<1>8. ASSUME NEW p \in Ranks, AcquireBox(p, Sender) /\ UNCHANGED clientVars
      PROVE  SenderInv'
  BY <1>8 DEF AcquireBox
<1>9. ASSUME NEW p \in Ranks, PostRequest(p, Sender) /\ UNCHANGED clientVars
      PROVE  SenderInv'
  BY <1>9 DEF PostRequest
<1>10. ASSUME NEW p \in Ranks, AwaitDelivered(p, Sender) /\ UNCHANGED clientVars
       PROVE  SenderInv'
  BY <1>10 DEF AwaitDelivered
<1>11. ASSUME NEW p \in Ranks, ReleaseBox(p, Sender) /\ UNCHANGED clientVars
       PROVE  SenderInv'
  BY <1>11 DEF ReleaseBox, Call
<1>12. ASSUME NEW p \in Ranks, StartReceive(p)
       PROVE  SenderInv'
  BY <1>12 DEF StartReceive, AwaitMessage
<1>13. ASSUME NEW p \in Ranks, CopyPayload(p) /\ UNCHANGED clientVars
       PROVE  SenderInv'
  BY <1>13 DEF CopyPayload
<1>14. ASSUME NEW p \in Ranks, ClearInbox(p) /\ UNCHANGED clientVars
       PROVE  SenderInv'
  BY <1>14 DEF ClearInbox
<1>15. ASSUME NEW p \in Ranks, EndReceive(p)
       PROVE  SenderInv'
  <2>1. /\ UNCHANGED <<cycle, dest, alive, pc, call>>
        /\ received' = [received EXCEPT ![p] = @ + 1]
        /\ got' = [got EXCEPT ![p][rcv[p].sender_rank] = @ + 1]
    BY <1>15 DEF EndReceive, PostAck
  <2>2. PICK g \in [Ranks -> Nat], r \in Ranks : g = got[p] /\ r = rcv[p].sender_rank
    BY <1>15 DEF EndReceive, PostAck, IInv, SlotInv
  <2>3. [g EXCEPT ![r] = @ + 1] \in [Ranks -> Nat] /\ received' \in [Ranks -> Nat]
    <3>1. received[p] + 1 \in Nat
      OBVIOUS
    <3>2. g[r] + 1 \in Nat
      OBVIOUS
    <3>3. received' \in [Ranks -> Nat]
      BY <2>1, <3>1
    <3> QED
      BY <3>2, <3>3
  <2>4. got' \in [Ranks -> [Ranks -> Nat]]
    BY <2>1, <2>2, <2>3
  <2>5. \A a \in Ranks : Stance(a)'
    BY <2>1
  <2> QED
    BY <2>1, <2>3, <2>4, <2>5
<1>16. ASSUME NEW p \in Ranks, Joined(p) /\ BeginFinalize(p) /\ UNCHANGED clientVars
       PROVE  SenderInv'
  <2>1. /\ UNCHANGED <<cycle, dest, received, got, alive>>
        /\ \A a \in Ranks : pc'[a][Sender] = IF a = p THEN "idle" ELSE pc[a][Sender]
        /\ \A a \in Ranks : a # p => call'[a][Sender] = call[a][Sender]
    BY <1>16 DEF BeginFinalize
  <2>2. cycle[p] = Repeat /\ cycle[p] \in 0 .. Repeat
    BY <1>16 DEF Joined
  <2>3. pc[p][Sender] = "idle"
    BY <2>2
  <2>4. \A a \in Ranks : Stance(a)'
    BY ZenonT(40), <2>1, <2>3
  <2> QED
    BY <2>1, <2>4
<1>17. ASSUME NEW p \in Ranks, FinalizeAwaitAck(p) /\ UNCHANGED clientVars
       PROVE  SenderInv'
  BY <1>17 DEF FinalizeAwaitAck, ConsumeAck
<1>18. ASSUME NEW p \in Ranks, FinalizeLock(p) /\ UNCHANGED clientVars
       PROVE  SenderInv'
  BY <1>18 DEF FinalizeLock
<1>19. ASSUME NEW p \in Ranks, FinalizeCount(p) /\ UNCHANGED clientVars
       PROVE  SenderInv'
  BY <1>19 DEF FinalizeCount
<1>20. ASSUME NEW p \in Ranks, StopAcquireBox(p) /\ UNCHANGED clientVars
       PROVE  SenderInv'
  BY <1>20 DEF StopAcquireBox
<1>21. ASSUME NEW p \in Ranks, PostSentinel(p) /\ UNCHANGED clientVars
       PROVE  SenderInv'
  BY <1>21 DEF PostSentinel
<1>22. ASSUME RouterTake /\ UNCHANGED clientVars
       PROVE  SenderInv'
  BY <1>22 DEF RouterTake
<1>23. ASSUME RouterReserve /\ UNCHANGED clientVars
       PROVE  SenderInv'
  BY <1>23 DEF RouterReserve
<1>24. ASSUME RouterForward /\ UNCHANGED clientVars
       PROVE  SenderInv'
  BY <1>24 DEF RouterForward
<1>25. ASSUME RouterConfirm /\ UNCHANGED clientVars
       PROVE  SenderInv'
  BY <1>25 DEF RouterConfirm
<1>26. ASSUME UNCHANGED vars
       PROVE  SenderInv'
  BY <1>26 DEF vars, comVars
<1> QED
  BY <1>1, <1>2, <1>3, <1>4, <1>5, <1>6, <1>7, <1>8, <1>9, <1>10, <1>11, <1>12, <1>13, <1>14, <1>15, <1>16, <1>17, <1>18, <1>19, <1>20, <1>21, <1>22, <1>23, <1>24, <1>25, <1>26
  DEF Next, SenderThread, SendStep, ReceiverThread, MainThread, FinalizeStep, Router,
      RouterStep, Terminated

(* The terms of the tally are numbers. *)
LEMMA NrTypes ==
  /\ \A p, q : /\ CalledNr(p, q) \in {0, 1} /\ MailedNr(p, q) \in {0, 1}
               /\ ArrivedNr(p, q) \in {0, 1} /\ CopiedNr(p, q) \in {0, 1}
  /\ SenderInv => \A p, q \in Ranks : Sent(p, q) \in Nat /\ got[q][p] \in Nat /\ cycle[p] \in Nat
<1>1. \A p, q : /\ CalledNr(p, q) \in {0, 1} /\ MailedNr(p, q) \in {0, 1}
                 /\ ArrivedNr(p, q) \in {0, 1} /\ CopiedNr(p, q) \in {0, 1}
  BY DEF CalledNr, MailedNr, ArrivedNr, CopiedNr
<1>2. ASSUME SenderInv, NEW p \in Ranks, NEW q \in Ranks
      PROVE  Sent(p, q) \in Nat /\ got[q][p] \in Nat /\ cycle[p] \in Nat
  <2>1. cycle[p] \in Nat /\ cycle[p] + 1 \in Nat
    <3>1. PICK c \in 0 .. Repeat : c = cycle[p]
      BY <1>2 DEF SenderInv
    <3> QED
      BY <3>1, Numbers
  <2>2. Sent(p, q) \in {0, cycle[p] + 1, cycle[p] + 0}
    BY DEF Sent
  <2> QED
    BY <1>2, <2>1, <2>2 DEF SenderInv
<1> QED
  BY <1>1, <1>2

(* A cycle that begins has sent nothing. *)
LEMMA AtStart ==
  ASSUME SenderInv, NEW p \in Ranks, NEW q \in Ranks, p # q,
         pc[p][Sender] \in {"idle", "lock", "drain", "fill"}
  PROVE  ~(q < SkipSelf(p, 0)) /\ ~(q < dest[p]) /\ Sent(p, q) = cycle[p]
<1>1. p \in Int /\ 0 <= p /\ q \in Int /\ 0 <= q
  BY Numbers DEF Ranks
<1>2. ~(q < 0) /\ ~(q < SkipSelf(p, 0))
  BY <1>1 DEF SkipSelf
<1>3. dest[p] \in {0, SkipSelf(p, 0)}
  BY DEF SenderInv, Stance
<1>4. cycle[p] \in Nat
  BY NrTypes
<1> QED
  BY <1>2, <1>3, <1>4 DEF Sent

(* A thread that sends does so to another process. *)
LEMMA InLoop ==
  ASSUME SenderInv, NEW p \in Ranks, pc[p][Sender] = "ready", dest[p] < NProc
  PROVE  dest[p] \in Ranks /\ dest[p] # p
<1>1. PICK d \in 0 .. NProc : d = dest[p] /\ d < NProc
  BY DEF SenderInv
<1>2. d \in 0 .. NProc - 1
  BY <1>1, Numbers
<1> QED
  BY <1>1, <1>2 DEF SenderInv, Stance, Ranks

(* Sending to d passes d and nobody else. *)
LEMMA PassedOne ==
  ASSUME NEW p \in Ranks, NEW q \in Ranks, NEW d \in Ranks, p # q, d # p
  PROVE  /\ ~(d < d) /\ d < SkipSelf(p, d + 1)
         /\ q # d => (q < d <=> q < SkipSelf(p, d + 1))
<1>1. p \in Int /\ q \in Int /\ d \in Int
  BY Numbers DEF Ranks
<1>2. CASE d + 1 = p
  BY <1>1, <1>2 DEF SkipSelf
<1>3. CASE d + 1 # p
  BY SMTT(40), <1>1, <1>3 DEF SkipSelf
<1> QED
  BY <1>2, <1>3

(* No message is lost, duplicated or sent to its sender on its way.        *)
LEMMA TallyStep ==
  ASSUME IInv, SenderInv, TallyInv, NEW a \in Ranks, NEW b \in Ranks, [Next]_vars
  PROVE  Tally(a, b)'
<1> USE DEF Tally, Sent, CalledNr, MailedNr, ArrivedNr, CopiedNr, Called, Mailed, Arrived, Copied,
       InTransit, At, Goto, RecvAt, FinAt,
       boxVars, inboxVars, ackVars, segVars, lockVars,
       threadVars, recvVars, routerVars, finVars, clientVars
<1> USE ClientTypes
<1>0. /\ cycle \in [Ranks -> 0 .. Repeat] /\ dest \in [Ranks -> 0 .. NProc]
      /\ received \in [Ranks -> Nat] /\ got \in [Ranks -> [Ranks -> Nat]]
      /\ Tally(a, b)
  BY DEF SenderInv, TallyInv
<1> USE <1>0, NoRankNotRank
<1>1. ASSUME NEW p \in Ranks, StartCycle(p)
      PROVE  Tally(a, b)'
  <2>1. /\ UNCHANGED <<cycle, got, boxVars, inboxVars, recvVars, router_pc>>
        /\ dest' = [dest EXCEPT ![p] = SkipSelf(p, 0)] /\ pc[p][Sender] = "idle"
        /\ pc'[a][Sender] = IF a = p THEN "lock" ELSE pc[a][Sender]
        /\ a # p => call'[a][Sender] = call[a][Sender]
    BY <1>1 DEF StartCycle, Prepare
  <2>2. CalledNr(a, b)' = CalledNr(a, b)
    BY <2>1
  <2>3. Sent(a, b)' = Sent(a, b)
    BY <2>1, AtStart
  <2> QED
    BY <2>1, <2>2, <2>3
<1>2. ASSUME NEW p \in Ranks, FillMessage(p)
      PROVE  Tally(a, b)'
  BY <1>2 DEF FillMessage, Fill
<1>3. ASSUME NEW p \in Ranks, SendNext(p)
      PROVE  Tally(a, b)'
  <2>1. /\ UNCHANGED <<cycle, got, boxVars, inboxVars, recvVars, router_pc>>
        /\ dest' = [dest EXCEPT ![p] = SkipSelf(p, @ + 1)] /\ pc[p][Sender] = "ready"
        /\ dest[p] < NProc
        /\ pc'[a][Sender] = IF a = p THEN "box" ELSE pc[a][Sender]
        /\ call'[a][Sender].dest = IF a = p THEN dest[p] ELSE call[a][Sender].dest
    BY <1>3 DEF SendNext, Send, Call
  <2>2. dest[p] \in Ranks /\ dest[p] # p
    BY <2>1, InLoop
  <2>3. CASE a = p /\ b = dest[p]
    <3>1. CalledNr(a, b) = 0 /\ CalledNr(a, b)' = 1
      BY <2>1, <2>3
    <3>2. Sent(a, b)' = Sent(a, b) + 1
      BY <2>1, <2>2, <2>3, PassedOne
    <3>3. /\ MailedNr(a, b)' = MailedNr(a, b) /\ ArrivedNr(a, b)' = ArrivedNr(a, b)
          /\ CopiedNr(a, b)' = CopiedNr(a, b) /\ got'[b][a] = got[b][a]
      BY <2>1
    <3> QED
      BY <3>1, <3>2, <3>3, NrTypes
  <2>4. CASE ~(a = p /\ b = dest[p])
    <3>1. CalledNr(a, b)' = CalledNr(a, b)
      BY <2>1, <2>4
    <3>2. Sent(a, b)' = Sent(a, b)
      BY <2>1, <2>2, <2>4, PassedOne
    <3> QED
      BY <2>1, <3>1, <3>2
  <2> QED
    BY <2>3, <2>4
<1>4. ASSUME NEW p \in Ranks, EndCycle(p)
      PROVE  Tally(a, b)'
  <2>1. /\ UNCHANGED <<got, boxVars, inboxVars, recvVars, router_pc>>
        /\ dest' = [dest EXCEPT ![p] = 0] /\ cycle' = [cycle EXCEPT ![p] = @ + 1]
        /\ dest[p] >= NProc /\ pc[p][Sender] = "ready"
        /\ pc'[a][Sender] = IF a = p THEN "idle" ELSE pc[a][Sender]
        /\ a # p => call'[a][Sender] = call[a][Sender]
    BY <1>4 DEF EndCycle, FinishBuffer, UnlockBuffer
  <2>2. CalledNr(a, b)' = CalledNr(a, b)
    BY <2>1
  <2>3. b < dest[p] /\ ~(b < 0) /\ cycle[p] \in Nat
    <3>1. PICK d \in 0 .. NProc : d = dest[p] /\ d >= NProc
      BY <2>1
    <3>2. b \in Int /\ 0 <= b /\ b < NProc
      BY Numbers DEF Ranks
    <3> QED
      BY <3>1, <3>2, NrTypes, Numbers
  <2>4. Sent(a, b)' = Sent(a, b)
    BY <2>1, <2>3
  <2> QED
    BY <2>1, <2>2, <2>4
<1>5. ASSUME NEW p \in Ranks, LockBuffer(p, Sender) /\ UNCHANGED clientVars
      PROVE  Tally(a, b)'
  BY <1>5 DEF LockBuffer
<1>6. ASSUME NEW p \in Ranks, AwaitAck(p, Sender) /\ UNCHANGED clientVars
      PROVE  Tally(a, b)'
  BY <1>6 DEF AwaitAck, ConsumeAck
<1>7. ASSUME NEW p \in Ranks, MapBuffer(p, Sender) /\ UNCHANGED clientVars
      PROVE  Tally(a, b)'
  BY <1>7 DEF MapBuffer
<1>8. ASSUME NEW p \in Ranks, AcquireBox(p, Sender) /\ UNCHANGED clientVars
      PROVE  Tally(a, b)'
  BY <1>8 DEF AcquireBox
<1>9. ASSUME NEW p \in Ranks, PostRequest(p, Sender) /\ UNCHANGED clientVars
      PROVE  Tally(a, b)'
  <2>1. /\ UNCHANGED <<got, cycle, dest, inboxVars, recvVars, router_pc, call>>
        /\ pc[p][Sender] = "post" /\ box_full' = box_full + 1
        /\ server_box'.src_rank = p /\ server_box'.dest_rank = call[p][Sender].dest
        /\ pc'[a][Sender] = IF a = p THEN "deliver" ELSE pc[a][Sender]
    BY <1>9 DEF PostRequest
  <2>2. box_full = 0 /\ router_pc = "wait"
    BY <2>1 DEF IInv, BoxInv, Idle
  <2>3. MailedNr(a, b) = 0 /\ CalledNr(a, b)' + MailedNr(a, b)' = CalledNr(a, b)
    BY <2>1, <2>2
  <2>4. ArrivedNr(a, b)' = ArrivedNr(a, b) /\ CopiedNr(a, b)' = CopiedNr(a, b)
    BY <2>1
  <2>5. Sent(a, b)' = Sent(a, b) /\ got'[b][a] = got[b][a]
    BY <2>1
  <2> QED
    BY <2>3, <2>4, <2>5, NrTypes
<1>10. ASSUME NEW p \in Ranks, AwaitDelivered(p, Sender) /\ UNCHANGED clientVars
       PROVE  Tally(a, b)'
  BY <1>10 DEF AwaitDelivered
<1>11. ASSUME NEW p \in Ranks, ReleaseBox(p, Sender) /\ UNCHANGED clientVars
       PROVE  Tally(a, b)'
  BY <1>11 DEF ReleaseBox, Call
<1>12. ASSUME NEW p \in Ranks, StartReceive(p)
       PROVE  Tally(a, b)'
  BY <1>12 DEF StartReceive, AwaitMessage
<1>13. ASSUME NEW p \in Ranks, CopyPayload(p) /\ UNCHANGED clientVars
       PROVE  Tally(a, b)'
  BY <1>13 DEF CopyPayload
<1>14. ASSUME NEW p \in Ranks, ClearInbox(p) /\ UNCHANGED clientVars
       PROVE  Tally(a, b)'
  <2>1. /\ UNCHANGED <<got, cycle, dest, boxVars, rcv, router_pc, pc, call>>
        /\ inbox'[b].src_rank = IF b = p THEN NoRank ELSE inbox[b].src_rank
        /\ rpc[p] = "clear" /\ rpc'[b] = IF b = p THEN "ack" ELSE rpc[b]
    BY <1>14 DEF ClearInbox, EmptyInbox
  <2>2. rcv[p].sender_rank = inbox[p].src_rank
    BY <2>1 DEF IInv, SlotInv, Reading
  <2>3. ArrivedNr(a, b)' + CopiedNr(a, b)' = ArrivedNr(a, b) + CopiedNr(a, b)
    BY <2>1, <2>2
  <2>4. /\ Sent(a, b)' = Sent(a, b) /\ got'[b][a] = got[b][a]
        /\ CalledNr(a, b)' = CalledNr(a, b) /\ MailedNr(a, b)' = MailedNr(a, b)
    BY <2>1
  <2> QED
    BY <2>3, <2>4, NrTypes
<1>15. ASSUME NEW p \in Ranks, EndReceive(p)
       PROVE  Tally(a, b)'
  BY <1>15 DEF EndReceive, PostAck
<1>16. ASSUME NEW p \in Ranks, Joined(p) /\ BeginFinalize(p) /\ UNCHANGED clientVars
       PROVE  Tally(a, b)'
  BY ZenonT(40), <1>16 DEF Joined, BeginFinalize
<1>17. ASSUME NEW p \in Ranks, FinalizeAwaitAck(p) /\ UNCHANGED clientVars
       PROVE  Tally(a, b)'
  BY <1>17 DEF FinalizeAwaitAck, ConsumeAck
<1>18. ASSUME NEW p \in Ranks, FinalizeLock(p) /\ UNCHANGED clientVars
       PROVE  Tally(a, b)'
  BY <1>18 DEF FinalizeLock
<1>19. ASSUME NEW p \in Ranks, FinalizeCount(p) /\ UNCHANGED clientVars
       PROVE  Tally(a, b)'
  BY <1>19 DEF FinalizeCount
<1>20. ASSUME NEW p \in Ranks, StopAcquireBox(p) /\ UNCHANGED clientVars
       PROVE  Tally(a, b)'
  BY <1>20 DEF StopAcquireBox
<1>21. ASSUME NEW p \in Ranks, PostSentinel(p) /\ UNCHANGED clientVars
       PROVE  Tally(a, b)'
  <2>1. /\ UNCHANGED <<got, cycle, dest, inboxVars, recvVars, router_pc, pc, call>>
        /\ fpc[p] = "sentinel" /\ server_box' = EmptyBox
    BY <1>21 DEF PostSentinel
  <2>2. box_full = 0 /\ router_pc = "wait"
    BY <2>1 DEF IInv, BoxInv, Idle
  <2>3. MailedNr(a, b)' = MailedNr(a, b)
    BY <2>1, <2>2 DEF EmptyBox
  <2> QED
    BY <2>1, <2>3
<1>22. ASSUME RouterTake /\ UNCHANGED clientVars
       PROVE  Tally(a, b)'
  BY <1>22 DEF RouterTake
<1>23. ASSUME RouterReserve /\ UNCHANGED clientVars
       PROVE  Tally(a, b)'
  BY <1>23 DEF RouterReserve
<1>24. ASSUME RouterForward /\ UNCHANGED clientVars
       PROVE  Tally(a, b)'
  <2>1. /\ UNCHANGED <<got, cycle, dest, boxVars, recvVars, pc, call>>
        /\ router_pc = "forward" /\ router_pc' = "confirm"
        /\ inbox'[b].src_rank = IF b = router_dest THEN server_box.src_rank ELSE inbox[b].src_rank
    BY <1>24 DEF RouterForward
  <2>2. box_full = 0 /\ router_dest = server_box.dest_rank
    BY <2>1 DEF IInv, BoxInv, Idle, Posted, Routing, Confirmed, Stopped
  <2>3. b = router_dest => inbox[b].src_rank = NoRank
    BY <2>1 DEF IInv, SlotInv, Forwarding, EmptyInbox
  <2>4. MailedNr(a, b)' = 0 /\ ArrivedNr(a, b)' = MailedNr(a, b) + ArrivedNr(a, b)
    BY <2>1, <2>2, <2>3
  <2>5. /\ Sent(a, b)' = Sent(a, b) /\ got'[b][a] = got[b][a]
        /\ CalledNr(a, b)' = CalledNr(a, b) /\ CopiedNr(a, b)' = CopiedNr(a, b)
    BY <2>1
  <2> QED
    BY <2>4, <2>5, NrTypes
<1>25. ASSUME RouterConfirm /\ UNCHANGED clientVars
       PROVE  Tally(a, b)'
  BY <1>25 DEF RouterConfirm
<1>26. ASSUME UNCHANGED vars
       PROVE  Tally(a, b)'
  BY <1>26 DEF vars, comVars
<1> QED
  BY <1>1, <1>2, <1>3, <1>4, <1>5, <1>6, <1>7, <1>8, <1>9, <1>10, <1>11, <1>12, <1>13, <1>14, <1>15, <1>16, <1>17, <1>18, <1>19, <1>20, <1>21, <1>22, <1>23, <1>24, <1>25, <1>26
  DEF Next, SenderThread, SendStep, ReceiverThread, MainThread, FinalizeStep, Router,
      RouterStep, Terminated

(* When the acknowledgements are drained everything that was sent is counted. *)
LEMMA AllCounted ==
  ASSUME IInv, SenderInv, TallyInv, NEW p \in Ranks, NEW q \in Ranks, p # q,
         pc[p][Sender] = "drain", pending_acks[p] = 0
  PROVE  got[q][p] = cycle[p]
<1>1. \A w \in Workers : pc[p][w] = "drain"
  BY ClientTypes
<1>2. Uncounted(p) = 0
  BY <1>1 DEF Uncounted
<1>3. ArrivedNr(p, q) = 0 /\ CopiedNr(p, q) = 0
  BY <1>2, NothingOut DEF ArrivedNr, CopiedNr, Arrived, Copied
<1>4. CalledNr(p, q) = 0
  BY DEF CalledNr, Called
<1>5. MailedNr(p, q) = 0
  <2> SUFFICES ASSUME InTransit, server_box.src_rank = p PROVE FALSE
    BY DEF MailedNr, Mailed
  <2>1. ~Idle
    BY DEF InTransit, Idle
  <2>2. CASE Closed
    BY <2>2, NoRankNotRank DEF Closed, EmptyBox
  <2>3. CASE \E r \in Ranks, v \in Workers : Delivering(r, v)
    BY <1>1, <2>3 DEF Delivering, RequestOf
  <2> QED
    BY <2>1, <2>2, <2>3 DEF IInv, BoxInv
<1>6. Sent(p, q) = cycle[p]
  BY AtStart
<1> QED
  BY <1>3, <1>4, <1>5, <1>6, NrTypes DEF TallyInv, Tally

(* A sender thread goes on only when its last cycle was received.          *)
LEMMA CycleStep ==
  ASSUME IInv, SenderInv, TallyInv, CycleInv, NEW a \in Ranks, NEW b \in Ranks, a # b, [Next]_vars
  PROVE  Quiet(a, b)'
<1> USE DEF Quiet, Early, At, Goto, RecvAt, FinAt,
       boxVars, inboxVars, ackVars, segVars, lockVars,
       threadVars, recvVars, routerVars, finVars, clientVars
<1> USE ClientTypes
<1>0. /\ cycle \in [Ranks -> 0 .. Repeat] /\ dest \in [Ranks -> 0 .. NProc]
      /\ received \in [Ranks -> Nat] /\ got \in [Ranks -> [Ranks -> Nat]]
      /\ Quiet(a, b)
  BY DEF SenderInv, CycleInv
<1> USE <1>0, NoRankNotRank
<1>1. ASSUME NEW p \in Ranks, StartCycle(p)
      PROVE  Quiet(a, b)'
  BY <1>1 DEF StartCycle, Prepare
<1>2. ASSUME NEW p \in Ranks, FillMessage(p)
      PROVE  Quiet(a, b)'
  BY <1>2 DEF FillMessage, Fill
<1>3. ASSUME NEW p \in Ranks, SendNext(p)
      PROVE  Quiet(a, b)'
  BY <1>3 DEF SendNext, Send, Call
<1>4. ASSUME NEW p \in Ranks, EndCycle(p)
      PROVE  Quiet(a, b)'
  <2>1. /\ UNCHANGED <<got>> /\ pc[p][Sender] = "ready"
        /\ cycle' = [cycle EXCEPT ![p] = @ + 1]
        /\ pc'[a][Sender] = IF a = p THEN "idle" ELSE pc[a][Sender]
    BY <1>4 DEF EndCycle, FinishBuffer, UnlockBuffer
  <2>2. cycle[a] \in Nat /\ got[b][a] \in Nat
    BY NrTypes
  <2> QED
    BY <2>1, <2>2
<1>5. ASSUME NEW p \in Ranks, LockBuffer(p, Sender) /\ UNCHANGED clientVars
      PROVE  Quiet(a, b)'
  BY <1>5 DEF LockBuffer
<1>6. ASSUME NEW p \in Ranks, AwaitAck(p, Sender) /\ UNCHANGED clientVars
      PROVE  Quiet(a, b)'
  BY <1>6 DEF AwaitAck, ConsumeAck
<1>7. ASSUME NEW p \in Ranks, MapBuffer(p, Sender) /\ UNCHANGED clientVars
      PROVE  Quiet(a, b)'
  <2>1. /\ UNCHANGED <<got, cycle>> /\ pc[p][Sender] = "drain" /\ pending_acks[p] = 0
        /\ a # p => pc'[a][Sender] = pc[a][Sender]
    BY <1>7 DEF MapBuffer, Drained
  <2>2. CASE a = p
    <3>1. got[b][a] = cycle[a] /\ cycle[a] \in Nat
      BY <2>1, <2>2, AllCounted, NrTypes
    <3> QED
      BY <2>1, <3>1
  <2>3. CASE a # p
    BY <2>1, <2>3
  <2> QED
    BY <2>2, <2>3
<1>8. ASSUME NEW p \in Ranks, AcquireBox(p, Sender) /\ UNCHANGED clientVars
      PROVE  Quiet(a, b)'
  BY <1>8 DEF AcquireBox
<1>9. ASSUME NEW p \in Ranks, PostRequest(p, Sender) /\ UNCHANGED clientVars
      PROVE  Quiet(a, b)'
  BY <1>9 DEF PostRequest
<1>10. ASSUME NEW p \in Ranks, AwaitDelivered(p, Sender) /\ UNCHANGED clientVars
       PROVE  Quiet(a, b)'
  BY <1>10 DEF AwaitDelivered
<1>11. ASSUME NEW p \in Ranks, ReleaseBox(p, Sender) /\ UNCHANGED clientVars
       PROVE  Quiet(a, b)'
  BY <1>11 DEF ReleaseBox, Call
<1>12. ASSUME NEW p \in Ranks, StartReceive(p)
       PROVE  Quiet(a, b)'
  BY <1>12 DEF StartReceive, AwaitMessage
<1>13. ASSUME NEW p \in Ranks, CopyPayload(p) /\ UNCHANGED clientVars
       PROVE  Quiet(a, b)'
  BY <1>13 DEF CopyPayload
<1>14. ASSUME NEW p \in Ranks, ClearInbox(p) /\ UNCHANGED clientVars
       PROVE  Quiet(a, b)'
  BY <1>14 DEF ClearInbox
<1>15. ASSUME NEW p \in Ranks, EndReceive(p)
       PROVE  Quiet(a, b)'
  <2>1. /\ UNCHANGED <<cycle, pc>>
        /\ got' = [got EXCEPT ![p][rcv[p].sender_rank] = @ + 1]
    BY <1>15 DEF EndReceive, PostAck
  <2>2. got'[b][a] \in {got[b][a], got[b][a] + 1}
    BY <2>1
  <2>3. cycle[a] \in Nat /\ got[b][a] \in Nat
    BY NrTypes
  <2> QED
    BY <2>1, <2>2, <2>3
<1>16. ASSUME NEW p \in Ranks, Joined(p) /\ BeginFinalize(p) /\ UNCHANGED clientVars
       PROVE  Quiet(a, b)'
  <2>1. UNCHANGED <<cycle, got>> /\ cycle[p] = Repeat
    BY <1>16 DEF Joined, BeginFinalize
  <2>2. pc[p][Sender] = "idle"
    BY <2>1, Numbers DEF SenderInv, Stance
  <2>3. pc'[a][Sender] = pc[a][Sender]
    BY <1>16, <2>2 DEF BeginFinalize
  <2> QED
    BY <2>1, <2>3
<1>17. ASSUME NEW p \in Ranks, FinalizeAwaitAck(p) /\ UNCHANGED clientVars
       PROVE  Quiet(a, b)'
  BY <1>17 DEF FinalizeAwaitAck, ConsumeAck
<1>18. ASSUME NEW p \in Ranks, FinalizeLock(p) /\ UNCHANGED clientVars
       PROVE  Quiet(a, b)'
  BY <1>18 DEF FinalizeLock
<1>19. ASSUME NEW p \in Ranks, FinalizeCount(p) /\ UNCHANGED clientVars
       PROVE  Quiet(a, b)'
  BY <1>19 DEF FinalizeCount
<1>20. ASSUME NEW p \in Ranks, StopAcquireBox(p) /\ UNCHANGED clientVars
       PROVE  Quiet(a, b)'
  BY <1>20 DEF StopAcquireBox
<1>21. ASSUME NEW p \in Ranks, PostSentinel(p) /\ UNCHANGED clientVars
       PROVE  Quiet(a, b)'
  BY <1>21 DEF PostSentinel
<1>22. ASSUME RouterTake /\ UNCHANGED clientVars
       PROVE  Quiet(a, b)'
  BY <1>22 DEF RouterTake
<1>23. ASSUME RouterReserve /\ UNCHANGED clientVars
       PROVE  Quiet(a, b)'
  BY <1>23 DEF RouterReserve
<1>24. ASSUME RouterForward /\ UNCHANGED clientVars
       PROVE  Quiet(a, b)'
  BY <1>24 DEF RouterForward
<1>25. ASSUME RouterConfirm /\ UNCHANGED clientVars
       PROVE  Quiet(a, b)'
  BY <1>25 DEF RouterConfirm
<1>26. ASSUME UNCHANGED vars
       PROVE  Quiet(a, b)'
  BY SMTT(40), <1>26 DEF vars, comVars
<1> QED
  BY <1>1, <1>2, <1>3, <1>4, <1>5, <1>6, <1>7, <1>8, <1>9, <1>10, <1>11, <1>12, <1>13, <1>14, <1>15, <1>16, <1>17, <1>18, <1>19, <1>20, <1>21, <1>22, <1>23, <1>24, <1>25, <1>26
  DEF Next, SenderThread, SendStep, ReceiverThread, MainThread, FinalizeStep, Router,
      RouterStep, Terminated

(* A segment is written at the beginning of a cycle and kept to its end.   *)
LEMMA WrittenStep ==
  ASSUME IInv, SenderInv, ContentInv, NEW a \in Ranks, [Next]_vars
  PROVE  Written(a)'
<1> USE DEF Written, Early, Mapped, At, Goto, RecvAt, FinAt,
       boxVars, inboxVars, ackVars, segVars, lockVars,
       threadVars, recvVars, routerVars, finVars, clientVars
<1> USE ClientTypes
<1>0. /\ cycle \in [Ranks -> 0 .. Repeat] /\ dest \in [Ranks -> 0 .. NProc]
      /\ received \in [Ranks -> Nat] /\ got \in [Ranks -> [Ranks -> Nat]]
      /\ Written(a) /\ Stance(a)
  BY DEF SenderInv, ContentInv
<1> USE <1>0, NoRankNotRank
<1>1. ASSUME NEW p \in Ranks, StartCycle(p)
      PROVE  Written(a)'
  BY <1>1 DEF StartCycle, Prepare
<1>2. ASSUME NEW p \in Ranks, FillMessage(p)
      PROVE  Written(a)'
  BY <1>2 DEF FillMessage, Fill
<1>3. ASSUME NEW p \in Ranks, SendNext(p)
      PROVE  Written(a)'
  BY <1>3 DEF SendNext, Send, Call
<1>4. ASSUME NEW p \in Ranks, EndCycle(p)
      PROVE  Written(a)'
  <2>1. /\ UNCHANGED segment /\ pc[p][Sender] = "ready"
        /\ cycle' = [cycle EXCEPT ![p] = @ + 1]
        /\ pc'[a][Sender] = IF a = p THEN "idle" ELSE pc[a][Sender]
    BY <1>4 DEF EndCycle, FinishBuffer, UnlockBuffer
  <2>2. cycle[a] \in Nat /\ cycle[a] + 1 - 1 = cycle[a]
    BY NrTypes
  <2> QED
    BY <2>1, <2>2
<1>5. ASSUME NEW p \in Ranks, LockBuffer(p, Sender) /\ UNCHANGED clientVars
      PROVE  Written(a)'
  BY <1>5 DEF LockBuffer
<1>6. ASSUME NEW p \in Ranks, AwaitAck(p, Sender) /\ UNCHANGED clientVars
      PROVE  Written(a)'
  BY <1>6 DEF AwaitAck, ConsumeAck
<1>7. ASSUME NEW p \in Ranks, MapBuffer(p, Sender) /\ UNCHANGED clientVars
      PROVE  Written(a)'
  <2>1. /\ UNCHANGED <<segment, cycle>>
        /\ pc'[a][Sender] = IF a = p THEN (IF call[p][Sender].size = 0 THEN "ready" ELSE "fill")
                            ELSE pc[a][Sender]
        /\ pc[p][Sender] = "drain"
    BY <1>7 DEF MapBuffer
  <2>2. call[p][Sender].size # 0
    BY <2>1, Numbers DEF SenderInv, Stance
  <2> QED
    BY <2>1, <2>2
<1>8. ASSUME NEW p \in Ranks, AcquireBox(p, Sender) /\ UNCHANGED clientVars
      PROVE  Written(a)'
  BY <1>8 DEF AcquireBox
<1>9. ASSUME NEW p \in Ranks, PostRequest(p, Sender) /\ UNCHANGED clientVars
      PROVE  Written(a)'
  BY <1>9 DEF PostRequest
<1>10. ASSUME NEW p \in Ranks, AwaitDelivered(p, Sender) /\ UNCHANGED clientVars
       PROVE  Written(a)'
  BY <1>10 DEF AwaitDelivered
<1>11. ASSUME NEW p \in Ranks, ReleaseBox(p, Sender) /\ UNCHANGED clientVars
       PROVE  Written(a)'
  BY <1>11 DEF ReleaseBox, Call
<1>12. ASSUME NEW p \in Ranks, StartReceive(p)
       PROVE  Written(a)'
  BY <1>12 DEF StartReceive, AwaitMessage
<1>13. ASSUME NEW p \in Ranks, CopyPayload(p) /\ UNCHANGED clientVars
       PROVE  Written(a)'
  BY <1>13 DEF CopyPayload
<1>14. ASSUME NEW p \in Ranks, ClearInbox(p) /\ UNCHANGED clientVars
       PROVE  Written(a)'
  BY <1>14 DEF ClearInbox
<1>15. ASSUME NEW p \in Ranks, EndReceive(p)
       PROVE  Written(a)'
  BY <1>15 DEF EndReceive, PostAck
<1>16. ASSUME NEW p \in Ranks, Joined(p) /\ BeginFinalize(p) /\ UNCHANGED clientVars
       PROVE  Written(a)'
  <2>1. UNCHANGED <<cycle, segment>> /\ cycle[p] = Repeat
    BY <1>16 DEF Joined, BeginFinalize
  <2>2. pc[p][Sender] = "idle"
    BY <2>1, Numbers DEF SenderInv, Stance
  <2>3. pc'[a][Sender] = pc[a][Sender]
    BY <1>16, <2>2 DEF BeginFinalize
  <2> QED
    BY <2>1, <2>3
<1>17. ASSUME NEW p \in Ranks, FinalizeAwaitAck(p) /\ UNCHANGED clientVars
       PROVE  Written(a)'
  BY <1>17 DEF FinalizeAwaitAck, ConsumeAck
<1>18. ASSUME NEW p \in Ranks, FinalizeLock(p) /\ UNCHANGED clientVars
       PROVE  Written(a)'
  BY <1>18 DEF FinalizeLock
<1>19. ASSUME NEW p \in Ranks, FinalizeCount(p) /\ UNCHANGED clientVars
       PROVE  Written(a)'
  BY <1>19 DEF FinalizeCount
<1>20. ASSUME NEW p \in Ranks, StopAcquireBox(p) /\ UNCHANGED clientVars
       PROVE  Written(a)'
  BY <1>20 DEF StopAcquireBox
<1>21. ASSUME NEW p \in Ranks, PostSentinel(p) /\ UNCHANGED clientVars
       PROVE  Written(a)'
  BY <1>21 DEF PostSentinel
<1>22. ASSUME RouterTake /\ UNCHANGED clientVars
       PROVE  Written(a)'
  BY <1>22 DEF RouterTake
<1>23. ASSUME RouterReserve /\ UNCHANGED clientVars
       PROVE  Written(a)'
  BY <1>23 DEF RouterReserve
<1>24. ASSUME RouterForward /\ UNCHANGED clientVars
       PROVE  Written(a)'
  BY <1>24 DEF RouterForward
<1>25. ASSUME RouterConfirm /\ UNCHANGED clientVars
       PROVE  Written(a)'
  BY <1>25 DEF RouterConfirm
<1>26. ASSUME UNCHANGED vars
       PROVE  Written(a)'
  BY <1>26 DEF vars, comVars
<1> QED
  BY <1>1, <1>2, <1>3, <1>4, <1>5, <1>6, <1>7, <1>8, <1>9, <1>10, <1>11, <1>12, <1>13, <1>14, <1>15, <1>16, <1>17, <1>18, <1>19, <1>20, <1>21, <1>22, <1>23, <1>24, <1>25, <1>26
  DEF Next, SenderThread, SendStep, ReceiverThread, MainThread, FinalizeStep, Router,
      RouterStep, Terminated

(* The metadata of a message says its size on its whole way.               *)
LEMMA SizedStep ==
  ASSUME IInv, SenderInv, ContentInv, NEW a \in Ranks, [Next]_vars
  PROVE  Sized(a)'
<1> USE DEF Sized, InTransit, At, Goto, RecvAt, FinAt,
       boxVars, inboxVars, ackVars, segVars, lockVars,
       threadVars, recvVars, routerVars, finVars, clientVars
<1> USE ClientTypes
<1>0. /\ cycle \in [Ranks -> 0 .. Repeat] /\ dest \in [Ranks -> 0 .. NProc]
      /\ received \in [Ranks -> Nat] /\ got \in [Ranks -> [Ranks -> Nat]]
      /\ Sized(a)
  BY DEF SenderInv, ContentInv
<1> USE <1>0, NoRankNotRank
<1>1. ASSUME NEW p \in Ranks, StartCycle(p)
      PROVE  Sized(a)'
  BY <1>1 DEF StartCycle, Prepare
<1>2. ASSUME NEW p \in Ranks, FillMessage(p)
      PROVE  Sized(a)'
  BY <1>2 DEF FillMessage, Fill
<1>3. ASSUME NEW p \in Ranks, SendNext(p)
      PROVE  Sized(a)'
  BY <1>3 DEF SendNext, Send, Call
<1>4. ASSUME NEW p \in Ranks, EndCycle(p)
      PROVE  Sized(a)'
  BY <1>4 DEF EndCycle, FinishBuffer, UnlockBuffer
<1>5. ASSUME NEW p \in Ranks, LockBuffer(p, Sender) /\ UNCHANGED clientVars
      PROVE  Sized(a)'
  BY <1>5 DEF LockBuffer
<1>6. ASSUME NEW p \in Ranks, AwaitAck(p, Sender) /\ UNCHANGED clientVars
      PROVE  Sized(a)'
  BY <1>6 DEF AwaitAck, ConsumeAck
<1>7. ASSUME NEW p \in Ranks, MapBuffer(p, Sender) /\ UNCHANGED clientVars
      PROVE  Sized(a)'
  BY <1>7 DEF MapBuffer
<1>8. ASSUME NEW p \in Ranks, AcquireBox(p, Sender) /\ UNCHANGED clientVars
      PROVE  Sized(a)'
  BY <1>8 DEF AcquireBox
<1>9. ASSUME NEW p \in Ranks, PostRequest(p, Sender) /\ UNCHANGED clientVars
      PROVE  Sized(a)'
  <2>1. /\ UNCHANGED inbox /\ pc[p][Sender] = "post"
        /\ server_box'.size = call[p][Sender].size
    BY <1>9 DEF PostRequest
  <2>2. call[p][Sender].size = MsgSize
    BY <2>1 DEF SenderInv, Stance
  <2> QED
    BY <2>1, <2>2
<1>10. ASSUME NEW p \in Ranks, AwaitDelivered(p, Sender) /\ UNCHANGED clientVars
       PROVE  Sized(a)'
  BY <1>10 DEF AwaitDelivered
<1>11. ASSUME NEW p \in Ranks, ReleaseBox(p, Sender) /\ UNCHANGED clientVars
       PROVE  Sized(a)'
  BY <1>11 DEF ReleaseBox, Call
<1>12. ASSUME NEW p \in Ranks, StartReceive(p)
       PROVE  Sized(a)'
  BY <1>12 DEF StartReceive, AwaitMessage
<1>13. ASSUME NEW p \in Ranks, CopyPayload(p) /\ UNCHANGED clientVars
       PROVE  Sized(a)'
  BY <1>13 DEF CopyPayload
<1>14. ASSUME NEW p \in Ranks, ClearInbox(p) /\ UNCHANGED clientVars
       PROVE  Sized(a)'
  BY <1>14 DEF ClearInbox, EmptyInbox
<1>15. ASSUME NEW p \in Ranks, EndReceive(p)
       PROVE  Sized(a)'
  BY <1>15 DEF EndReceive, PostAck
<1>16. ASSUME NEW p \in Ranks, Joined(p) /\ BeginFinalize(p) /\ UNCHANGED clientVars
       PROVE  Sized(a)'
  BY <1>16 DEF Joined, BeginFinalize
<1>17. ASSUME NEW p \in Ranks, FinalizeAwaitAck(p) /\ UNCHANGED clientVars
       PROVE  Sized(a)'
  BY <1>17 DEF FinalizeAwaitAck, ConsumeAck
<1>18. ASSUME NEW p \in Ranks, FinalizeLock(p) /\ UNCHANGED clientVars
       PROVE  Sized(a)'
  BY <1>18 DEF FinalizeLock
<1>19. ASSUME NEW p \in Ranks, FinalizeCount(p) /\ UNCHANGED clientVars
       PROVE  Sized(a)'
  BY <1>19 DEF FinalizeCount
<1>20. ASSUME NEW p \in Ranks, StopAcquireBox(p) /\ UNCHANGED clientVars
       PROVE  Sized(a)'
  BY <1>20 DEF StopAcquireBox
<1>21. ASSUME NEW p \in Ranks, PostSentinel(p) /\ UNCHANGED clientVars
       PROVE  Sized(a)'
  BY <1>21 DEF PostSentinel, EmptyBox
<1>22. ASSUME RouterTake /\ UNCHANGED clientVars
       PROVE  Sized(a)'
  BY <1>22 DEF RouterTake
<1>23. ASSUME RouterReserve /\ UNCHANGED clientVars
       PROVE  Sized(a)'
  BY <1>23 DEF RouterReserve
<1>24. ASSUME RouterForward /\ UNCHANGED clientVars
       PROVE  Sized(a)'
  <2>1. /\ UNCHANGED <<server_box, box_full>> /\ router_pc = "forward" /\ router_pc' = "confirm"
        /\ inbox'[a].size = IF a = router_dest THEN server_box.size ELSE inbox[a].size
        /\ a # router_dest => inbox'[a] = inbox[a]
    BY <1>24 DEF RouterForward
  <2>2. router_dest = server_box.dest_rank
    BY <2>1 DEF IInv, BoxInv, Idle, Posted, Routing, Confirmed, Stopped
  <2> QED
    BY <2>1, <2>2
<1>25. ASSUME RouterConfirm /\ UNCHANGED clientVars
       PROVE  Sized(a)'
  BY <1>25 DEF RouterConfirm
<1>26. ASSUME UNCHANGED vars
       PROVE  Sized(a)'
  BY <1>26 DEF vars, comVars
<1> QED
  BY <1>1, <1>2, <1>3, <1>4, <1>5, <1>6, <1>7, <1>8, <1>9, <1>10, <1>11, <1>12, <1>13, <1>14, <1>15, <1>16, <1>17, <1>18, <1>19, <1>20, <1>21, <1>22, <1>23, <1>24, <1>25, <1>26
  DEF Next, SenderThread, SendStep, ReceiverThread, MainThread, FinalizeStep, Router,
      RouterStep, Terminated

(* What an inbox announces is in the segment when it is copied.            *)
LEMMA RightPattern ==
  ASSUME IInv, SenderInv, TallyInv, CycleInv, ContentInv,
         NEW q \in Ranks, NEW p \in Ranks, inbox[q].src_rank = p
  PROVE  segment[p] = Pattern(p, got[q][p])
<1>1. ArrivedNr(p, q) = 1
  BY DEF ArrivedNr, Arrived
<1>2. got[q][p] \in Nat /\ cycle[p] \in Nat /\ Sent(p, q) \in Nat /\ got[q][p] + 1 <= Sent(p, q)
  <2>1. Sent(p, q) = got[q][p] + CalledNr(p, q) + MailedNr(p, q) + ArrivedNr(p, q) + CopiedNr(p, q)
    BY DEF TallyInv, Tally
  <2> QED
    BY <1>1, <2>1, NrTypes
<1>3. p # q
  BY <1>2 DEF Sent
<1>4. Sent(p, q) <= cycle[p] + 1
  BY <1>2 DEF Sent
<1>5. CASE pc[p][Sender] \in {"idle", "lock", "drain", "fill"}
  <2>1. got[q][p] + 1 <= cycle[p]
    BY <1>2, <1>3, <1>5, AtStart
  <2>2. got[q][p] >= IF pc[p][Sender] \in Early THEN cycle[p] - 1 ELSE cycle[p]
    BY <1>3 DEF CycleInv, Quiet
  <2>3. pc[p][Sender] \in Early /\ got[q][p] = cycle[p] - 1 /\ cycle[p] > 0
    BY <1>2, <1>5, <2>1, <2>2 DEF Early
  <2> QED
    BY <2>3 DEF ContentInv, Written
<1>6. CASE pc[p][Sender] \notin {"idle", "lock", "drain", "fill"}
  <2>1. got[q][p] >= cycle[p]
    BY <1>3, <1>6 DEF CycleInv, Quiet, Early
  <2>2. got[q][p] = cycle[p]
    BY <1>2, <1>4, <2>1
  <2>3. pc[p][Sender] \in Callers
    BY ClientTypes
  <2>4. pc[p][Sender] \in Mapped \ {"fill"}
    BY SMTT(40), <1>6, <2>3 DEF Callers, Mapped
  <2> QED
    BY <2>2, <2>4 DEF ContentInv, Written
<1> QED
  BY <1>5, <1>6

(* What com_recv hands out is the pattern of the cycle.                    *)
LEMMA IntactStep ==
  ASSUME IInv, SenderInv, TallyInv, CycleInv, ContentInv, NEW a \in Ranks, [Next]_vars
  PROVE  Intact(a)'
<1> USE DEF Intact, At, Goto, RecvAt, FinAt,
       boxVars, inboxVars, ackVars, segVars, lockVars,
       threadVars, recvVars, routerVars, finVars, clientVars
<1> USE ClientTypes
<1>0. /\ cycle \in [Ranks -> 0 .. Repeat] /\ dest \in [Ranks -> 0 .. NProc]
      /\ received \in [Ranks -> Nat] /\ got \in [Ranks -> [Ranks -> Nat]]
      /\ Intact(a)
  BY DEF SenderInv, ContentInv
<1> USE <1>0, NoRankNotRank
<1>1. ASSUME NEW p \in Ranks, StartCycle(p)
      PROVE  Intact(a)'
  BY <1>1 DEF StartCycle, Prepare
<1>2. ASSUME NEW p \in Ranks, FillMessage(p)
      PROVE  Intact(a)'
  BY <1>2 DEF FillMessage, Fill
<1>3. ASSUME NEW p \in Ranks, SendNext(p)
      PROVE  Intact(a)'
  BY <1>3 DEF SendNext, Send, Call
<1>4. ASSUME NEW p \in Ranks, EndCycle(p)
      PROVE  Intact(a)'
  BY <1>4 DEF EndCycle, FinishBuffer, UnlockBuffer
<1>5. ASSUME NEW p \in Ranks, LockBuffer(p, Sender) /\ UNCHANGED clientVars
      PROVE  Intact(a)'
  BY <1>5 DEF LockBuffer
<1>6. ASSUME NEW p \in Ranks, AwaitAck(p, Sender) /\ UNCHANGED clientVars
      PROVE  Intact(a)'
  BY <1>6 DEF AwaitAck, ConsumeAck
<1>7. ASSUME NEW p \in Ranks, MapBuffer(p, Sender) /\ UNCHANGED clientVars
      PROVE  Intact(a)'
  BY <1>7 DEF MapBuffer
<1>8. ASSUME NEW p \in Ranks, AcquireBox(p, Sender) /\ UNCHANGED clientVars
      PROVE  Intact(a)'
  BY <1>8 DEF AcquireBox
<1>9. ASSUME NEW p \in Ranks, PostRequest(p, Sender) /\ UNCHANGED clientVars
      PROVE  Intact(a)'
  BY <1>9 DEF PostRequest
<1>10. ASSUME NEW p \in Ranks, AwaitDelivered(p, Sender) /\ UNCHANGED clientVars
       PROVE  Intact(a)'
  BY <1>10 DEF AwaitDelivered
<1>11. ASSUME NEW p \in Ranks, ReleaseBox(p, Sender) /\ UNCHANGED clientVars
       PROVE  Intact(a)'
  BY <1>11 DEF ReleaseBox, Call
<1>12. ASSUME NEW p \in Ranks, StartReceive(p)
       PROVE  Intact(a)'
  BY <1>12 DEF StartReceive, AwaitMessage
<1>13. ASSUME NEW p \in Ranks, CopyPayload(p) /\ UNCHANGED clientVars
       PROVE  Intact(a)'
  <2>1. /\ UNCHANGED got /\ rpc[p] = "copy"
        /\ a # p => rcv'[a] = rcv[a] /\ rpc'[a] = rpc[a]
        /\ rcv'[p].sender_rank = rcv[p].sender_rank /\ rcv'[p].size = rcv[p].size
        /\ rcv'[p].msg = IF inbox[p].size = 0 THEN Blank ELSE segment[inbox[p].shm_name]
    BY <1>13 DEF CopyPayload
  <2>2. PICK s \in Ranks : /\ s = inbox[p].src_rank /\ s = inbox[p].shm_name /\ s = rcv[p].sender_rank
                           /\ inbox[p].size = rcv[p].size /\ inbox[p].size = MsgSize
    <3>1. Valid(p) /\ rcv[p].sender_rank = inbox[p].src_rank /\ rcv[p].size = inbox[p].size
      <4>1. rpc[p] \in Reading
        BY <2>1 DEF Reading
      <4> QED
        BY <4>1 DEF IInv, SlotInv
    <3>2. inbox[p].size = MsgSize
      BY <3>1 DEF ContentInv, Sized, Valid
    <3> QED
      BY <3>1, <3>2 DEF Valid
  <2>3. segment[s] = Pattern(s, got[p][s])
    BY <2>2, RightPattern
  <2>4. rcv'[p].msg = Pattern(s, got[p][s])
    BY <2>1, <2>2, <2>3, Numbers
  <2>5. CASE a = p
    BY <2>1, <2>2, <2>4, <2>5
  <2>6. CASE a # p
    BY <2>1, <2>6
  <2> QED
    BY <2>5, <2>6
<1>14. ASSUME NEW p \in Ranks, ClearInbox(p) /\ UNCHANGED clientVars
       PROVE  Intact(a)'
  BY <1>14 DEF ClearInbox
<1>15. ASSUME NEW p \in Ranks, EndReceive(p)
       PROVE  Intact(a)'
  <2>1. a # p => rpc'[a] = rpc[a] /\ rcv'[a] = rcv[a] /\ got'[a] = got[a]
    BY <1>15 DEF EndReceive, PostAck
  <2>2. rpc'[p] = "idle"
    BY <1>15 DEF EndReceive, PostAck
  <2> QED
    BY <2>1, <2>2
<1>16. ASSUME NEW p \in Ranks, Joined(p) /\ BeginFinalize(p) /\ UNCHANGED clientVars
       PROVE  Intact(a)'
  BY <1>16 DEF Joined, BeginFinalize
<1>17. ASSUME NEW p \in Ranks, FinalizeAwaitAck(p) /\ UNCHANGED clientVars
       PROVE  Intact(a)'
  BY <1>17 DEF FinalizeAwaitAck, ConsumeAck
<1>18. ASSUME NEW p \in Ranks, FinalizeLock(p) /\ UNCHANGED clientVars
       PROVE  Intact(a)'
  BY <1>18 DEF FinalizeLock
<1>19. ASSUME NEW p \in Ranks, FinalizeCount(p) /\ UNCHANGED clientVars
       PROVE  Intact(a)'
  BY <1>19 DEF FinalizeCount
<1>20. ASSUME NEW p \in Ranks, StopAcquireBox(p) /\ UNCHANGED clientVars
       PROVE  Intact(a)'
  BY <1>20 DEF StopAcquireBox
<1>21. ASSUME NEW p \in Ranks, PostSentinel(p) /\ UNCHANGED clientVars
       PROVE  Intact(a)'
  BY <1>21 DEF PostSentinel
<1>22. ASSUME RouterTake /\ UNCHANGED clientVars
       PROVE  Intact(a)'
  BY <1>22 DEF RouterTake
<1>23. ASSUME RouterReserve /\ UNCHANGED clientVars
       PROVE  Intact(a)'
  BY <1>23 DEF RouterReserve
<1>24. ASSUME RouterForward /\ UNCHANGED clientVars
       PROVE  Intact(a)'
  BY <1>24 DEF RouterForward
<1>25. ASSUME RouterConfirm /\ UNCHANGED clientVars
       PROVE  Intact(a)'
  BY <1>25 DEF RouterConfirm
<1>26. ASSUME UNCHANGED vars
       PROVE  Intact(a)'
  BY <1>26 DEF vars, comVars
<1> QED
  BY <1>1, <1>2, <1>3, <1>4, <1>5, <1>6, <1>7, <1>8, <1>9, <1>10, <1>11, <1>12, <1>13, <1>14, <1>15, <1>16, <1>17, <1>18, <1>19, <1>20, <1>21, <1>22, <1>23, <1>24, <1>25, <1>26
  DEF Next, SenderThread, SendStep, ReceiverThread, MainThread, FinalizeStep, Router,
      RouterStep, Terminated

(* A sender thread sends no more than one message per cycle to a process.  *)
LEMMA SentBound ==
  ASSUME SenderInv, NEW p \in Ranks, NEW q \in Ranks
  PROVE  Sent(p, q) <= Repeat
<1>1. PICK c \in 0 .. Repeat : c = cycle[p]
  BY DEF SenderInv
<1>2. PICK d \in 0 .. NProc : d = dest[p]
  BY DEF SenderInv
<1>3. ~(q < 0)
  BY Numbers DEF Ranks
<1>4. q < d => c < Repeat
  BY <1>1, <1>2, <1>3 DEF SenderInv, Stance
<1> QED
  BY <1>1, <1>2, <1>4, Numbers DEF Sent

(* What q counts is finite, and is made of messages of the others. *)
LEMMA CountsFinite ==
  ASSUME NEW q \in Ranks
  PROVE  /\ IsFiniteSet(Counts(q))
         /\ IsFiniteSet((Ranks \ {q}) \X (0 .. Repeat - 1))
         /\ Cardinality((Ranks \ {q}) \X (0 .. Repeat - 1)) = TotalReceives
<1>1. /\ IsFiniteSet(0 .. Repeat - 1) /\ Cardinality(0 .. Repeat - 1) = Repeat
  <2>1. 0 \in Int /\ Repeat - 1 \in Int /\ Repeat - 1 - 0 + 1 = Repeat /\ ~(0 > Repeat - 1)
    BY Numbers
  <2> QED
    BY <2>1, FS_Interval
<1>2. IsFiniteSet(Ranks) /\ Cardinality(Ranks) = NProc
  BY RanksFinite
<1>3. IsFiniteSet(Ranks \ {q}) /\ Cardinality(Ranks \ {q}) = NProc - 1
  BY <1>2, FS_RemoveElement
<1>4. IsFiniteSet(Ranks \X (0 .. Repeat - 1))
  BY <1>1, <1>2, FS_Product
<1>5. IsFiniteSet(Counts(q))
  BY <1>4, FS_Subset DEF Counts
<1>6. /\ IsFiniteSet((Ranks \ {q}) \X (0 .. Repeat - 1))
      /\ Cardinality((Ranks \ {q}) \X (0 .. Repeat - 1)) = (NProc - 1) * Repeat
  BY ZenonT(40), <1>1, <1>3, FS_Product
<1>7. (NProc - 1) * Repeat = Repeat * (NProc - 1)
  BY Numbers
<1> QED
  BY <1>5, <1>6, <1>7 DEF TotalReceives

(* The receiver counts what it acknowledges, and nothing else. *)
LEMMA ReceivedStep ==
  ASSUME IInv, SenderInv, TallyInv, ReceivedInv, [Next]_vars
  PROVE  ReceivedInv'
<1>1. ASSUME UNCHANGED <<received, got>>
      PROVE  ReceivedInv'
  BY <1>1 DEF ReceivedInv, Counts
<1>2. ASSUME NEW q \in Ranks, EndReceive(q)
      PROVE  ReceivedInv'
  <2>1. /\ rpc[q] = "ack" /\ received' = [received EXCEPT ![q] = @ + 1]
        /\ got' = [got EXCEPT ![q][rcv[q].sender_rank] = @ + 1]
    BY <1>2 DEF EndReceive, PostAck, RecvAt
  <2>2. PICK p \in Ranks : p = rcv[q].sender_rank
    BY <2>1 DEF IInv, SlotInv
  <2>3. PICK n \in 0 .. Repeat - 1 : n = got[q][p]
    <3>1. CopiedNr(p, q) = 1
      BY <2>1, <2>2 DEF CopiedNr, Copied
    <3>2. Sent(p, q) = got[q][p] + CalledNr(p, q) + MailedNr(p, q) + ArrivedNr(p, q) + CopiedNr(p, q)
      BY DEF TallyInv, Tally
    <3>3. got[q][p] \in Nat /\ got[q][p] + 1 <= Repeat
      BY <3>1, <3>2, NrTypes, SentBound, Numbers
    <3> QED
      BY <3>3, Numbers
  <2>4. \A a, b \in Ranks : got'[a][b] = IF a = q /\ b = p THEN n + 1 ELSE got[a][b]
    BY <2>1, <2>2, <2>3 DEF SenderInv
  <2>5. \A a \in Ranks : a # q => Counts(a)' = Counts(a) /\ received'[a] = received[a]
    BY <2>1, <2>4 DEF Counts, SenderInv
  <2>6. Counts(q)' = Counts(q) \cup {<<p, n>>}
    <3>1. ASSUME NEW r \in Ranks, NEW k \in 0 .. Repeat - 1
          PROVE  k < got'[q][r] <=> k < got[q][r] \/ (r = p /\ k = n)
      BY <2>3, <2>4, Numbers
    <3>2. \A x : x \in Counts(q)' <=> x \in Counts(q) \cup {<<p, n>>}
      <4>1. \A r \in Ranks, k \in 0 .. Repeat - 1 : <<r, k>> \in Counts(q)' <=> k < got'[q][r]
        BY DEF Counts
      <4>2. \A r \in Ranks, k \in 0 .. Repeat - 1 : <<r, k>> \in Counts(q) <=> k < got[q][r]
        BY DEF Counts
      <4>3. ASSUME NEW r \in Ranks, NEW k \in 0 .. Repeat - 1
            PROVE  <<r, k>> \in Counts(q)' <=> <<r, k>> \in Counts(q) \cup {<<p, n>>}
        BY <3>1, <4>1, <4>2
      <4>4. ASSUME NEW x, x \in Counts(q)' \/ x \in Counts(q) \cup {<<p, n>>}
            PROVE  \E r \in Ranks, k \in 0 .. Repeat - 1 : x = <<r, k>>
        BY <4>4 DEF Counts
      <4> QED
        BY <4>3, <4>4
    <3> QED
      BY <3>2
  <2>7. <<p, n>> \notin Counts(q)
    BY <2>3 DEF Counts
  <2>8. Cardinality(Counts(q)') = Cardinality(Counts(q)) + 1
    BY <2>6, <2>7, CountsFinite, FS_AddElement
  <2>9. received'[q] = received[q] + 1
    BY <2>1 DEF SenderInv
  <2> QED
    BY <2>5, <2>8, <2>9 DEF ReceivedInv
<1>3. CASE \E q \in Ranks : EndReceive(q)
  BY <1>2, <1>3
<1>4. CASE ~ \E q \in Ranks : EndReceive(q)
  <2>1. UNCHANGED <<received, got>>
    BY <1>4 DEF Next, SenderThread, StartCycle, FillMessage, SendNext, EndCycle, ReceiverThread,
         StartReceive, MainThread, Router, Terminated, vars, clientVars
  <2> QED
    BY <1>1, <2>1
<1> QED
  BY <1>3, <1>4

(* No message is sent and none received when the threads start. *)
LEMMA InitAInv == Init => AInv
<1> SUFFICES ASSUME Init PROVE AInv
  OBVIOUS
<1>1. ComInit /\ IInv
  BY InitInv DEF Init
<1>2. /\ \A p \in Ranks : cycle[p] = 0 /\ dest[p] = 0 /\ received[p] = 0
      /\ \A p, q \in Ranks : got[q][p] = 0
      /\ Sender \in Workers
      /\ \A p \in Ranks : pc[p][Sender] = "idle" /\ rpc[p] = "idle"
      /\ \A p \in Ranks : inbox[p].src_rank = NoRank
      /\ ~InTransit
  BY AllToAllAssumption DEF Init, ComInit, InTransit, EmptyInbox
<1>3. SenderInv
  BY <1>1, <1>2, Numbers DEF Init, ComInit, SenderInv, Stance
<1>4. TallyInv
  BY <1>2, NoRankNotRank, Numbers DEF TallyInv, Tally, Sent, CalledNr, MailedNr, ArrivedNr, CopiedNr,
       Called, Mailed, Arrived, Copied, Ranks
<1>5. CycleInv
  BY <1>2 DEF CycleInv, Quiet, Early
<1>6. ContentInv
  BY <1>2, NoRankNotRank DEF ContentInv, Written, Sized, Intact, Early, Mapped
<1>7. ReceivedInv
  <2> SUFFICES ASSUME NEW q \in Ranks PROVE received[q] = Cardinality(Counts(q))
    BY DEF ReceivedInv
  <2>1. Counts(q) = {}
    BY <1>2 DEF Counts
  <2> QED
    BY <1>2, <2>1, FS_EmptySet
<1> QED
  BY <1>1, <1>3, <1>4, <1>5, <1>6, <1>7 DEF AInv

(* Every step of the benchmark keeps all of it. *)
LEMMA StepAInv ==
  ASSUME AInv, [Next]_vars
  PROVE  AInv'
<1> USE DEF AInv
<1>1. IInv'
  BY ClientStep, StepInv
<1>2. SenderInv'
  BY SenderStep
<1>3. TallyInv'
  <2>1. \A a, b \in Ranks : Tally(a, b)'
    BY TallyStep
  <2> QED
    BY <2>1 DEF TallyInv
<1>4. CycleInv'
  <2>1. \A a, b \in Ranks : a # b => Quiet(a, b)'
    BY CycleStep
  <2> QED
    BY <2>1 DEF CycleInv
<1>5. ContentInv'
  <2>1. \A a \in Ranks : Written(a)' /\ Sized(a)' /\ Intact(a)'
    BY WrittenStep, SizedStep, IntactStep
  <2> QED
    BY <2>1 DEF ContentInv
<1>6. ReceivedInv'
  BY ReceivedStep
<1> QED
  BY <1>1, <1>2, <1>3, <1>4, <1>5, <1>6

(* All of the invariant, of com.c and of the benchmark, holds throughout   *)
(* every run of the benchmark.                                             *)
THEOREM BenchmarkInvariant == Spec => []AInv
<1>1. Init => AInv
  BY InitAInv
<1>2. AInv /\ [Next]_vars => AInv'
  BY StepAInv
<1> QED
  BY <1>1, <1>2, PTL DEF Spec

(* What com_recv hands to the receiver thread is the next message of its   *)
(* sender with the pattern of its cycle, although every sender uses one    *)
(* segment for all cycles and destinations (com.c:576-731).                *)
THEOREM MessagesIntact == Spec => []InOrderIntact
<1>1. AInv => InOrderIntact
  BY DEF AInv, ContentInv, Intact, InOrderIntact
<1> QED
  BY <1>1, BenchmarkInvariant, PTL

(* A sender thread that writes the message of a cycle was acknowledged     *)
(* every message of the cycles before by everybody, and nobody has one of  *)
(* this cycle (wait_for_pending_acks, com.c:446-481).                      *)
THEOREM CyclesInLockstep == Spec => []Lockstep
<1>1. AInv => Lockstep
  <2> SUFFICES ASSUME AInv, NEW p \in Ranks, pc[p][Sender] = "fill", NEW q \in Ranks \ {p}
               PROVE  got[q][p] + (IF rpc[q] = "ack" /\ rcv[q].sender_rank = p THEN 1 ELSE 0) = cycle[p]
    BY DEF Lockstep
  <2>1. Sent(p, q) = cycle[p]
    BY AtStart DEF AInv
  <2>2. got[q][p] >= cycle[p]
    BY DEF AInv, CycleInv, Quiet, Early
  <2>3. Sent(p, q) = got[q][p] + CalledNr(p, q) + MailedNr(p, q) + ArrivedNr(p, q) + CopiedNr(p, q)
    BY DEF AInv, TallyInv, Tally
  <2>4. got[q][p] + CopiedNr(p, q) = cycle[p]
    BY <2>1, <2>2, <2>3, NrTypes DEF AInv
  <2> QED
    BY <2>4 DEF CopiedNr, Copied
<1> QED
  BY <1>1, BenchmarkInvariant, PTL

(* A receiver that counted to its total has every message of everybody. *)
LEMMA AllGot ==
  ASSUME AInv, NEW q \in Ranks, received[q] = TotalReceives, NEW p \in Ranks
  PROVE  /\ got[q][p] = IF p = q THEN 0 ELSE Repeat
         /\ ~Mailed(p, q) /\ ~Arrived(p, q)
<1> DEFINE Total == (Ranks \ {q}) \X (0 .. Repeat - 1)
<1>1. \A r \in Ranks : /\ got[q][r] \in Nat /\ got[q][r] <= Sent(r, q) /\ Sent(r, q) <= Repeat
                       /\ got[q][r] = Sent(r, q) => MailedNr(r, q) = 0 /\ ArrivedNr(r, q) = 0
  <2> SUFFICES ASSUME NEW r \in Ranks
               PROVE  /\ got[q][r] \in Nat /\ got[q][r] <= Sent(r, q) /\ Sent(r, q) <= Repeat
                      /\ got[q][r] = Sent(r, q) => MailedNr(r, q) = 0 /\ ArrivedNr(r, q) = 0
    OBVIOUS
  <2>1. Sent(r, q) = got[q][r] + CalledNr(r, q) + MailedNr(r, q) + ArrivedNr(r, q) + CopiedNr(r, q)
    BY DEF AInv, TallyInv, Tally
  <2> QED
    BY <2>1, NrTypes, SentBound DEF AInv
<1>2. got[q][q] = 0 /\ Sent(q, q) = 0
  BY <1>1 DEF Sent
<1>3. Counts(q) \subseteq Total
  BY <1>2 DEF Counts
<1>4. Cardinality(Counts(q)) = Cardinality(Total)
  BY CountsFinite DEF AInv, ReceivedInv
<1>5. IsFiniteSet(Total)
  BY CountsFinite
<1> HIDE DEF Total
<1>6. Counts(q) = Total
  BY <1>3, <1>4, <1>5, FS_Subset
<1>7. CASE p # q
  <2>1. Repeat - 1 \in 0 .. Repeat - 1
    BY Numbers
  <2>2. <<p, Repeat - 1>> \in Counts(q)
    BY <1>6, <1>7, <2>1 DEF Total
  <2>3. Repeat - 1 < got[q][p]
    BY <2>2 DEF Counts
  <2>4. got[q][p] = Repeat /\ Sent(p, q) = Repeat
    <3>1. got[q][p] \in Nat /\ got[q][p] <= Sent(p, q) /\ Sent(p, q) <= Repeat /\ Sent(p, q) \in Nat
      BY <1>1, NrTypes DEF AInv
    <3> QED
      BY <2>3, <3>1, Numbers
  <2> QED
    BY <1>1, <1>7, <2>4 DEF MailedNr, ArrivedNr
<1>8. CASE p = q
  BY <1>1, <1>2, <1>8 DEF MailedNr, ArrivedNr
<1> QED
  BY <1>7, <1>8

(* A receiver thread that ends its loop got Repeat messages of each other  *)
(* process, none of itself, and leaves nothing behind: counting to         *)
(* total_receives (rpBenchmark1/main.c:165) is enough.                     *)
THEOREM EveryMessageOnceEach == Spec => []EveryMessageOnce
<1>1. AInv => EveryMessageOnce
  <2> SUFFICES ASSUME AInv, NEW q \in Ranks, received[q] = TotalReceives
               PROVE  /\ \A p \in Ranks : got[q][p] = IF p = q THEN 0 ELSE Repeat
                      /\ inbox[q] = EmptyInbox
                      /\ ~(InTransit /\ server_box.dest_rank = q)
    BY DEF EveryMessageOnce
  <2>1. \A p \in Ranks : /\ got[q][p] = IF p = q THEN 0 ELSE Repeat
                         /\ ~Mailed(p, q) /\ ~Arrived(p, q)
    BY AllGot
  <2>2. inbox[q].src_rank \notin Ranks
    BY <2>1 DEF Arrived
  <2>3. inbox[q] = EmptyInbox
    <3>1. ~Valid(q)
      BY <2>2 DEF Valid
    <3> QED
      BY <3>1 DEF AInv, IInv, SlotInv
  <2>4. ASSUME InTransit, server_box.dest_rank = q
        PROVE  FALSE
    <3>1. ~Idle
      BY <2>4 DEF InTransit, Idle
    <3>2. CASE Closed
      BY <2>4, <3>2, NoRankNotRank DEF Closed, EmptyBox
    <3>3. CASE \E r \in Ranks, v \in Workers : Delivering(r, v)
      <4>1. PICK r \in Ranks, v \in Workers : Delivering(r, v)
        BY <3>3
      <4>2. server_box.src_rank = r
        BY <4>1 DEF Delivering, RequestOf
      <4> QED
        BY <2>1, <2>4, <4>2 DEF Mailed
    <3> QED
      BY <3>1, <3>2, <3>3 DEF AInv, IInv, BoxInv
  <2> QED
    BY <2>1, <2>3, <2>4
<1> QED
  BY <1>1, BenchmarkInvariant, PTL
-----------------------------------------------------------------------------
(* No circle of waiting threads. *)

(* A process is in com_finalize only when its two threads have ended. *)
LeftInv == \A p \in Ranks : fpc[p] # "run" => Joined(p)

(* A thread that has ended does not go on while its process finalizes. *)
LEMMA LeftStep ==
  ASSUME AInv, LeftInv, [Next]_vars
  PROVE  LeftInv'
<1>1. LockInv /\ SenderInv /\ Sender \in Workers /\ fpc \in [Ranks -> {"run", "drain", "count", "stop", "sentinel", "gone"}]
  BY ClientTypes DEF AInv, IInv, TypeInv, TypeOK
<1>2. ASSUME NEW p \in Ranks, fpc[p] = "run", UNCHANGED fpc,
             \A r \in Ranks \ {p} : cycle'[r] = cycle[r] /\ received'[r] = received[r]
      PROVE  LeftInv'
  BY <1>2 DEF LeftInv, Joined
<1>3. ASSUME UNCHANGED <<fpc, cycle, received>>  PROVE LeftInv'
  BY <1>3 DEF LeftInv, Joined
<1>4. ASSUME NEW p \in Ranks, EndCycle(p)  PROVE LeftInv'
  <2>1. /\ pc[p][Sender] = "ready" /\ UNCHANGED <<fpc, received>>
        /\ cycle' = [cycle EXCEPT ![p] = @ + 1]
    BY <1>4 DEF EndCycle, FinishBuffer, At, finVars
  <2>2. fpc[p] = "run"
    BY <1>1, <2>1 DEF LockInv
  <2>3. \A r \in Ranks \ {p} : cycle'[r] = cycle[r]
    BY <1>1, <2>1 DEF SenderInv
  <2> QED
    BY <1>2, <2>1, <2>2, <2>3
<1>5. ASSUME NEW q \in Ranks, EndReceive(q)  PROVE LeftInv'
  <2>1. /\ rpc[q] = "ack" /\ UNCHANGED <<fpc, cycle>>
        /\ received' = [received EXCEPT ![q] = @ + 1]
    BY <1>5 DEF EndReceive, PostAck, RecvAt, finVars
  <2>2. fpc[q] = "run"
    BY <1>1, <2>1 DEF LockInv
  <2>3. \A r \in Ranks \ {q} : received'[r] = received[r]
    BY <1>1, <2>1 DEF SenderInv
  <2> QED
    BY <1>2, <2>1, <2>2, <2>3
<1>6. ASSUME NEW p \in Ranks, MainThread(p)  PROVE LeftInv'
  <2>1. /\ Joined(p) \/ fpc[p] # "run"
        /\ \A r \in Ranks \ {p} : fpc'[r] = fpc[r]
        /\ UNCHANGED <<cycle, received>>
    BY <1>1, <1>6 DEF MainThread, BeginFinalize, FinalizeStep, FinalizeAwaitAck, FinalizeLock,
                      FinalizeCount, StopAcquireBox, PostSentinel, FinAt, clientVars, finVars
  <2> QED
    BY <2>1 DEF LeftInv, Joined
<1>7. ASSUME \/ \E p \in Ranks : \/ StartCycle(p) \/ FillMessage(p) \/ SendNext(p)
                                 \/ SendStep(p, Sender) /\ UNCHANGED clientVars
             \/ \E q \in Ranks : \/ StartReceive(q)
                                 \/ (CopyPayload(q) \/ ClearInbox(q)) /\ UNCHANGED clientVars
             \/ Router
             \/ UNCHANGED vars
      PROVE  LeftInv'
  <2>1. UNCHANGED <<fpc, cycle, received>>
    BY SMTT(40), <1>7 DEF StartCycle, Prepare, FillMessage, Fill, SendNext, Send, SendStep, LockBuffer, AwaitAck,
                MapBuffer, AcquireBox, PostRequest, AwaitDelivered, ReleaseBox, StartReceive,
                AwaitMessage, CopyPayload, ClearInbox, Router, RouterStep, RouterTake,
                RouterReserve, RouterForward, RouterConfirm, clientVars, finVars, vars, comVars
  <2> QED
    BY <1>3, <2>1
<1> QED
  BY <1>4, <1>5, <1>6, <1>7 DEF Next, SenderThread, ReceiverThread, Terminated

(* No receiver counts more than there is to receive. *)
LEMMA AtMostTotal ==
  ASSUME AInv, NEW q \in Ranks
  PROVE  /\ received[q] \in Nat /\ received[q] <= TotalReceives /\ TotalReceives \in Nat
         /\ (\A p \in Ranks \ {q} : got[q][p] = Repeat) => received[q] = TotalReceives
<1> DEFINE Total == (Ranks \ {q}) \X (0 .. Repeat - 1)
<1>1. \A r \in Ranks : got[q][r] \in Nat /\ got[q][r] <= Sent(r, q)
  <2> SUFFICES ASSUME NEW r \in Ranks  PROVE got[q][r] \in Nat /\ got[q][r] <= Sent(r, q)
    OBVIOUS
  <2>1. Sent(r, q) = got[q][r] + CalledNr(r, q) + MailedNr(r, q) + ArrivedNr(r, q) + CopiedNr(r, q)
    BY DEF AInv, TallyInv, Tally
  <2> QED
    BY <2>1, NrTypes DEF AInv
<1>2. got[q][q] = 0
  BY <1>1 DEF Sent
<1>3. Counts(q) \subseteq Total
  BY <1>2 DEF Counts
<1>4. received[q] = Cardinality(Counts(q)) /\ received[q] \in Nat
  BY DEF AInv, ReceivedInv, SenderInv
<1>5. IsFiniteSet(Total) /\ Cardinality(Total) = TotalReceives
  BY CountsFinite
<1>6. ASSUME \A p \in Ranks \ {q} : got[q][p] = Repeat  PROVE Total \subseteq Counts(q)
  <2> SUFFICES ASSUME NEW p \in Ranks \ {q}, NEW k \in 0 .. Repeat - 1  PROVE <<p, k>> \in Counts(q)
    OBVIOUS
  <2>1. k < got[q][p]
    BY <1>6, Numbers
  <2> QED
    BY <2>1 DEF Counts
<1> HIDE DEF Total
<1>7. Cardinality(Counts(q)) <= Cardinality(Total) /\ Cardinality(Total) \in Nat
  BY <1>3, <1>5, FS_Subset, FS_CardinalityType
<1>8. ASSUME \A p \in Ranks \ {q} : got[q][p] = Repeat  PROVE received[q] = TotalReceives
  <2>1. Counts(q) = Total
    BY <1>3, <1>6, <1>8
  <2> QED
    BY <1>4, <1>5, <2>1
<1> QED
  BY <1>4, <1>5, <1>7, <1>8

(* A message in its inbox is one the receiver still has to receive. *)
LEMMA FullInboxIsReceived ==
  ASSUME AInv, LeftInv, NEW q \in Ranks, slot_full[q] > 0
  PROVE  ReceiverReady(q)
<1>1. inbox[q].src_rank \in Ranks
  BY DEF AInv, IInv, SlotInv, Valid
<1>2. received[q] # TotalReceives
  <2>1. \A p \in Ranks : received[q] = TotalReceives => inbox[q].src_rank # p
    BY AllGot DEF Arrived
  <2> QED
    BY <1>1, <2>1
<1>3. received[q] < TotalReceives
  BY <1>2, AtMostTotal
<1>4. fpc[q] = "run"
  BY <1>2 DEF LeftInv, Joined
<1> QED
  BY <1>3, <1>4 DEF ReceiverReady

(* When no receiver has a message, the layer keeps nobody waiting, every   *)
(* message that was sent was received, and all threads have ended.         *)
LEMMA BenchmarkGoesOn ==
  ASSUME AInv, LeftInv, PermitsHeld, ~RouterReady,
         \A p \in Ranks : ~SenderReady(p) /\ ~ReceiverReady(p) /\ ~MainReady(p)
  PROVE  AllGone
<1>1. IInv /\ SenderInv /\ TallyInv /\ Sender \in Workers /\ \A w \in Workers : w = Sender
  BY ClientTypes DEF AInv
<1>2. \A q \in Ranks : rpc[q] = "idle" /\ slot_full[q] = 0
  <2> TAKE q \in Ranks
  <2>1. rpc[q] = "idle"
    BY DEF ReceiverReady
  <2>2. slot_full[q] \in {0, 1} /\ ~(slot_full[q] > 0)
    BY <1>1, FullInboxIsReceived DEF IInv, SlotInv
  <2> QED
    BY <2>1, <2>2
<1>3. \A p \in Ranks : ~FinalizeReady(p) /\ \A w \in Workers : ~SendStepReady(p, w)
  BY <1>1 DEF SenderReady, MainReady
<1>4. /\ \A p \in Ranks : fpc[p] \in {"run", "gone"}
      /\ \A p \in Ranks, w \in Workers :
           /\ pc[p][w] \in {"idle", "lock", "fill", "ready"}
           /\ pc[p][w] = "lock" => \E v \in Workers : pc[p][v] \in {"fill", "ready"}
      /\ ~InTransit /\ \A q \in Ranks : inbox[q] = EmptyInbox
      /\ (\A p \in Ranks : fpc[p] = "gone") => router_pc = "stopped"
  BY <1>1, <1>2, <1>3, LayerIdle
<1>5. \A p \in Ranks : pc[p][Sender] = "idle"
  <2> TAKE p \in Ranks
  <2>1. pc[p][Sender] \notin {"fill", "ready"}
    BY DEF SenderReady
  <2> QED
    BY <1>1, <1>4, <2>1
<1>6. \A p \in Ranks : cycle[p] = Repeat
  <2> TAKE p \in Ranks
  <2>1. CASE fpc[p] = "run"
    <3>1. ~(cycle[p] < Repeat)
      BY <1>5, <2>1 DEF SenderReady
    <3>2. PICK c \in 0 .. Repeat : c = cycle[p]
      BY <1>1 DEF SenderInv
    <3> QED
      BY <3>1, <3>2, Numbers
  <2>2. CASE fpc[p] # "run"
    BY <2>2 DEF LeftInv, Joined
  <2> QED
    BY <2>1, <2>2
<1>7. \A p, q \in Ranks : p # q => got[q][p] = Repeat
  <2> SUFFICES ASSUME NEW p \in Ranks, NEW q \in Ranks, p # q  PROVE got[q][p] = Repeat
    OBVIOUS
  <2>1. Sent(p, q) = Repeat
    BY <1>1, <1>5, <1>6, AtStart
  <2>2. CalledNr(p, q) = 0 /\ MailedNr(p, q) = 0 /\ ArrivedNr(p, q) = 0 /\ CopiedNr(p, q) = 0
    BY <1>2, <1>4, <1>5, NoRankNotRank
       DEF CalledNr, Called, MailedNr, Mailed, ArrivedNr, Arrived, CopiedNr, Copied, EmptyInbox
  <2>3. Sent(p, q) = got[q][p] + CalledNr(p, q) + MailedNr(p, q) + ArrivedNr(p, q) + CopiedNr(p, q)
    BY <1>1 DEF TallyInv, Tally
  <2> QED
    BY <1>1, <2>1, <2>2, <2>3, NrTypes
<1>8. \A p \in Ranks : Joined(p)
  BY <1>6, <1>7, AtMostTotal DEF Joined
<1>9. \A p \in Ranks : fpc[p] = "gone"
  <2> SUFFICES ASSUME NEW p \in Ranks, fpc[p] = "run"  PROVE FALSE
    BY <1>4
  <2>1. BeginFinalizeReady(p)
    BY <1>1, <1>2, <1>5 DEF BeginFinalizeReady
  <2> QED
    BY <1>8, <2>1 DEF MainReady
<1> QED
  BY <1>4, <1>9 DEF AllGone

(* Never, for any number of processes and cycles, do the sender threads,   *)
(* the receiver threads, the router and com_finalize all wait for each     *)
(* other (rpBenchmark1/main.c:120-190 over com.c).                         *)
THEOREM BenchmarkNeverStuck == Spec => []NeverStuck
<1>1. Init => PermitsHeld /\ LeftInv
  BY PermitsInit DEF Init, ComInit, LeftInv
<1>2. AInv /\ PermitsHeld /\ LeftInv /\ [Next]_vars => PermitsHeld' /\ LeftInv'
  BY ClientStep, PermitsStep, LeftStep DEF AInv
<1>3. AInv /\ PermitsHeld /\ LeftInv => NeverStuck
  BY FullInboxIsReceived, BenchmarkGoesOn DEF NeverStuck
<1> QED
  BY <1>1, <1>2, <1>3, BenchmarkInvariant, PTL DEF Spec
=============================================================================
