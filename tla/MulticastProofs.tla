-------------------------- MODULE MulticastProofs --------------------------
(***************************************************************************)
(* com_mcast over Com implements the safety part of Broadcast, for every   *)
(* number of processes, any senders, scripts and message sizes: every      *)
(* other process sees what a process multicasts, in order and unchanged,   *)
(* and a message is published only when the one before was seen.  And when *)
(* com_mcast returns, its message is with everybody.                       *)
(***************************************************************************)
EXTENDS Multicast, ComProofs

(* Where the latest message of p is that q has not seen: in com_send, in   *)
(* the mailbox, in the inbox of q, or still to be sent to q by the loop.   *)
Called(p, q)  == pc[p][Caller] \in {"box", "post"} /\ call[p][Caller].dest = q
Mailed(p, q)  == InTransit /\ server_box.src_rank = p /\ server_box.dest_rank = q
Waiting(p, q) == inbox[q].src_rank = p /\ rpc[q] # "clear"
Ahead(p, q)   == i[p] > OtherThan(p, 0) /\ q >= i[p]

CalledNr(p, q)  == IF Called(p, q) THEN 1 ELSE 0
MailedNr(p, q)  == IF Mailed(p, q) THEN 1 ELSE 0
WaitingNr(p, q) == IF Waiting(p, q) THEN 1 ELSE 0
AheadNr(p, q)   == IF Ahead(p, q) THEN 1 ELSE 0

OwedNr(p, q) == CalledNr(p, q) + MailedNr(p, q) + WaitingNr(p, q) + AheadNr(p, q)

(* Where a thread in com_mcast is. *)
Stance(p) ==
  /\ pc[p][Caller] = "idle" => i[p] = 0
  /\ pc[p][Caller] # "idle" =>
       /\ done[p] < Rounds /\ i[p] # p /\ i[p] >= OtherThan(p, 0)
       /\ call[p][Caller].size # 0 => msg[p] \in Data
       /\ call[p][Caller].size = 0 => msg[p] = Blank
  /\ pc[p][Caller] = "fill" => call[p][Caller].size # 0
  /\ pc[p][Caller] \in {"lock", "drain", "fill"} => i[p] = OtherThan(p, 0)
  /\ pc[p][Caller] \in {"box", "post", "deliver", "release"} => i[p] > OtherThan(p, 0)
  /\ pc[p][Caller] \in {"box", "post"} => call[p][Caller].dest # p

CallerInv ==
  /\ msg \in [Ranks -> Payloads] /\ i \in [Ranks -> 0 .. NProc] /\ done \in [Ranks -> 0 .. Rounds]
  /\ log \in [Ranks -> Seq(Payloads)] /\ seen \in [Ranks -> [Ranks -> Seq(Payloads)]]
  /\ \A p \in Ranks : Stance(p)

(* A buffer that is about to be filled or sent for the first time. *)
Fresh(p) == pc[p][Caller] \in {"fill", "ready"} /\ i[p] = OtherThan(p, 0)

(* A process has not seen at most the latest message, and a new one is     *)
(* begun when everybody has seen the one before.                           *)
Logged(p, q) ==
  /\ OwedNr(p, q) <= 1
  /\ OwedNr(p, q) = 0 => seen[q][p] = log[p]
  /\ OwedNr(p, q) = 1 => \E x \in Payloads : log[p] = Append(seen[q][p], x)
  /\ Fresh(p) => OwedNr(p, q) = 0

LogInv == \A p, q \in Ranks : p # q => Logged(p, q)

(* What a process has multicast last. *)
Latest(p) == log[p][Len(log[p])]

(* The bytes of a message of p of size s, as long as nobody writes. *)
Bytes(p, s) == IF s = 0 THEN Blank ELSE segment[p]

(* The latest message is what the segment holds while a receiver may still *)
(* have to copy it.                                                        *)
Loaded(p) ==
  pc[p][Caller] \in {"ready", "box", "post", "deliver", "release"} =>
    msg[p] = Bytes(p, call[p][Caller].size)

Published(p) == i[p] > OtherThan(p, 0) => Latest(p) = msg[p]

Carried(p, q) ==
  /\ Mailed(p, q) => Latest(p) = Bytes(p, server_box.size)
  /\ Waiting(p, q) => Latest(p) = Bytes(p, inbox[q].size)

(* Nobody multicasts to itself. *)
Elsewhere(p) == ~Mailed(p, p) /\ inbox[p].src_rank # p

KeptInv ==
  /\ \A p \in Ranks : Loaded(p) /\ Published(p) /\ Elsewhere(p)
  /\ \A p, q \in Ranks : p # q => Carried(p, q)

(* How many ranks the loop has sent to. *)
Passed(p) == IF i[p] <= p THEN i[p] ELSE i[p] - 1

(* The acknowledgements a call waits for are those of its own sends. *)
Pends(p) ==
  /\ pc[p][Caller] \in {"fill", "ready"} => pending_acks[p] = Passed(p)
  /\ pc[p][Caller] \in {"box", "post", "deliver", "release"} => pending_acks[p] + 1 = Passed(p)

PendInv == \A p \in Ranks : Pends(p)

MInv == IInv /\ CallerInv /\ LogInv /\ KeptInv /\ PendInv

(* The numbers of the run. *)
LEMMA Numbers ==
  /\ NProc \in Nat \ {0} /\ Rounds \in Nat
  /\ \A k \in 1 .. Rounds : Script[k] \in Data
<1>1. Script \in Seq(Data)
  BY MulticastAssumption
<1>2. Len(Script) \in Nat /\ \A k \in 1 .. Len(Script) : Script[k] \in Data
  BY <1>1, ElementOfSeq, LenProperties
<1> QED
  BY <1>2, ComAssumption DEF Rounds

(* The types of the variables of com.h that the threads look at. *)
LEMMA ClientTypes ==
  ASSUME IInv
  PROVE  /\ Caller \in Workers /\ \A w \in Workers : w = Caller
         /\ pc \in [Ranks -> [Workers -> Callers]]
         /\ call \in [Ranks -> [Workers -> [size: Nat, dest: Ranks \cup {NoRank}, msg_id: Nat]]]
         /\ rpc \in [Ranks -> {"idle", "copy", "clear", "ack"}]
         /\ rcv \in [Ranks -> [sender_rank: Ranks \cup {NoRank}, sender_msg_id: Nat,
                               size: Nat, msg: Payloads]]
         /\ inbox \in [Ranks -> [src_rank: Ranks \cup {NoRank}, msg_id: Nat, size: Nat,
                                 shm_name: Ranks \cup {NoRank}]]
         /\ segment \in [Ranks -> Payloads]
BY MulticastAssumption DEF IInv, TypeInv, TypeOK

(* The loop index skips the caller and moves up. *)
LEMMA SkipCaller ==
  ASSUME NEW p \in Ranks, NEW r \in 0 .. NProc
  PROVE  /\ OtherThan(p, r) \in 0 .. NProc /\ OtherThan(p, r) # p /\ OtherThan(p, r) >= r
         /\ \A q \in Ranks : q # p => (q >= r <=> q >= OtherThan(p, r))
<1>1. p \in Int /\ 0 <= p /\ p < NProc /\ p + 1 <= NProc /\ r \in Int /\ 0 <= r /\ r <= NProc
  BY Numbers DEF Ranks
<1>2. \A q \in Ranks : q \in Int
  BY Numbers DEF Ranks
<1>3. CASE r = p
  BY <1>1, <1>2, <1>3, Numbers DEF OtherThan
<1>4. CASE r # p
  BY <1>1, <1>2, <1>4, Numbers DEF OtherThan
<1> QED
  BY <1>3, <1>4

(* The first rank of the loop: nobody comes before it but the caller. *)
LEMMA FirstRank ==
  ASSUME NEW p \in Ranks
  PROVE  /\ OtherThan(p, 0) \in 0 .. NProc /\ OtherThan(p, 0) # p
         /\ \A q \in Ranks : q # p => q >= OtherThan(p, 0)
<1>1. 0 \in 0 .. NProc /\ \A q \in Ranks : q >= 0
  BY Numbers DEF Ranks
<1> QED
  BY <1>1, SkipCaller

(* A send moves the loop index past its destination and nobody else. *)
LEMMA NextRank ==
  ASSUME NEW p \in Ranks, NEW d \in Ranks, d # p
  PROVE  /\ OtherThan(p, d + 1) \in 0 .. NProc /\ OtherThan(p, d + 1) # p
         /\ OtherThan(p, d + 1) > d
         /\ \A q \in Ranks : q # p => (q >= OtherThan(p, d + 1) <=> q >= d /\ q # d)
<1>1. d \in Int /\ d + 1 \in 0 .. NProc
  BY Numbers DEF Ranks
<1>2. /\ OtherThan(p, d + 1) \in 0 .. NProc /\ OtherThan(p, d + 1) # p /\ OtherThan(p, d + 1) >= d + 1
      /\ \A q \in Ranks : q # p => (q >= d + 1 <=> q >= OtherThan(p, d + 1))
  BY <1>1, SkipCaller
<1>3. \A q \in Ranks : q \in Int
  BY Numbers DEF Ranks
<1> QED
  BY <1>1, <1>2, <1>3

(* A thread of a process takes a step of a legal client. *)
LEMMA ClientStep ==
  ASSUME CallerInv, IInv, [Next]_vars
  PROVE  [ComNext]_comVars
<1>1. Caller \in Workers
  BY MulticastAssumption
<1>2. ASSUME NEW p \in Ranks, McastPrepare(p)
      PROVE  ComNext
  BY <1>1, <1>2 DEF McastPrepare, ComNext
<1>3. ASSUME NEW p \in Ranks, McastCopy(p)
      PROVE  ComNext
  <2>1. Fill(p, Caller, msg[p]) /\ pc[p][Caller] = "fill"
    BY <1>3 DEF McastCopy, Fill, At
  <2>2. msg[p] \in Data
    BY <2>1 DEF CallerInv, Stance
  <2> QED
    BY <1>1, <2>1, <2>2 DEF ComNext
<1>4. ASSUME NEW p \in Ranks, McastSend(p)
      PROVE  ComNext
  <2>1. Send(p, Caller, i[p]) /\ i[p] < NProc /\ i[p] \in 0 .. NProc
    BY <1>4 DEF McastSend, MoreRanks, CallerInv
  <2>2. i[p] \in Ranks
    BY <2>1, Numbers DEF Ranks
  <2> QED
    BY <1>1, <2>1, <2>2 DEF ComNext
<1>5. ASSUME NEW p \in Ranks, McastReturn(p)
      PROVE  ComNext
  BY <1>1, <1>5 DEF McastReturn, ComNext
<1>6. ASSUME NEW p \in Ranks, SendStep(p, Caller)
      PROVE  ComNext
  BY <1>1, <1>6 DEF ComNext
<1>7. ASSUME NEW p \in Ranks, ReceiverThread(p)
      PROVE  ComNext
  BY <1>7 DEF ReceiverThread, StartReceive, CopyMessage, ComNext
<1>8. ASSUME NEW p \in Ranks, MainThread(p)
      PROVE  ComNext
  BY <1>8 DEF MainThread, ComNext
<1>9. ASSUME Router
      PROVE  ComNext
  BY <1>9 DEF Router, ComNext
<1>10. ASSUME UNCHANGED vars
       PROVE  UNCHANGED comVars
  BY <1>10 DEF vars
<1> QED
  BY <1>2, <1>3, <1>4, <1>5, <1>6, <1>7, <1>8, <1>9, <1>10 DEF Next, CallerThread, Terminated

(* A receiver that copies reads the segment of whom it will acknowledge. *)
LEMMA CopiedFrom ==
  ASSUME IInv, NEW q \in Ranks, RecvAt(q, "copy")
  PROVE  /\ rcv[q].sender_rank \in Ranks /\ rcv[q].sender_rank = inbox[q].src_rank
         /\ rcv[q].sender_rank = inbox[q].shm_name
<1>1. rpc[q] \in Reading
  BY SMTT(40) DEF RecvAt, Reading
<1> QED
  BY <1>1 DEF IInv, SlotInv, Valid

(* The loop of com_mcast keeps its variables in range.                     *)
LEMMA CallerStep ==
  ASSUME IInv, CallerInv, [Next]_vars
  PROVE  CallerInv'
<1> USE Numbers DEF CallerInv, Stance, Callers, At, Goto, RecvAt, FinAt,
       boxVars, inboxVars, ackVars, segVars, lockVars,
       threadVars, recvVars, routerVars, finVars, clientVars, callVars
<1> USE ClientTypes
<1>1. ASSUME NEW p \in Ranks, McastPrepare(p)
      PROVE  CallerInv'
  <2>1. PICK s \in Sizes : /\ Prepare(p, Caller, s)
                           /\ msg' = [msg EXCEPT ![p] = IF s = 0 THEN Blank ELSE Script[done[p] + 1]]
    BY <1>1 DEF McastPrepare
  <2>2. /\ i' = [i EXCEPT ![p] = OtherThan(p, 0)] /\ done[p] < Rounds
        /\ UNCHANGED <<done, log, seen>>
    BY <1>1 DEF McastPrepare
  <2>3. /\ \A a \in Ranks : pc'[a][Caller] = IF a = p THEN "lock" ELSE pc[a][Caller]
        /\ \A a \in Ranks : a # p => call'[a][Caller] = call[a][Caller]
        /\ call'[p][Caller].size = s
    BY <2>1 DEF Prepare, Call
  <2>4. PICK n \in 0 .. Rounds : n = done[p] /\ n < Rounds
    BY <2>2
  <2>5. s # 0 => Script[n + 1] \in Data
    BY <2>4, Numbers
  <2>6. msg' \in [Ranks -> Payloads] /\ (s # 0 => msg'[p] \in Data) /\ (s = 0 => msg'[p] = Blank)
    BY <2>1, <2>4, <2>5 DEF Payloads
  <2>7. OtherThan(p, 0) \in 0 .. NProc /\ OtherThan(p, 0) # p /\ OtherThan(p, 0) >= OtherThan(p, 0)
    BY FirstRank
  <2>8. Stance(p)'
    BY <2>2, <2>3, <2>6, <2>7
  <2>9. \A a \in Ranks : a # p => Stance(a)'
    BY SMTT(40), <2>1, <2>2, <2>3
  <2> QED
    BY ZenonT(40), <2>2, <2>6, <2>7, <2>8, <2>9
<1>2. ASSUME NEW p \in Ranks, McastCopy(p)
      PROVE  CallerInv'
  BY SMTT(40), <1>2 DEF McastCopy, Fill
<1>3. ASSUME NEW p \in Ranks, McastSend(p)
      PROVE  CallerInv'
  <2>1. /\ i' = [i EXCEPT ![p] = OtherThan(p, i[p] + 1)] /\ i[p] < NProc
        /\ UNCHANGED <<msg, done, seen>> /\ pc[p][Caller] = "ready"
        /\ \A a \in Ranks : pc'[a][Caller] = IF a = p THEN "box" ELSE pc[a][Caller]
        /\ \A a \in Ranks : call'[a][Caller].size = call[a][Caller].size
        /\ \A a \in Ranks : call'[a][Caller].dest = IF a = p THEN i[p] ELSE call[a][Caller].dest
        /\ log' = [log EXCEPT ![p] = IF i[p] = OtherThan(p, 0) THEN Append(@, msg[p]) ELSE @]
    BY SMTT(40), <1>3 DEF McastSend, Send, Call, MoreRanks
  <2>2. PICK d \in Ranks : d = i[p] /\ d # p /\ d >= OtherThan(p, 0)
    <3>1. PICK r \in 0 .. NProc : r = i[p] /\ r < NProc /\ r # p /\ r >= OtherThan(p, 0)
      BY <2>1
    <3>2. r \in Ranks
      BY <3>1, Numbers DEF Ranks
    <3> QED
      BY <3>1, <3>2
  <2>3. /\ OtherThan(p, d + 1) \in 0 .. NProc /\ OtherThan(p, d + 1) # p /\ OtherThan(p, d + 1) > d
    BY <2>2, NextRank
  <2>4. OtherThan(p, d + 1) > OtherThan(p, 0)
    <3>1. OtherThan(p, 0) \in 0 .. NProc
      BY FirstRank
    <3>2. d \in Int
      BY DEF Ranks
    <3> QED
      BY <2>2, <2>3, <3>1, <3>2, Numbers
  <2>5. OtherThan(p, d + 1) >= OtherThan(p, 0)
    <3>1. OtherThan(p, 0) \in 0 .. NProc
      BY FirstRank
    <3> QED
      BY <2>3, <2>4, <3>1, Numbers
  <2>6. log' \in [Ranks -> Seq(Payloads)]
    <3>1. Append(log[p], msg[p]) \in Seq(Payloads)
      BY AppendProperties
    <3> QED
      BY <2>1, <3>1
  <2>7. Stance(p)'
    BY ZenonT(40), <2>1, <2>2, <2>3, <2>4, <2>5
  <2>8. ASSUME NEW a \in Ranks, a # p
        PROVE  Stance(a)'
    <3>1. /\ i'[a] = i[a] /\ msg'[a] = msg[a] /\ done'[a] = done[a] /\ pc'[a][Caller] = pc[a][Caller]
          /\ call'[a][Caller].size = call[a][Caller].size
          /\ call'[a][Caller].dest = call[a][Caller].dest
      BY <2>1, <2>8
    <3>2. Stance(a)
      OBVIOUS
    <3> QED
      BY <3>1, <3>2
  <2> QED
    BY ZenonT(40), <2>1, <2>2, <2>3, <2>6, <2>7, <2>8
<1>4. ASSUME NEW p \in Ranks, McastReturn(p)
      PROVE  CallerInv'
  <2>1. /\ i' = [i EXCEPT ![p] = 0] /\ done' = [done EXCEPT ![p] = @ + 1]
        /\ msg' = [msg EXCEPT ![p] = Blank]
        /\ UNCHANGED <<log, seen>> /\ pc[p][Caller] = "ready"
        /\ \A a \in Ranks : pc'[a][Caller] = IF a = p THEN "idle" ELSE pc[a][Caller]
        /\ \A a \in Ranks : a # p => call'[a][Caller] = call[a][Caller]
    BY <1>4 DEF McastReturn, FinishBuffer, UnlockBuffer
  <2>2. PICK n \in 0 .. Rounds : n = done[p] /\ n + 1 \in 0 .. Rounds
    <3>1. PICK n \in 0 .. Rounds : n = done[p] /\ n < Rounds
      BY <2>1
    <3> QED
      BY <3>1, Numbers
  <2>3. done' \in [Ranks -> 0 .. Rounds] /\ i' \in [Ranks -> 0 .. NProc] /\ msg' \in [Ranks -> Payloads]
    <3>1. 0 \in 0 .. NProc /\ Blank \in Payloads
      BY Numbers DEF Payloads
    <3>2. done' = [done EXCEPT ![p] = n + 1]
      BY <2>1, <2>2
    <3> QED
      BY <2>1, <2>2, <3>1, <3>2
  <2>4. ASSUME NEW a \in Ranks
        PROVE  Stance(a)'
    <3>1. CASE a = p
      <4>1. pc'[a][Caller] = "idle" /\ i'[a] = 0
        BY <2>1, <3>1
      <4> QED
        BY <4>1
    <3>2. CASE a # p
      <4>1. /\ i'[a] = i[a] /\ msg'[a] = msg[a] /\ done'[a] = done[a] /\ pc'[a][Caller] = pc[a][Caller]
            /\ call'[a][Caller] = call[a][Caller]
        BY <2>1, <3>2
      <4>2. Stance(a)
        OBVIOUS
      <4> QED
        BY <4>1, <4>2
    <3> QED
      BY <3>1, <3>2
  <2> QED
    BY <2>1, <2>3, <2>4
<1>5. ASSUME NEW p \in Ranks, LockBuffer(p, Caller) /\ UNCHANGED clientVars
      PROVE  CallerInv'
  BY SMTT(40), <1>5 DEF LockBuffer
<1>6. ASSUME NEW p \in Ranks, AwaitAck(p, Caller) /\ UNCHANGED clientVars
      PROVE  CallerInv'
  BY <1>6 DEF AwaitAck, ConsumeAck
<1>7. ASSUME NEW p \in Ranks, MapBuffer(p, Caller) /\ UNCHANGED clientVars
      PROVE  CallerInv'
  BY SMTT(40), <1>7 DEF MapBuffer
<1>8. ASSUME NEW p \in Ranks, AcquireBox(p, Caller) /\ UNCHANGED clientVars
      PROVE  CallerInv'
  BY SMTT(40), <1>8 DEF AcquireBox
<1>9. ASSUME NEW p \in Ranks, PostRequest(p, Caller) /\ UNCHANGED clientVars
      PROVE  CallerInv'
  BY SMTT(40), <1>9 DEF PostRequest
<1>10. ASSUME NEW p \in Ranks, AwaitDelivered(p, Caller) /\ UNCHANGED clientVars
       PROVE  CallerInv'
  BY SMTT(40), <1>10 DEF AwaitDelivered
<1>11. ASSUME NEW p \in Ranks, ReleaseBox(p, Caller) /\ UNCHANGED clientVars
       PROVE  CallerInv'
  BY SMTT(40), <1>11 DEF ReleaseBox, Call
<1>12. ASSUME NEW p \in Ranks, StartReceive(p)
       PROVE  CallerInv'
  BY SMTT(40), <1>12 DEF StartReceive, AwaitMessage
<1>13. ASSUME NEW p \in Ranks, CopyMessage(p)
       PROVE  CallerInv'
  <2>1. /\ UNCHANGED <<msg, i, done, log, pc, call>>
        /\ seen' = [seen EXCEPT ![p][rcv[p].sender_rank] = Append(@, rcv'[p].msg)]
        /\ rcv'[p].msg = IF inbox[p].size = 0 THEN Blank ELSE segment[inbox[p].shm_name]
    BY <1>13 DEF CopyMessage, CopyPayload
  <2>2. PICK r \in Ranks : r = rcv[p].sender_rank /\ r = inbox[p].shm_name
    BY <1>13, CopiedFrom DEF CopyMessage, CopyPayload
  <2>3. rcv'[p].msg \in Payloads
    BY <2>1, <2>2 DEF Payloads
  <2>4. PICK f \in [Ranks -> Seq(Payloads)] : f = seen[p]
    OBVIOUS
  <2>5. [f EXCEPT ![r] = Append(@, rcv'[p].msg)] \in [Ranks -> Seq(Payloads)]
    <3>1. Append(f[r], rcv'[p].msg) \in Seq(Payloads)
      BY <2>3, AppendProperties
    <3> QED
      BY <3>1
  <2>6. seen' \in [Ranks -> [Ranks -> Seq(Payloads)]]
    BY <2>1, <2>2, <2>4, <2>5
  <2>7. \A a \in Ranks : Stance(a)'
    BY <2>1
  <2> QED
    BY <2>1, <2>6, <2>7
<1>14. ASSUME NEW p \in Ranks, ClearInbox(p) /\ UNCHANGED clientVars
       PROVE  CallerInv'
  BY <1>14 DEF ClearInbox
<1>15. ASSUME NEW p \in Ranks, PostAck(p) /\ UNCHANGED clientVars
       PROVE  CallerInv'
  BY <1>15 DEF PostAck
<1>16. ASSUME NEW p \in Ranks, done[p] = Rounds /\ BeginFinalize(p) /\ UNCHANGED clientVars
       PROVE  CallerInv'
  <2>1. /\ UNCHANGED <<msg, i, done, log, seen>> /\ done[p] = Rounds
        /\ \A a \in Ranks : a # p => pc'[a] = pc[a] /\ call'[a] = call[a]
        /\ pc'[p][Caller] = "idle"
    BY <1>16 DEF BeginFinalize
  <2>2. pc[p][Caller] = "idle"
    BY <2>1, Numbers
  <2>3. Stance(p)'
    BY <2>1, <2>2
  <2>4. \A a \in Ranks : a # p => Stance(a)'
    BY SMTT(40), <2>1
  <2>5. \A a \in Ranks : Stance(a)'
    BY ZenonT(40), <2>3, <2>4
  <2> QED
    BY <2>1, <2>5
<1>17. ASSUME NEW p \in Ranks, FinalizeAwaitAck(p) /\ UNCHANGED clientVars
       PROVE  CallerInv'
  BY <1>17 DEF FinalizeAwaitAck, ConsumeAck
<1>18. ASSUME NEW p \in Ranks, FinalizeLock(p) /\ UNCHANGED clientVars
       PROVE  CallerInv'
  BY <1>18 DEF FinalizeLock
<1>19. ASSUME NEW p \in Ranks, FinalizeCount(p) /\ UNCHANGED clientVars
       PROVE  CallerInv'
  BY <1>19 DEF FinalizeCount
<1>20. ASSUME NEW p \in Ranks, StopAcquireBox(p) /\ UNCHANGED clientVars
       PROVE  CallerInv'
  BY <1>20 DEF StopAcquireBox
<1>21. ASSUME NEW p \in Ranks, PostSentinel(p) /\ UNCHANGED clientVars
       PROVE  CallerInv'
  BY <1>21 DEF PostSentinel
<1>22. ASSUME RouterTake /\ UNCHANGED clientVars
       PROVE  CallerInv'
  BY <1>22 DEF RouterTake
<1>23. ASSUME RouterReserve /\ UNCHANGED clientVars
       PROVE  CallerInv'
  BY <1>23 DEF RouterReserve
<1>24. ASSUME RouterForward /\ UNCHANGED clientVars
       PROVE  CallerInv'
  BY <1>24 DEF RouterForward
<1>25. ASSUME RouterConfirm /\ UNCHANGED clientVars
       PROVE  CallerInv'
  BY <1>25 DEF RouterConfirm
<1>26. ASSUME UNCHANGED vars
       PROVE  CallerInv'
  BY <1>26 DEF vars, comVars
<1> QED
  BY ZenonT(40), <1>1, <1>2, <1>3, <1>4, <1>5, <1>6, <1>7, <1>8, <1>9, <1>10, <1>11, <1>12, <1>13, <1>14, <1>15, <1>16, <1>17, <1>18, <1>19, <1>20, <1>21, <1>22, <1>23, <1>24, <1>25, <1>26
  DEF Next, CallerThread, SendStep, ReceiverThread, MainThread, FinalizeStep, Router,
      RouterStep, Terminated

(* The terms of the sum are numbers. *)
LEMMA NrTypes ==
  \A p, q : /\ CalledNr(p, q) \in {0, 1} /\ MailedNr(p, q) \in {0, 1}
            /\ WaitingNr(p, q) \in {0, 1} /\ AheadNr(p, q) \in {0, 1}
            /\ OwedNr(p, q) \in Nat
<1>1. \A p, q : /\ CalledNr(p, q) \in {0, 1} /\ MailedNr(p, q) \in {0, 1}
                /\ WaitingNr(p, q) \in {0, 1} /\ AheadNr(p, q) \in {0, 1}
  BY SMTT(40) DEF CalledNr, MailedNr, WaitingNr, AheadNr
<1> QED
  BY <1>1 DEF OwedNr

(* A message moves from one place to the next, and is nowhere twice.       *)
LEMMA OwedStep ==
  ASSUME IInv, CallerInv, NEW a \in Ranks, NEW b \in Ranks, a # b,
         ~McastSend(a), ~CopyMessage(b), [Next]_vars
  PROVE  OwedNr(a, b)' = OwedNr(a, b)
<1> USE DEF OwedNr, CalledNr, MailedNr, WaitingNr, AheadNr, Called, Mailed, Waiting, Ahead,
       InTransit, At, Goto, RecvAt, FinAt,
       boxVars, inboxVars, ackVars, segVars, lockVars,
       threadVars, recvVars, routerVars, finVars, clientVars, callVars
<1> USE ClientTypes
<1>0. /\ msg \in [Ranks -> Payloads] /\ i \in [Ranks -> 0 .. NProc] /\ done \in [Ranks -> 0 .. Rounds]
      /\ log \in [Ranks -> Seq(Payloads)] /\ seen \in [Ranks -> [Ranks -> Seq(Payloads)]]
      
  BY DEF CallerInv
<1> USE <1>0, NoRankNotRank
<1>1. ASSUME NEW p \in Ranks, McastPrepare(p)
      PROVE  OwedNr(a, b)' = OwedNr(a, b)
  <2>1. /\ UNCHANGED <<boxVars, inboxVars, recvVars, router_pc>>
        /\ i' = [i EXCEPT ![p] = OtherThan(p, 0)] /\ pc[p][Caller] = "idle"
        /\ pc'[a][Caller] = IF a = p THEN "lock" ELSE pc[a][Caller]
        /\ a # p => call'[a][Caller] = call[a][Caller]
    BY <1>1 DEF McastPrepare, Prepare
  <2>2. i[p] = 0
    BY <2>1 DEF CallerInv, Stance
  <2>3. OtherThan(p, 0) \in 0 .. NProc
    BY FirstRank
  <2>4. AheadNr(a, b)' = AheadNr(a, b)
    BY SMTT(40), <2>1, <2>2, <2>3, Numbers
  <2>5. CalledNr(a, b)' = CalledNr(a, b)
    BY <2>1
  <2> QED
    BY ZenonT(40), <2>1, <2>4, <2>5
<1>2. ASSUME NEW p \in Ranks, McastCopy(p)
      PROVE  OwedNr(a, b)' = OwedNr(a, b)
  BY ZenonT(40), <1>2 DEF McastCopy, Fill
<1>3. ASSUME NEW p \in Ranks, McastSend(p)
      PROVE  OwedNr(a, b)' = OwedNr(a, b)
  <2>1. a # p
    BY <1>3
  <2>2. UNCHANGED <<i[a], boxVars, inboxVars, recvVars, router_pc, pc[a][Caller], call[a][Caller]>>
    BY <1>3, <2>1 DEF McastSend, Send
  <2> QED
    BY <2>2
<1>4. ASSUME NEW p \in Ranks, McastReturn(p)
      PROVE  OwedNr(a, b)' = OwedNr(a, b)
  <2>1. /\ UNCHANGED <<boxVars, inboxVars, recvVars, router_pc>>
        /\ pc[p][Caller] = "ready" /\ ~(i[p] < NProc) /\ i' = [i EXCEPT ![p] = 0]
        /\ pc'[a][Caller] = IF a = p THEN "idle" ELSE pc[a][Caller]
        /\ a # p => call'[a][Caller] = call[a][Caller]
    BY <1>4 DEF McastReturn, MoreRanks, FinishBuffer, UnlockBuffer
  <2>2. a = p => ~Ahead(a, b) /\ ~Ahead(a, b)'
    <3>1. b \in Int /\ 0 <= b /\ b < NProc
      BY Numbers DEF Ranks
    <3>2. OtherThan(a, 0) \in 0 .. NProc
      BY FirstRank
    <3>3. a = p => i'[a] = 0 /\ ~(i'[a] > OtherThan(a, 0))
      BY <2>1, <3>2
    <3>4. a = p => ~(b >= i[a])
      <4>1. PICK r \in 0 .. NProc : r = i[a]
        OBVIOUS
      <4> QED
        BY <2>1, <3>1, <4>1, Numbers
    <3> QED
      BY <3>3, <3>4
  <2>3. AheadNr(a, b)' = AheadNr(a, b)
    BY <2>1, <2>2
  <2> QED
    BY <2>1, <2>3
<1>5. ASSUME NEW p \in Ranks, LockBuffer(p, Caller) /\ UNCHANGED clientVars
      PROVE  OwedNr(a, b)' = OwedNr(a, b)
  BY ZenonT(40), <1>5 DEF LockBuffer
<1>6. ASSUME NEW p \in Ranks, AwaitAck(p, Caller) /\ UNCHANGED clientVars
      PROVE  OwedNr(a, b)' = OwedNr(a, b)
  BY <1>6 DEF AwaitAck, ConsumeAck
<1>7. ASSUME NEW p \in Ranks, MapBuffer(p, Caller) /\ UNCHANGED clientVars
      PROVE  OwedNr(a, b)' = OwedNr(a, b)
  BY ZenonT(40), <1>7 DEF MapBuffer
<1>8. ASSUME NEW p \in Ranks, AcquireBox(p, Caller) /\ UNCHANGED clientVars
      PROVE  OwedNr(a, b)' = OwedNr(a, b)
  <2>1. /\ UNCHANGED <<i, server_box, box_full, inboxVars, recvVars, router_pc, call>>
        /\ pc[p][Caller] = "box" /\ pc'[a][Caller] = IF a = p THEN "post" ELSE pc[a][Caller]
    BY <1>8 DEF AcquireBox
  <2>2. CalledNr(a, b)' = CalledNr(a, b)
    BY <2>1
  <2> QED
    BY <2>1, <2>2
<1>9. ASSUME NEW p \in Ranks, PostRequest(p, Caller) /\ UNCHANGED clientVars
      PROVE  OwedNr(a, b)' = OwedNr(a, b)
  <2>1. /\ UNCHANGED <<i, inboxVars, recvVars, router_pc, call>>
        /\ pc[p][Caller] = "post" /\ box_full' = box_full + 1
        /\ server_box'.src_rank = p /\ server_box'.dest_rank = call[p][Caller].dest
        /\ pc'[a][Caller] = IF a = p THEN "deliver" ELSE pc[a][Caller]
    BY <1>9 DEF PostRequest
  <2>2. box_full = 0 /\ router_pc = "wait"
    BY <2>1 DEF IInv, BoxInv, Idle
  <2>3. /\ ~Mailed(a, b) /\ ~(Called(a, b)' /\ Mailed(a, b)')
        /\ Called(a, b) <=> Called(a, b)' \/ Mailed(a, b)'
    <3>1. ~Mailed(a, b)
      BY <2>2
    <3>2. CASE a = p
      BY SMTT(40), <2>1, <2>2, <3>1, <3>2
    <3>3. CASE a # p
      BY <2>1, <3>1, <3>3
    <3> QED
      BY <3>2, <3>3
  <2>4. (Waiting(a, b)' <=> Waiting(a, b)) /\ (Ahead(a, b)' <=> Ahead(a, b))
    BY <2>1
  <2>5. CalledNr(a, b)' + MailedNr(a, b)' = CalledNr(a, b) + MailedNr(a, b)
    <3>1. CASE Called(a, b)'
      <4>1. CalledNr(a, b)' = 1 /\ CalledNr(a, b) = 1
        BY <2>3, <3>1
      <4>2. MailedNr(a, b)' = 0 /\ MailedNr(a, b) = 0
        BY <2>3, <3>1
      <4> QED
        BY <4>1, <4>2
    <3>2. CASE Mailed(a, b)'
      <4>1. CalledNr(a, b)' = 0 /\ CalledNr(a, b) = 1
        BY <2>3, <3>2
      <4>2. MailedNr(a, b)' = 1 /\ MailedNr(a, b) = 0
        BY <2>3, <3>2
      <4> QED
        BY <4>1, <4>2
    <3>3. CASE ~Called(a, b)' /\ ~Mailed(a, b)'
      <4>1. CalledNr(a, b)' = 0 /\ CalledNr(a, b) = 0
        BY <2>3, <3>3
      <4>2. MailedNr(a, b)' = 0 /\ MailedNr(a, b) = 0
        BY <2>3, <3>3
      <4> QED
        BY <4>1, <4>2
    <3> QED
      BY <3>1, <3>2, <3>3
  <2>6. WaitingNr(a, b)' = WaitingNr(a, b) /\ AheadNr(a, b)' = AheadNr(a, b)
    BY <2>4
  <2> QED
    BY ZenonT(40), <2>5, <2>6
<1>10. ASSUME NEW p \in Ranks, AwaitDelivered(p, Caller) /\ UNCHANGED clientVars
       PROVE  OwedNr(a, b)' = OwedNr(a, b)
  BY ZenonT(40), <1>10 DEF AwaitDelivered
<1>11. ASSUME NEW p \in Ranks, ReleaseBox(p, Caller) /\ UNCHANGED clientVars
       PROVE  OwedNr(a, b)' = OwedNr(a, b)
  BY SMTT(40), <1>11 DEF ReleaseBox, Call
<1>12. ASSUME NEW p \in Ranks, StartReceive(p)
       PROVE  OwedNr(a, b)' = OwedNr(a, b)
  BY <1>12 DEF StartReceive, AwaitMessage
<1>13. ASSUME NEW p \in Ranks, CopyMessage(p)
       PROVE  OwedNr(a, b)' = OwedNr(a, b)
  <2>1. b # p
    BY <1>13
  <2>2. UNCHANGED <<i, boxVars, inboxVars, rpc[b], router_pc, pc, call>>
    BY <1>13, <2>1 DEF CopyMessage, CopyPayload
  <2> QED
    BY <2>2
<1>14. ASSUME NEW p \in Ranks, ClearInbox(p) /\ UNCHANGED clientVars
       PROVE  OwedNr(a, b)' = OwedNr(a, b)
  <2>1. /\ UNCHANGED <<i, boxVars, router_pc, pc, call>>
        /\ inbox'[b].src_rank = IF b = p THEN NoRank ELSE inbox[b].src_rank
        /\ rpc[p] = "clear" /\ rpc'[b] = IF b = p THEN "ack" ELSE rpc[b]
    BY <1>14 DEF ClearInbox, EmptyInbox
  <2>2. WaitingNr(a, b)' = WaitingNr(a, b)
    BY <2>1
  <2> QED
    BY <2>1, <2>2
<1>15. ASSUME NEW p \in Ranks, PostAck(p) /\ UNCHANGED clientVars
       PROVE  OwedNr(a, b)' = OwedNr(a, b)
  BY <1>15 DEF PostAck
<1>16. ASSUME NEW p \in Ranks, done[p] = Rounds /\ BeginFinalize(p) /\ UNCHANGED clientVars
       PROVE  OwedNr(a, b)' = OwedNr(a, b)
  BY <1>16 DEF BeginFinalize
<1>17. ASSUME NEW p \in Ranks, FinalizeAwaitAck(p) /\ UNCHANGED clientVars
       PROVE  OwedNr(a, b)' = OwedNr(a, b)
  BY <1>17 DEF FinalizeAwaitAck, ConsumeAck
<1>18. ASSUME NEW p \in Ranks, FinalizeLock(p) /\ UNCHANGED clientVars
       PROVE  OwedNr(a, b)' = OwedNr(a, b)
  BY <1>18 DEF FinalizeLock
<1>19. ASSUME NEW p \in Ranks, FinalizeCount(p) /\ UNCHANGED clientVars
       PROVE  OwedNr(a, b)' = OwedNr(a, b)
  BY <1>19 DEF FinalizeCount
<1>20. ASSUME NEW p \in Ranks, StopAcquireBox(p) /\ UNCHANGED clientVars
       PROVE  OwedNr(a, b)' = OwedNr(a, b)
  BY <1>20 DEF StopAcquireBox
<1>21. ASSUME NEW p \in Ranks, PostSentinel(p) /\ UNCHANGED clientVars
       PROVE  OwedNr(a, b)' = OwedNr(a, b)
  <2>1. /\ UNCHANGED <<i, inboxVars, recvVars, router_pc, pc, call>>
        /\ fpc[p] = "sentinel" /\ server_box' = EmptyBox
    BY <1>21 DEF PostSentinel
  <2>2. box_full = 0 /\ router_pc = "wait"
    BY <2>1 DEF IInv, BoxInv, Idle
  <2>3. MailedNr(a, b)' = MailedNr(a, b)
    BY <2>1, <2>2 DEF EmptyBox
  <2> QED
    BY <2>1, <2>3
<1>22. ASSUME RouterTake /\ UNCHANGED clientVars
       PROVE  OwedNr(a, b)' = OwedNr(a, b)
  BY <1>22 DEF RouterTake
<1>23. ASSUME RouterReserve /\ UNCHANGED clientVars
       PROVE  OwedNr(a, b)' = OwedNr(a, b)
  BY <1>23 DEF RouterReserve
<1>24. ASSUME RouterForward /\ UNCHANGED clientVars
       PROVE  OwedNr(a, b)' = OwedNr(a, b)
  <2>1. /\ UNCHANGED <<i, boxVars, recvVars, pc, call>>
        /\ router_pc = "forward" /\ router_pc' = "confirm"
        /\ inbox'[b].src_rank = IF b = router_dest THEN server_box.src_rank ELSE inbox[b].src_rank
    BY <1>24 DEF RouterForward
  <2>2. box_full = 0 /\ router_dest = server_box.dest_rank
    BY <2>1 DEF IInv, BoxInv, Idle, Posted, Routing, Confirmed, Stopped
  <2>3. b = router_dest => inbox[b].src_rank = NoRank /\ rpc[b] # "clear"
    <3>1. SlotInv
      BY DEF IInv
    <3>2. b = router_dest => rpc[b] \notin Reading /\ inbox[b] = EmptyInbox
      BY <2>1, <3>1 DEF SlotInv, Forwarding
    <3> QED
      BY <3>2 DEF EmptyInbox, Reading
  <2>4. MailedNr(a, b)' = 0 /\ WaitingNr(a, b)' = MailedNr(a, b) + WaitingNr(a, b)
    <3>1. ~Mailed(a, b)'
      BY <2>1, <2>2
    <3>2. CASE b = router_dest
      <4>1. ~Waiting(a, b) /\ (Waiting(a, b)' <=> Mailed(a, b))
        BY <2>1, <2>2, <2>3, <3>2
      <4> QED
        BY <3>1, <4>1
    <3>3. CASE b # router_dest
      <4>1. ~Mailed(a, b) /\ (Waiting(a, b)' <=> Waiting(a, b))
        BY <2>1, <2>2, <3>3
      <4> QED
        BY <3>1, <4>1
    <3> QED
      BY <3>2, <3>3
  <2>5. AheadNr(a, b)' = AheadNr(a, b) /\ CalledNr(a, b)' = CalledNr(a, b)
    BY <2>1
  <2> QED
    BY SMTT(40), <2>4, <2>5, NrTypes DEF OwedNr
<1>25. ASSUME RouterConfirm /\ UNCHANGED clientVars
       PROVE  OwedNr(a, b)' = OwedNr(a, b)
  BY <1>25 DEF RouterConfirm
<1>26. ASSUME UNCHANGED vars
       PROVE  OwedNr(a, b)' = OwedNr(a, b)
  BY <1>26 DEF vars, comVars
<1> QED
  BY <1>1, <1>2, <1>3, <1>4, <1>5, <1>6, <1>7, <1>8, <1>9, <1>10, <1>11, <1>12, <1>13, <1>14, <1>15, <1>16, <1>17, <1>18, <1>19, <1>20, <1>21, <1>22, <1>23, <1>24, <1>25, <1>26
  DEF Next, CallerThread, SendStep, ReceiverThread, MainThread, FinalizeStep, Router,
      RouterStep, Terminated

(* A buffer is prepared for its first send by com_prepare_send_buffer.     *)
LEMMA FreshStep ==
  ASSUME IInv, CallerInv, NEW a \in Ranks, ~McastSend(a), [Next]_vars
  PROVE  Fresh(a)' => Fresh(a) \/ MapBuffer(a, Caller)
<1> USE DEF Fresh, At, Goto, RecvAt, FinAt,
       boxVars, inboxVars, ackVars, segVars, lockVars,
       threadVars, recvVars, routerVars, finVars, clientVars, callVars
<1> USE ClientTypes
<1>0. /\ msg \in [Ranks -> Payloads] /\ i \in [Ranks -> 0 .. NProc] /\ done \in [Ranks -> 0 .. Rounds]
      /\ log \in [Ranks -> Seq(Payloads)] /\ seen \in [Ranks -> [Ranks -> Seq(Payloads)]]
      
  BY DEF CallerInv
<1> USE <1>0, NoRankNotRank
<1>1. ASSUME NEW p \in Ranks, McastPrepare(p)
      PROVE  Fresh(a)' => Fresh(a) \/ MapBuffer(a, Caller)
  <2>1. a # p => UNCHANGED <<i[a], pc[a][Caller]>>
    BY <1>1 DEF McastPrepare, Prepare
  <2>2. pc'[p][Caller] = "lock"
    BY <1>1 DEF McastPrepare, Prepare
  <2> QED
    BY <2>1, <2>2
<1>2. ASSUME NEW p \in Ranks, McastCopy(p)
      PROVE  Fresh(a)' => Fresh(a) \/ MapBuffer(a, Caller)
  BY <1>2 DEF McastCopy, Fill
<1>3. ASSUME NEW p \in Ranks, McastSend(p)
      PROVE  Fresh(a)' => Fresh(a) \/ MapBuffer(a, Caller)
  <2>1. UNCHANGED <<i[a], pc[a][Caller]>>
    BY <1>3 DEF McastSend, Send
  <2> QED
    BY <2>1
<1>4. ASSUME NEW p \in Ranks, McastReturn(p)
      PROVE  Fresh(a)' => Fresh(a) \/ MapBuffer(a, Caller)
  BY <1>4 DEF McastReturn, FinishBuffer, UnlockBuffer
<1>5. ASSUME NEW p \in Ranks, LockBuffer(p, Caller) /\ UNCHANGED clientVars
      PROVE  Fresh(a)' => Fresh(a) \/ MapBuffer(a, Caller)
  BY <1>5 DEF LockBuffer
<1>6. ASSUME NEW p \in Ranks, AwaitAck(p, Caller) /\ UNCHANGED clientVars
      PROVE  Fresh(a)' => Fresh(a) \/ MapBuffer(a, Caller)
  BY <1>6 DEF AwaitAck, ConsumeAck
<1>7. ASSUME NEW p \in Ranks, MapBuffer(p, Caller) /\ UNCHANGED clientVars
      PROVE  Fresh(a)' => Fresh(a) \/ MapBuffer(a, Caller)
  <2>1. CASE p = a
    BY <1>7, <2>1
  <2>2. CASE p # a
    <3>1. UNCHANGED <<i, pc[a][Caller]>>
      BY <1>7, <2>2 DEF MapBuffer
    <3> QED
      BY <3>1
  <2> QED
    BY <2>1, <2>2
<1>8. ASSUME NEW p \in Ranks, AcquireBox(p, Caller) /\ UNCHANGED clientVars
      PROVE  Fresh(a)' => Fresh(a) \/ MapBuffer(a, Caller)
  BY <1>8 DEF AcquireBox
<1>9. ASSUME NEW p \in Ranks, PostRequest(p, Caller) /\ UNCHANGED clientVars
      PROVE  Fresh(a)' => Fresh(a) \/ MapBuffer(a, Caller)
  BY <1>9 DEF PostRequest
<1>10. ASSUME NEW p \in Ranks, AwaitDelivered(p, Caller) /\ UNCHANGED clientVars
       PROVE  Fresh(a)' => Fresh(a) \/ MapBuffer(a, Caller)
  BY <1>10 DEF AwaitDelivered
<1>11. ASSUME NEW p \in Ranks, ReleaseBox(p, Caller) /\ UNCHANGED clientVars
       PROVE  Fresh(a)' => Fresh(a) \/ MapBuffer(a, Caller)
  <2>1. UNCHANGED i /\ pc[p][Caller] = "release" /\ (a # p => pc'[a][Caller] = pc[a][Caller])
    BY <1>11 DEF ReleaseBox
  <2>2. Stance(p) /\ OtherThan(p, 0) \in 0 .. NProc
    BY FirstRank DEF CallerInv
  <2>3. i[p] > OtherThan(p, 0) /\ i[p] \in 0 .. NProc
    BY <2>1, <2>2 DEF Stance
  <2>4. i[p] # OtherThan(p, 0)
    BY <2>2, <2>3
  <2>5. CASE a = p
    BY <2>1, <2>4, <2>5
  <2>6. CASE a # p
    BY <2>1, <2>6
  <2> QED
    BY <2>5, <2>6
<1>12. ASSUME NEW p \in Ranks, StartReceive(p)
       PROVE  Fresh(a)' => Fresh(a) \/ MapBuffer(a, Caller)
  BY <1>12 DEF StartReceive, AwaitMessage
<1>13. ASSUME NEW p \in Ranks, CopyMessage(p)
       PROVE  Fresh(a)' => Fresh(a) \/ MapBuffer(a, Caller)
  BY <1>13 DEF CopyMessage, CopyPayload
<1>14. ASSUME NEW p \in Ranks, ClearInbox(p) /\ UNCHANGED clientVars
       PROVE  Fresh(a)' => Fresh(a) \/ MapBuffer(a, Caller)
  BY <1>14 DEF ClearInbox
<1>15. ASSUME NEW p \in Ranks, PostAck(p) /\ UNCHANGED clientVars
       PROVE  Fresh(a)' => Fresh(a) \/ MapBuffer(a, Caller)
  BY <1>15 DEF PostAck
<1>16. ASSUME NEW p \in Ranks, done[p] = Rounds /\ BeginFinalize(p) /\ UNCHANGED clientVars
       PROVE  Fresh(a)' => Fresh(a) \/ MapBuffer(a, Caller)
  BY <1>16 DEF BeginFinalize
<1>17. ASSUME NEW p \in Ranks, FinalizeAwaitAck(p) /\ UNCHANGED clientVars
       PROVE  Fresh(a)' => Fresh(a) \/ MapBuffer(a, Caller)
  BY <1>17 DEF FinalizeAwaitAck, ConsumeAck
<1>18. ASSUME NEW p \in Ranks, FinalizeLock(p) /\ UNCHANGED clientVars
       PROVE  Fresh(a)' => Fresh(a) \/ MapBuffer(a, Caller)
  BY <1>18 DEF FinalizeLock
<1>19. ASSUME NEW p \in Ranks, FinalizeCount(p) /\ UNCHANGED clientVars
       PROVE  Fresh(a)' => Fresh(a) \/ MapBuffer(a, Caller)
  BY <1>19 DEF FinalizeCount
<1>20. ASSUME NEW p \in Ranks, StopAcquireBox(p) /\ UNCHANGED clientVars
       PROVE  Fresh(a)' => Fresh(a) \/ MapBuffer(a, Caller)
  BY <1>20 DEF StopAcquireBox
<1>21. ASSUME NEW p \in Ranks, PostSentinel(p) /\ UNCHANGED clientVars
       PROVE  Fresh(a)' => Fresh(a) \/ MapBuffer(a, Caller)
  BY <1>21 DEF PostSentinel
<1>22. ASSUME RouterTake /\ UNCHANGED clientVars
       PROVE  Fresh(a)' => Fresh(a) \/ MapBuffer(a, Caller)
  BY <1>22 DEF RouterTake
<1>23. ASSUME RouterReserve /\ UNCHANGED clientVars
       PROVE  Fresh(a)' => Fresh(a) \/ MapBuffer(a, Caller)
  BY <1>23 DEF RouterReserve
<1>24. ASSUME RouterForward /\ UNCHANGED clientVars
       PROVE  Fresh(a)' => Fresh(a) \/ MapBuffer(a, Caller)
  BY <1>24 DEF RouterForward
<1>25. ASSUME RouterConfirm /\ UNCHANGED clientVars
       PROVE  Fresh(a)' => Fresh(a) \/ MapBuffer(a, Caller)
  BY <1>25 DEF RouterConfirm
<1>26. ASSUME UNCHANGED vars
       PROVE  Fresh(a)' => Fresh(a) \/ MapBuffer(a, Caller)
  BY <1>26 DEF vars, comVars
<1> QED
  BY <1>1, <1>2, <1>3, <1>4, <1>5, <1>6, <1>7, <1>8, <1>9, <1>10, <1>11, <1>12, <1>13, <1>14, <1>15, <1>16, <1>17, <1>18, <1>19, <1>20, <1>21, <1>22, <1>23, <1>24, <1>25, <1>26
  DEF Next, CallerThread, SendStep, ReceiverThread, MainThread, FinalizeStep, Router,
      RouterStep, Terminated

(* Only com_mcast logs, and only the copy of a message is seeing it. *)
LEMMA LogsSame ==
  ASSUME IInv, CallerInv, NEW a \in Ranks, NEW b \in Ranks, a # b, [Next]_vars,
         ~McastSend(a), ~CopyMessage(b)
  PROVE  log'[a] = log[a] /\ seen'[b][a] = seen[b][a]
<1>1. ASSUME UNCHANGED <<log, seen>>
      PROVE  log'[a] = log[a] /\ seen'[b][a] = seen[b][a]
  BY <1>1
<1>2. ASSUME NEW p \in Ranks, McastSend(p)
      PROVE  log'[a] = log[a] /\ seen'[b][a] = seen[b][a]
  <2>1. p # a /\ UNCHANGED seen
        /\ log' = [log EXCEPT ![p] = IF i[p] = OtherThan(p, 0) THEN Append(@, msg[p]) ELSE @]
    BY <1>2 DEF McastSend
  <2> QED
    BY <2>1 DEF CallerInv
<1>3. ASSUME NEW q \in Ranks, CopyMessage(q)
      PROVE  log'[a] = log[a] /\ seen'[b][a] = seen[b][a]
  <2>1. q # b /\ UNCHANGED log
        /\ seen' = [seen EXCEPT ![q][rcv[q].sender_rank] = Append(@, rcv'[q].msg)]
    BY <1>3 DEF CopyMessage
  <2> QED
    BY <2>1 DEF CallerInv
<1>4. ASSUME NEW p \in Ranks, McastPrepare(p) \/ McastCopy(p) \/ McastReturn(p) \/ StartReceive(p)
      PROVE  UNCHANGED <<log, seen>>
  BY <1>4 DEF McastPrepare, McastCopy, McastReturn, StartReceive, clientVars
<1> QED
  BY <1>1, <1>2, <1>3, <1>4 DEF Next, CallerThread, ReceiverThread, MainThread, Router, Terminated,
     vars, clientVars

(* A thread that waits for no confirmation has nothing in the mailbox. *)
LEMMA NothingMailed ==
  ASSUME IInv, NEW a \in Ranks, pc[a][Caller] # "deliver"
  PROVE  ~(InTransit /\ server_box.src_rank = a)
<1> SUFFICES ASSUME InTransit, server_box.src_rank = a
    PROVE  FALSE
  OBVIOUS
<1>1. ~Idle
  BY DEF InTransit, Idle
<1>2. CASE Closed
  BY <1>2, NoRankNotRank DEF Closed, EmptyBox
<1>3. CASE \E r \in Ranks, v \in Workers : Delivering(r, v)
  BY <1>3, ClientTypes DEF Delivering, RequestOf
<1> QED
  BY <1>1, <1>2, <1>3 DEF IInv, BoxInv

(* When the acknowledgements are drained everybody has seen everything. *)
LEMMA NothingOwed ==
  ASSUME IInv, CallerInv, NEW a \in Ranks, NEW b \in Ranks, a # b,
         pc[a][Caller] = "drain", pending_acks[a] = 0
  PROVE  OwedNr(a, b) = 0
<1>1. \A w \in Workers : pc[a][w] = "drain"
  BY ClientTypes
<1>2. Uncounted(a) = 0
  BY <1>1 DEF Uncounted
<1>3. ~Waiting(a, b) /\ ~Called(a, b)
  BY <1>2, NothingOut DEF Waiting, Called
<1>4. ~Mailed(a, b)
  BY NothingMailed DEF Mailed
<1>5. ~Ahead(a, b)
  <2>1. i[a] = OtherThan(a, 0) /\ OtherThan(a, 0) \in 0 .. NProc
    BY FirstRank DEF CallerInv, Stance
  <2> QED
    BY <2>1 DEF Ahead
<1> QED
  BY <1>3, <1>4, <1>5 DEF OwedNr, CalledNr, MailedNr, WaitingNr, AheadNr

(* One of the places has the message, or none. *)
LEMMA OneOwed ==
  ASSUME NEW a, NEW b
  PROVE  /\ OwedNr(a, b) = 0 <=> ~Called(a, b) /\ ~Mailed(a, b) /\ ~Waiting(a, b) /\ ~Ahead(a, b)
         /\ OwedNr(a, b) <= 1 =>
              /\ Waiting(a, b) => OwedNr(a, b) = 1 /\ ~Called(a, b) /\ ~Mailed(a, b) /\ ~Ahead(a, b)
              /\ Ahead(a, b) => OwedNr(a, b) = 1 /\ ~Called(a, b) /\ ~Mailed(a, b) /\ ~Waiting(a, b)
BY DEF OwedNr, CalledNr, MailedNr, WaitingNr, AheadNr

(* One send of the loop. *)
LEMMA SendEffect ==
  ASSUME IInv, CallerInv, NEW a \in Ranks, McastSend(a)
  PROVE  /\ pc[a][Caller] = "ready" /\ i[a] \in Ranks /\ i[a] # a /\ pc'[a][Caller] = "box"
         /\ i[a] >= OtherThan(a, 0) /\ i'[a] = OtherThan(a, i[a] + 1)
         /\ i'[a] > OtherThan(a, 0)
         /\ call'[a][Caller].dest = i[a]
         /\ UNCHANGED <<boxVars, inboxVars, recvVars, router_pc, msg, seen, segment>>
         /\ log'[a] = IF i[a] = OtherThan(a, 0) THEN Append(log[a], msg[a]) ELSE log[a]
<1>1. /\ pc[a][Caller] = "ready" /\ pc'[a][Caller] = "box" /\ i'[a] = OtherThan(a, i[a] + 1)
      /\ call'[a][Caller].dest = i[a] /\ i[a] < NProc
      /\ UNCHANGED <<boxVars, inboxVars, recvVars, router_pc, msg, seen, segment>>
      /\ log'[a] = IF i[a] = OtherThan(a, 0) THEN Append(log[a], msg[a]) ELSE log[a]
  <2> USE ClientTypes
  <2>1. i \in [Ranks -> 0 .. NProc] /\ log \in [Ranks -> Seq(Payloads)]
    BY DEF CallerInv
  <2>2. /\ At(a, Caller, "ready") /\ pc' = [pc EXCEPT ![a][Caller] = "box"]
        /\ call' = [call EXCEPT ![a][Caller] = [size |-> @.size, dest |-> i[a], msg_id |-> next_msg_id[a]]]
        /\ UNCHANGED <<boxVars, inboxVars, recvVars, router_pc, segment>>
    BY DEF McastSend, Send, Call, Goto, segVars, routerVars
  <2>3. /\ i[a] < NProc /\ i' = [i EXCEPT ![a] = OtherThan(a, @ + 1)]
        /\ log' = [log EXCEPT ![a] = IF i[a] = OtherThan(a, 0) THEN Append(@, msg[a]) ELSE @]
        /\ UNCHANGED <<msg, seen>>
    BY DEF McastSend, MoreRanks
  <2>4. pc[a][Caller] = "ready" /\ pc'[a][Caller] = "box"
    BY <2>2 DEF At
  <2>5. call'[a][Caller].dest = i[a]
    BY <2>2
  <2> QED
    BY <2>1, <2>2, <2>3, <2>4, <2>5
<1>2. PICK r \in 0 .. NProc : r = i[a] /\ r < NProc /\ r # a /\ r >= OtherThan(a, 0)
  BY <1>1 DEF CallerInv, Stance
<1>3. r \in Ranks
  BY <1>2, Numbers DEF Ranks
<1>4. OtherThan(a, 0) \in 0 .. NProc
  BY FirstRank
<1>5. OtherThan(a, r + 1) \in 0 .. NProc /\ OtherThan(a, r + 1) > r
  BY <1>2, <1>3, NextRank
<1>6. OtherThan(a, r + 1) > OtherThan(a, 0)
  BY <1>2, <1>4, <1>5, Numbers
<1> QED
  BY <1>1, <1>2, <1>3, <1>6

(* What the loop owes to b, before and after a send. *)
LEMMA SendOwes ==
  ASSUME IInv, CallerInv, NEW a \in Ranks, NEW b \in Ranks, a # b, McastSend(a)
  PROVE  /\ ~Called(a, b)
         /\ Called(a, b)' <=> b = i[a]
         /\ Mailed(a, b)' <=> Mailed(a, b)
         /\ Waiting(a, b)' <=> Waiting(a, b)
         /\ Ahead(a, b)' <=> b >= i[a] /\ b # i[a]
         /\ i[a] = OtherThan(a, 0) => b >= i[a]
         /\ i[a] # OtherThan(a, 0) => (Ahead(a, b) <=> b >= i[a])
<1>1. PICK d \in Ranks : /\ d = i[a] /\ d # a /\ d >= OtherThan(a, 0)
                         /\ i'[a] = OtherThan(a, d + 1) /\ i'[a] > OtherThan(a, 0)
  BY SendEffect
<1>2. \A q \in Ranks : q # a => (q >= OtherThan(a, d + 1) <=> q >= d /\ q # d)
  BY <1>1, NextRank
<1>3. b >= OtherThan(a, 0) /\ OtherThan(a, 0) \in 0 .. NProc
  BY FirstRank
<1>4. d \in Int
  BY DEF Ranks
<1>5. Ahead(a, b)' <=> b >= d /\ b # d
  BY <1>1, <1>2 DEF Ahead
<1>6. d # OtherThan(a, 0) => (Ahead(a, b) <=> b >= d)
  BY <1>1, <1>3, <1>4 DEF Ahead
<1>7. /\ ~Called(a, b) /\ (Called(a, b)' <=> b = d)
      /\ (Mailed(a, b)' <=> Mailed(a, b)) /\ (Waiting(a, b)' <=> Waiting(a, b))
  BY SMTT(40), <1>1, SendEffect DEF Called, Mailed, Waiting, InTransit, boxVars, inboxVars, recvVars
<1> QED
  BY <1>1, <1>3, <1>5, <1>6, <1>7

(* What the copy of a message delivers is the latest of its sender. *)
LEMMA CopyEffect ==
  ASSUME IInv, CallerInv, KeptInv, NEW b \in Ranks, CopyMessage(b)
  PROVE  \E s \in Ranks :
           /\ s = rcv[b].sender_rank /\ s # b
           /\ Waiting(s, b) /\ ~Waiting(s, b)'
           /\ \A a \in Ranks : a # s => seen'[b][a] = seen[b][a] /\ ~Waiting(a, b) /\ ~Waiting(a, b)'
           /\ seen'[b][s] = Append(seen[b][s], Latest(s))
           /\ UNCHANGED <<callVars, log, pc, call, boxVars, router_pc>>
<1>1. /\ RecvAt(b, "copy") /\ rpc'[b] = "clear"
      /\ UNCHANGED <<callVars, log, pc, call, boxVars, inbox, router_pc>>
      /\ seen' = [seen EXCEPT ![b][rcv[b].sender_rank] = Append(@, rcv'[b].msg)]
  BY ClientTypes DEF CopyMessage, CopyPayload, threadVars, routerVars, inboxVars
<1>2. PICK s \in Ranks : s = rcv[b].sender_rank /\ s = inbox[b].src_rank /\ s = inbox[b].shm_name
  BY <1>1, CopiedFrom
<1>3. s # b
  BY <1>2 DEF KeptInv, Elsewhere
<1>4. Waiting(s, b)
  BY <1>1, <1>2 DEF Waiting, RecvAt
<1>5. \A a \in Ranks : ~Waiting(a, b)' /\ (a # s => ~Waiting(a, b))
  BY <1>1, <1>2 DEF Waiting
<1>6. rcv'[b].msg = Bytes(s, inbox[b].size)
  BY <1>2, ClientTypes DEF CopyMessage, CopyPayload, Bytes
<1>7. rcv'[b].msg = Latest(s)
  BY <1>3, <1>4, <1>6 DEF KeptInv, Carried
<1>8. PICK f \in [Ranks -> Seq(Payloads)] : f = seen[b]
  BY DEF CallerInv
<1>9. seen'[b] = [f EXCEPT ![s] = Append(@, Latest(s))]
  BY <1>1, <1>2, <1>7, <1>8 DEF CallerInv
<1> QED
  BY SMTT(40), <1>1, <1>2, <1>3, <1>4, <1>5, <1>8, <1>9

(* The last element of a sequence is the one appended last. *)
LEMMA LastAppended ==
  ASSUME NEW s \in Seq(Payloads), NEW x \in Payloads
  PROVE  Append(s, x)[Len(Append(s, x))] = x /\ Len(Append(s, x)) = Len(s) + 1
BY AppendProperties

(* Every step keeps the account of what a process has not seen. *)
LEMMA LogStep ==
  ASSUME IInv, CallerInv, LogInv, KeptInv, NEW a \in Ranks, NEW b \in Ranks, a # b, [Next]_vars
  PROVE  Logged(a, b)'
<1>1. Logged(a, b) /\ log[a] \in Seq(Payloads) /\ seen[b][a] \in Seq(Payloads) /\ msg[a] \in Payloads
  BY DEF LogInv, CallerInv
<1>2. CASE McastSend(a)
  <2>1. ~Fresh(a)' /\ seen'[b][a] = seen[b][a]
    BY <1>2, SendEffect DEF Fresh
  <2>2. CASE i[a] = OtherThan(a, 0)
    <3>1. Fresh(a)
      BY <1>2, <2>2, SendEffect DEF Fresh
    <3>2. ~Called(a, b) /\ ~Mailed(a, b) /\ ~Waiting(a, b) /\ seen[b][a] = log[a]
      BY <1>1, <3>1, OneOwed DEF Logged
    <3>3. /\ ~Mailed(a, b)' /\ ~Waiting(a, b)'
          /\ Called(a, b)' <=> ~Ahead(a, b)'
      BY <1>2, <2>2, <3>2, SendOwes
    <3>4. OwedNr(a, b)' = 1
      <4>1. MailedNr(a, b)' = 0 /\ WaitingNr(a, b)' = 0
        BY <3>3 DEF MailedNr, WaitingNr
      <4>2. CASE Called(a, b)'
        <5>1. CalledNr(a, b)' = 1 /\ AheadNr(a, b)' = 0
          BY <3>3, <4>2 DEF CalledNr, AheadNr
        <5> QED
          BY <4>1, <5>1 DEF OwedNr
      <4>3. CASE ~Called(a, b)'
        <5>1. CalledNr(a, b)' = 0 /\ AheadNr(a, b)' = 1
          BY <3>3, <4>3 DEF CalledNr, AheadNr
        <5> QED
          BY <4>1, <5>1 DEF OwedNr
      <4> QED
        BY <4>2, <4>3
    <3>5. log'[a] = Append(seen'[b][a], msg[a])
      <4>1. log'[a] = Append(log[a], msg[a])
        BY <1>2, <2>2, SendEffect
      <4> QED
        BY <2>1, <3>2, <4>1, Zenon
    <3> QED
      BY <1>1, <2>1, <3>4, <3>5 DEF Logged
  <2>3. CASE i[a] # OtherThan(a, 0)
    <3>1. log'[a] = log[a]
      BY <1>2, <2>3, SendEffect
    <3>2. /\ ~Called(a, b) /\ (Mailed(a, b)' <=> Mailed(a, b)) /\ (Waiting(a, b)' <=> Waiting(a, b))
          /\ Ahead(a, b) <=> (Called(a, b)' \/ Ahead(a, b)')
          /\ ~(Called(a, b)' /\ Ahead(a, b)')
      <4>1. i[a] \in Ranks /\ i[a] \in Int /\ b \in Int
        BY <1>2, SendEffect DEF Ranks
      <4>2. b = i[a] => b >= i[a]
        BY <4>1
      <4> QED
        BY <1>2, <2>3, <4>2, SendOwes
    <3>3. OwedNr(a, b)' = OwedNr(a, b)
      <4>1. MailedNr(a, b)' = MailedNr(a, b) /\ WaitingNr(a, b)' = WaitingNr(a, b) /\ CalledNr(a, b) = 0
        BY <3>2 DEF MailedNr, WaitingNr, CalledNr
      <4>2. CASE Called(a, b)'
        <5>1. CalledNr(a, b)' = 1 /\ AheadNr(a, b)' = 0 /\ AheadNr(a, b) = 1
          BY <3>2, <4>2 DEF CalledNr, AheadNr
        <5> QED
          BY <4>1, <5>1, NrTypes DEF OwedNr
      <4>3. CASE ~Called(a, b)'
        <5>1. CalledNr(a, b)' = 0
          BY <4>3 DEF CalledNr
        <5>2. AheadNr(a, b)' = AheadNr(a, b)
          BY <3>2, <4>3 DEF AheadNr
        <5> QED
          BY <4>1, <5>1, <5>2, NrTypes DEF OwedNr
      <4> QED
        BY <4>2, <4>3
    <3> QED
      BY <1>1, <2>1, <3>1, <3>3 DEF Logged
  <2> QED
    BY <2>2, <2>3
<1>3. CASE CopyMessage(b)
  <2>1. PICK s \in Ranks :
          /\ Waiting(s, b) /\ ~Waiting(s, b)'
          /\ \A r \in Ranks : r # s => seen'[b][r] = seen[b][r] /\ ~Waiting(r, b) /\ ~Waiting(r, b)'
          /\ seen'[b][s] = Append(seen[b][s], Latest(s))
          /\ UNCHANGED <<callVars, log, pc, call, boxVars, router_pc>>
    BY <1>3, CopyEffect
  <2>2. /\ Called(a, b)' <=> Called(a, b)
        /\ Mailed(a, b)' <=> Mailed(a, b)
        /\ Ahead(a, b)' <=> Ahead(a, b)
        /\ Fresh(a)' <=> Fresh(a)
    BY <2>1 DEF Called, Mailed, Ahead, Fresh, InTransit, boxVars, callVars
  <2>3. CASE s = a
    <3>1. OwedNr(a, b) = 1 /\ ~Called(a, b) /\ ~Mailed(a, b) /\ ~Ahead(a, b)
      BY <1>1, <2>1, <2>3, OneOwed DEF Logged
    <3>2. OwedNr(a, b)' = 0
      <4>1. CalledNr(a, b)' = 0 /\ MailedNr(a, b)' = 0 /\ WaitingNr(a, b)' = 0 /\ AheadNr(a, b)' = 0
        BY <2>1, <2>2, <2>3, <3>1 DEF CalledNr, MailedNr, WaitingNr, AheadNr
      <4> QED
        BY <4>1 DEF OwedNr
    <3>3. PICK x \in Payloads : log[a] = Append(seen[b][a], x)
      BY <1>1, <3>1 DEF Logged
    <3>4. Latest(a) = x
      BY <1>1, <3>3, LastAppended DEF Latest
    <3>5. seen'[b][a] = log'[a]
      BY <2>1, <2>3, <3>3, <3>4
    <3> QED
      BY <3>2, <3>5 DEF Logged
  <2>4. CASE s # a
    <3>1. OwedNr(a, b)' = OwedNr(a, b)
      <4>1. CalledNr(a, b)' = CalledNr(a, b) /\ MailedNr(a, b)' = MailedNr(a, b)
        BY <2>2 DEF CalledNr, MailedNr
      <4>2. WaitingNr(a, b)' = WaitingNr(a, b) /\ AheadNr(a, b)' = AheadNr(a, b)
        BY <2>1, <2>2, <2>4 DEF WaitingNr, AheadNr
      <4> QED
        BY <4>1, <4>2 DEF OwedNr
    <3>2. log'[a] = log[a] /\ seen'[b][a] = seen[b][a]
      BY <2>1, <2>4
    <3> QED
      BY <1>1, <2>2, <3>1, <3>2 DEF Logged
  <2> QED
    BY <2>3, <2>4
<1>4. CASE ~McastSend(a) /\ ~CopyMessage(b)
  <2>1. log'[a] = log[a] /\ seen'[b][a] = seen[b][a]
    BY <1>4, LogsSame
  <2>2. OwedNr(a, b)' = OwedNr(a, b)
    BY <1>4, OwedStep
  <2>3. Fresh(a)' => OwedNr(a, b) = 0
    <3>1. CASE Fresh(a)
      BY <1>1, <3>1 DEF Logged
    <3>2. CASE MapBuffer(a, Caller)
      <4>1. pc[a][Caller] = "drain" /\ pending_acks[a] = 0
        BY SMTT(40), <3>2 DEF MapBuffer, At, Drained
      <4> QED
        BY <4>1, NothingOwed
    <3> QED
      BY <1>4, <3>1, <3>2, FreshStep
  <2> QED
    BY <1>1, <2>1, <2>2, <2>3 DEF Logged
<1> QED
  BY <1>2, <1>3, <1>4

(* The segment holds the message from the copy to the return.             *)
LEMMA LoadedStep ==
  ASSUME IInv, CallerInv, NEW a \in Ranks, Loaded(a), [Next]_vars
  PROVE  Loaded(a)'
<1> USE DEF Loaded, Published, Elsewhere, Bytes, Mailed, Waiting, InTransit, At, Goto, RecvAt, FinAt,
       boxVars, inboxVars, ackVars, segVars, lockVars,
       threadVars, recvVars, routerVars, finVars, clientVars, callVars
<1> USE ClientTypes
<1>0. /\ msg \in [Ranks -> Payloads] /\ i \in [Ranks -> 0 .. NProc] /\ done \in [Ranks -> 0 .. Rounds]
      /\ log \in [Ranks -> Seq(Payloads)] /\ seen \in [Ranks -> [Ranks -> Seq(Payloads)]]
      
  BY DEF CallerInv
<1> USE <1>0, NoRankNotRank
<1>1. ASSUME NEW p \in Ranks, McastPrepare(p)
      PROVE  Loaded(a)'
  <2>1. UNCHANGED segment /\ \A x \in Ranks : pc'[x][Caller] = IF x = p THEN "lock" ELSE pc[x][Caller]
    BY <1>1 DEF McastPrepare, Prepare
  <2>2. \A x \in Ranks : x # p => msg'[x] = msg[x] /\ call'[x][Caller] = call[x][Caller]
    BY <1>1 DEF McastPrepare, Prepare
  <2> QED
    BY <2>1, <2>2
<1>2. ASSUME NEW p \in Ranks, McastCopy(p)
      PROVE  Loaded(a)'
  <2>1. UNCHANGED <<msg, call>> /\ segment' = [segment EXCEPT ![p] = msg[p]]
        /\ pc[p][Caller] = "fill" /\ (a # p => pc'[a][Caller] = pc[a][Caller])
    BY <1>2 DEF McastCopy, Fill
  <2>2. call[p][Caller].size # 0
    BY <2>1 DEF CallerInv, Stance
  <2> QED
    BY <2>1, <2>2
<1>3. ASSUME NEW p \in Ranks, McastSend(p)
      PROVE  Loaded(a)'
  <2>1. UNCHANGED <<segment, msg>> /\ call'[a][Caller].size = call[a][Caller].size
    BY <1>3 DEF McastSend, Send, Call
  <2>2. pc[p][Caller] = "ready" /\ (a # p => pc'[a][Caller] = pc[a][Caller])
    BY <1>3 DEF McastSend, Send
  <2> QED
    BY <2>1, <2>2
<1>4. ASSUME NEW p \in Ranks, McastReturn(p)
      PROVE  Loaded(a)'
  <2>1. UNCHANGED segment /\ \A x \in Ranks : pc'[x][Caller] = IF x = p THEN "idle" ELSE pc[x][Caller]
    BY <1>4 DEF McastReturn, FinishBuffer
  <2>2. \A x \in Ranks : x # p => msg'[x] = msg[x] /\ call'[x][Caller] = call[x][Caller]
    BY <1>4 DEF McastReturn, FinishBuffer
  <2> QED
    BY <2>1, <2>2
<1>5. ASSUME NEW p \in Ranks, LockBuffer(p, Caller) /\ UNCHANGED clientVars
      PROVE  Loaded(a)'
  BY <1>5 DEF LockBuffer
<1>6. ASSUME NEW p \in Ranks, AwaitAck(p, Caller) /\ UNCHANGED clientVars
      PROVE  Loaded(a)'
  BY <1>6 DEF AwaitAck, ConsumeAck
<1>7. ASSUME NEW p \in Ranks, MapBuffer(p, Caller) /\ UNCHANGED clientVars
      PROVE  Loaded(a)'
  <2>1. UNCHANGED <<msg, call, segment>> /\ pc[p][Caller] = "drain"
    BY <1>7 DEF MapBuffer
  <2>2. CASE a = p
    <3>1. call[p][Caller].size = 0 => msg[p] = Blank
      BY <2>1 DEF CallerInv, Stance
    <3>2. call[p][Caller].size # 0 => pc'[p][Caller] = "fill"
      BY <1>7 DEF MapBuffer
    <3> QED
      BY <2>1, <2>2, <3>1, <3>2
  <2>3. CASE a # p
    <3>1. pc'[a][Caller] = pc[a][Caller]
      BY <1>7, <2>3 DEF MapBuffer
    <3> QED
      BY <2>1, <3>1
  <2> QED
    BY <2>2, <2>3
<1>8. ASSUME NEW p \in Ranks, AcquireBox(p, Caller) /\ UNCHANGED clientVars
      PROVE  Loaded(a)'
  BY <1>8 DEF AcquireBox
<1>9. ASSUME NEW p \in Ranks, PostRequest(p, Caller) /\ UNCHANGED clientVars
      PROVE  Loaded(a)'
  BY <1>9 DEF PostRequest
<1>10. ASSUME NEW p \in Ranks, AwaitDelivered(p, Caller) /\ UNCHANGED clientVars
       PROVE  Loaded(a)'
  BY <1>10 DEF AwaitDelivered
<1>11. ASSUME NEW p \in Ranks, ReleaseBox(p, Caller) /\ UNCHANGED clientVars
       PROVE  Loaded(a)'
  BY SMTT(40), <1>11 DEF ReleaseBox, Call
<1>12. ASSUME NEW p \in Ranks, StartReceive(p)
       PROVE  Loaded(a)'
  BY <1>12 DEF StartReceive, AwaitMessage
<1>13. ASSUME NEW p \in Ranks, CopyMessage(p)
       PROVE  Loaded(a)'
  BY <1>13 DEF CopyMessage, CopyPayload
<1>14. ASSUME NEW p \in Ranks, ClearInbox(p) /\ UNCHANGED clientVars
       PROVE  Loaded(a)'
  BY <1>14 DEF ClearInbox
<1>15. ASSUME NEW p \in Ranks, PostAck(p) /\ UNCHANGED clientVars
       PROVE  Loaded(a)'
  BY <1>15 DEF PostAck
<1>16. ASSUME NEW p \in Ranks, done[p] = Rounds /\ BeginFinalize(p) /\ UNCHANGED clientVars
       PROVE  Loaded(a)'
  BY <1>16 DEF BeginFinalize
<1>17. ASSUME NEW p \in Ranks, FinalizeAwaitAck(p) /\ UNCHANGED clientVars
       PROVE  Loaded(a)'
  BY <1>17 DEF FinalizeAwaitAck, ConsumeAck
<1>18. ASSUME NEW p \in Ranks, FinalizeLock(p) /\ UNCHANGED clientVars
       PROVE  Loaded(a)'
  BY <1>18 DEF FinalizeLock
<1>19. ASSUME NEW p \in Ranks, FinalizeCount(p) /\ UNCHANGED clientVars
       PROVE  Loaded(a)'
  BY <1>19 DEF FinalizeCount
<1>20. ASSUME NEW p \in Ranks, StopAcquireBox(p) /\ UNCHANGED clientVars
       PROVE  Loaded(a)'
  BY <1>20 DEF StopAcquireBox
<1>21. ASSUME NEW p \in Ranks, PostSentinel(p) /\ UNCHANGED clientVars
       PROVE  Loaded(a)'
  BY <1>21 DEF PostSentinel
<1>22. ASSUME RouterTake /\ UNCHANGED clientVars
       PROVE  Loaded(a)'
  BY <1>22 DEF RouterTake
<1>23. ASSUME RouterReserve /\ UNCHANGED clientVars
       PROVE  Loaded(a)'
  BY <1>23 DEF RouterReserve
<1>24. ASSUME RouterForward /\ UNCHANGED clientVars
       PROVE  Loaded(a)'
  BY <1>24 DEF RouterForward
<1>25. ASSUME RouterConfirm /\ UNCHANGED clientVars
       PROVE  Loaded(a)'
  BY <1>25 DEF RouterConfirm
<1>26. ASSUME UNCHANGED vars
       PROVE  Loaded(a)'
  BY <1>26 DEF vars, comVars
<1> QED
  BY <1>1, <1>2, <1>3, <1>4, <1>5, <1>6, <1>7, <1>8, <1>9, <1>10, <1>11, <1>12, <1>13, <1>14, <1>15, <1>16, <1>17, <1>18, <1>19, <1>20, <1>21, <1>22, <1>23, <1>24, <1>25, <1>26
  DEF Next, CallerThread, SendStep, ReceiverThread, MainThread, FinalizeStep, Router,
      RouterStep, Terminated

(* The latest entry of the log is the argument of the call under way.     *)
LEMMA PublishedStep ==
  ASSUME IInv, CallerInv, NEW a \in Ranks, Published(a), [Next]_vars
  PROVE  Published(a)'
<1> USE DEF Loaded, Published, Elsewhere, Bytes, Mailed, Waiting, InTransit, At, Goto, RecvAt, FinAt,
       boxVars, inboxVars, ackVars, segVars, lockVars,
       threadVars, recvVars, routerVars, finVars, clientVars, callVars, Latest
<1> USE ClientTypes
<1>0. /\ msg \in [Ranks -> Payloads] /\ i \in [Ranks -> 0 .. NProc] /\ done \in [Ranks -> 0 .. Rounds]
      /\ log \in [Ranks -> Seq(Payloads)] /\ seen \in [Ranks -> [Ranks -> Seq(Payloads)]]
      
  BY DEF CallerInv
<1> USE <1>0, NoRankNotRank
<1>1. ASSUME NEW p \in Ranks, McastPrepare(p)
      PROVE  Published(a)'
  <2>1. /\ i' = [i EXCEPT ![p] = OtherThan(p, 0)] /\ UNCHANGED log
        /\ a # p => msg'[a] = msg[a]
    BY <1>1 DEF McastPrepare
  <2>2. ~(OtherThan(p, 0) > OtherThan(p, 0))
    BY FirstRank
  <2> QED
    BY <2>1, <2>2 DEF Latest
<1>2. ASSUME NEW p \in Ranks, McastCopy(p)
      PROVE  Published(a)'
  BY <1>2 DEF McastCopy, Fill
<1>3. ASSUME NEW p \in Ranks, McastSend(p)
      PROVE  Published(a)'
  <2>1. CASE p = a
    <3>1. i[a] # OtherThan(a, 0) => i[a] > OtherThan(a, 0)
      <4>1. i[a] >= OtherThan(a, 0) /\ OtherThan(a, 0) \in 0 .. NProc
        BY <1>3, <2>1, SendEffect, FirstRank
      <4> QED
        BY <4>1
    <3>2. /\ msg'[a] = msg[a] /\ log[a] \in Seq(Payloads) /\ msg[a] \in Payloads
          /\ log'[a] = IF i[a] = OtherThan(a, 0) THEN Append(log[a], msg[a]) ELSE log[a]
      BY <1>3, <2>1, SendEffect
    <3>3. CASE i[a] = OtherThan(a, 0)
      <4>1. Latest(a)' = msg[a]
        BY <3>2, <3>3, LastAppended DEF Latest
      <4> QED
        BY <3>2, <4>1
    <3>4. CASE i[a] # OtherThan(a, 0)
      BY <3>1, <3>2, <3>4 DEF Latest
    <3> QED
      BY <3>3, <3>4
  <2>2. CASE p # a
    <3>1. msg'[a] = msg[a] /\ log'[a] = log[a] /\ i'[a] = i[a]
      BY <1>3, <2>2 DEF McastSend
    <3> QED
      BY <3>1 DEF Latest
  <2> QED
    BY <2>1, <2>2
<1>4. ASSUME NEW p \in Ranks, McastReturn(p)
      PROVE  Published(a)'
  <2>1. /\ i' = [i EXCEPT ![p] = 0] /\ UNCHANGED log
        /\ a # p => msg'[a] = msg[a]
    BY <1>4 DEF McastReturn
  <2>2. ~(0 > OtherThan(p, 0))
    BY FirstRank
  <2> QED
    BY <2>1, <2>2 DEF Latest
<1>5. ASSUME NEW p \in Ranks, LockBuffer(p, Caller) /\ UNCHANGED clientVars
      PROVE  Published(a)'
  BY <1>5 DEF LockBuffer
<1>6. ASSUME NEW p \in Ranks, AwaitAck(p, Caller) /\ UNCHANGED clientVars
      PROVE  Published(a)'
  BY <1>6 DEF AwaitAck, ConsumeAck
<1>7. ASSUME NEW p \in Ranks, MapBuffer(p, Caller) /\ UNCHANGED clientVars
      PROVE  Published(a)'
  BY <1>7 DEF MapBuffer
<1>8. ASSUME NEW p \in Ranks, AcquireBox(p, Caller) /\ UNCHANGED clientVars
      PROVE  Published(a)'
  BY <1>8 DEF AcquireBox
<1>9. ASSUME NEW p \in Ranks, PostRequest(p, Caller) /\ UNCHANGED clientVars
      PROVE  Published(a)'
  BY <1>9 DEF PostRequest
<1>10. ASSUME NEW p \in Ranks, AwaitDelivered(p, Caller) /\ UNCHANGED clientVars
       PROVE  Published(a)'
  BY <1>10 DEF AwaitDelivered
<1>11. ASSUME NEW p \in Ranks, ReleaseBox(p, Caller) /\ UNCHANGED clientVars
       PROVE  Published(a)'
  BY <1>11 DEF ReleaseBox, Call
<1>12. ASSUME NEW p \in Ranks, StartReceive(p)
       PROVE  Published(a)'
  BY <1>12 DEF StartReceive, AwaitMessage
<1>13. ASSUME NEW p \in Ranks, CopyMessage(p)
       PROVE  Published(a)'
  BY <1>13 DEF CopyMessage, CopyPayload
<1>14. ASSUME NEW p \in Ranks, ClearInbox(p) /\ UNCHANGED clientVars
       PROVE  Published(a)'
  BY <1>14 DEF ClearInbox
<1>15. ASSUME NEW p \in Ranks, PostAck(p) /\ UNCHANGED clientVars
       PROVE  Published(a)'
  BY <1>15 DEF PostAck
<1>16. ASSUME NEW p \in Ranks, done[p] = Rounds /\ BeginFinalize(p) /\ UNCHANGED clientVars
       PROVE  Published(a)'
  BY <1>16 DEF BeginFinalize
<1>17. ASSUME NEW p \in Ranks, FinalizeAwaitAck(p) /\ UNCHANGED clientVars
       PROVE  Published(a)'
  BY <1>17 DEF FinalizeAwaitAck, ConsumeAck
<1>18. ASSUME NEW p \in Ranks, FinalizeLock(p) /\ UNCHANGED clientVars
       PROVE  Published(a)'
  BY <1>18 DEF FinalizeLock
<1>19. ASSUME NEW p \in Ranks, FinalizeCount(p) /\ UNCHANGED clientVars
       PROVE  Published(a)'
  BY <1>19 DEF FinalizeCount
<1>20. ASSUME NEW p \in Ranks, StopAcquireBox(p) /\ UNCHANGED clientVars
       PROVE  Published(a)'
  BY <1>20 DEF StopAcquireBox
<1>21. ASSUME NEW p \in Ranks, PostSentinel(p) /\ UNCHANGED clientVars
       PROVE  Published(a)'
  BY <1>21 DEF PostSentinel
<1>22. ASSUME RouterTake /\ UNCHANGED clientVars
       PROVE  Published(a)'
  BY <1>22 DEF RouterTake
<1>23. ASSUME RouterReserve /\ UNCHANGED clientVars
       PROVE  Published(a)'
  BY <1>23 DEF RouterReserve
<1>24. ASSUME RouterForward /\ UNCHANGED clientVars
       PROVE  Published(a)'
  BY <1>24 DEF RouterForward
<1>25. ASSUME RouterConfirm /\ UNCHANGED clientVars
       PROVE  Published(a)'
  BY <1>25 DEF RouterConfirm
<1>26. ASSUME UNCHANGED vars
       PROVE  Published(a)'
  BY <1>26 DEF vars, comVars
<1> QED
  BY <1>1, <1>2, <1>3, <1>4, <1>5, <1>6, <1>7, <1>8, <1>9, <1>10, <1>11, <1>12, <1>13, <1>14, <1>15, <1>16, <1>17, <1>18, <1>19, <1>20, <1>21, <1>22, <1>23, <1>24, <1>25, <1>26
  DEF Next, CallerThread, SendStep, ReceiverThread, MainThread, FinalizeStep, Router,
      RouterStep, Terminated

(* The loop skips the caller.                                             *)
LEMMA ElsewhereStep ==
  ASSUME IInv, CallerInv, NEW a \in Ranks, Elsewhere(a), [Next]_vars
  PROVE  Elsewhere(a)'
<1> USE DEF Loaded, Published, Elsewhere, Bytes, Mailed, Waiting, InTransit, At, Goto, RecvAt, FinAt,
       boxVars, inboxVars, ackVars, segVars, lockVars,
       threadVars, recvVars, routerVars, finVars, clientVars, callVars
<1> USE ClientTypes
<1>0. /\ msg \in [Ranks -> Payloads] /\ i \in [Ranks -> 0 .. NProc] /\ done \in [Ranks -> 0 .. Rounds]
      /\ log \in [Ranks -> Seq(Payloads)] /\ seen \in [Ranks -> [Ranks -> Seq(Payloads)]]
      
  BY DEF CallerInv
<1> USE <1>0, NoRankNotRank
<1>1. ASSUME NEW p \in Ranks, McastPrepare(p)
      PROVE  Elsewhere(a)'
  BY <1>1 DEF McastPrepare, Prepare
<1>2. ASSUME NEW p \in Ranks, McastCopy(p)
      PROVE  Elsewhere(a)'
  BY <1>2 DEF McastCopy, Fill
<1>3. ASSUME NEW p \in Ranks, McastSend(p)
      PROVE  Elsewhere(a)'
  BY <1>3 DEF McastSend, Send, Call
<1>4. ASSUME NEW p \in Ranks, McastReturn(p)
      PROVE  Elsewhere(a)'
  BY <1>4 DEF McastReturn, FinishBuffer, UnlockBuffer
<1>5. ASSUME NEW p \in Ranks, LockBuffer(p, Caller) /\ UNCHANGED clientVars
      PROVE  Elsewhere(a)'
  BY <1>5 DEF LockBuffer
<1>6. ASSUME NEW p \in Ranks, AwaitAck(p, Caller) /\ UNCHANGED clientVars
      PROVE  Elsewhere(a)'
  BY <1>6 DEF AwaitAck, ConsumeAck
<1>7. ASSUME NEW p \in Ranks, MapBuffer(p, Caller) /\ UNCHANGED clientVars
      PROVE  Elsewhere(a)'
  BY <1>7 DEF MapBuffer
<1>8. ASSUME NEW p \in Ranks, AcquireBox(p, Caller) /\ UNCHANGED clientVars
      PROVE  Elsewhere(a)'
  BY <1>8 DEF AcquireBox
<1>9. ASSUME NEW p \in Ranks, PostRequest(p, Caller) /\ UNCHANGED clientVars
      PROVE  Elsewhere(a)'
  <2>1. /\ pc[p][Caller] = "post" /\ server_box'.src_rank = p
        /\ server_box'.dest_rank = call[p][Caller].dest /\ UNCHANGED inbox
    BY <1>9 DEF PostRequest
  <2>2. call[p][Caller].dest # p
    BY <2>1 DEF CallerInv, Stance
  <2> QED
    BY <2>1, <2>2
<1>10. ASSUME NEW p \in Ranks, AwaitDelivered(p, Caller) /\ UNCHANGED clientVars
       PROVE  Elsewhere(a)'
  BY <1>10 DEF AwaitDelivered
<1>11. ASSUME NEW p \in Ranks, ReleaseBox(p, Caller) /\ UNCHANGED clientVars
       PROVE  Elsewhere(a)'
  BY <1>11 DEF ReleaseBox, Call
<1>12. ASSUME NEW p \in Ranks, StartReceive(p)
       PROVE  Elsewhere(a)'
  BY <1>12 DEF StartReceive, AwaitMessage
<1>13. ASSUME NEW p \in Ranks, CopyMessage(p)
       PROVE  Elsewhere(a)'
  BY <1>13 DEF CopyMessage, CopyPayload
<1>14. ASSUME NEW p \in Ranks, ClearInbox(p) /\ UNCHANGED clientVars
       PROVE  Elsewhere(a)'
  <2>1. /\ UNCHANGED <<boxVars, router_pc>>
        /\ inbox'[a].src_rank = IF a = p THEN NoRank ELSE inbox[a].src_rank
    BY <1>14 DEF ClearInbox, EmptyInbox
  <2> QED
    BY <2>1
<1>15. ASSUME NEW p \in Ranks, PostAck(p) /\ UNCHANGED clientVars
       PROVE  Elsewhere(a)'
  BY <1>15 DEF PostAck
<1>16. ASSUME NEW p \in Ranks, done[p] = Rounds /\ BeginFinalize(p) /\ UNCHANGED clientVars
       PROVE  Elsewhere(a)'
  BY <1>16 DEF BeginFinalize
<1>17. ASSUME NEW p \in Ranks, FinalizeAwaitAck(p) /\ UNCHANGED clientVars
       PROVE  Elsewhere(a)'
  BY <1>17 DEF FinalizeAwaitAck, ConsumeAck
<1>18. ASSUME NEW p \in Ranks, FinalizeLock(p) /\ UNCHANGED clientVars
       PROVE  Elsewhere(a)'
  BY <1>18 DEF FinalizeLock
<1>19. ASSUME NEW p \in Ranks, FinalizeCount(p) /\ UNCHANGED clientVars
       PROVE  Elsewhere(a)'
  BY <1>19 DEF FinalizeCount
<1>20. ASSUME NEW p \in Ranks, StopAcquireBox(p) /\ UNCHANGED clientVars
       PROVE  Elsewhere(a)'
  BY <1>20 DEF StopAcquireBox
<1>21. ASSUME NEW p \in Ranks, PostSentinel(p) /\ UNCHANGED clientVars
       PROVE  Elsewhere(a)'
  <2>1. UNCHANGED inbox /\ server_box'.src_rank = NoRank
    BY <1>21 DEF PostSentinel, EmptyBox
  <2> QED
    BY <2>1
<1>22. ASSUME RouterTake /\ UNCHANGED clientVars
       PROVE  Elsewhere(a)'
  BY <1>22 DEF RouterTake
<1>23. ASSUME RouterReserve /\ UNCHANGED clientVars
       PROVE  Elsewhere(a)'
  BY <1>23 DEF RouterReserve
<1>24. ASSUME RouterForward /\ UNCHANGED clientVars
       PROVE  Elsewhere(a)'
  <2>1. /\ UNCHANGED server_box /\ router_pc = "forward"
        /\ inbox'[a].src_rank = IF a = router_dest THEN server_box.src_rank ELSE inbox[a].src_rank
    BY <1>24 DEF RouterForward
  <2>2. router_dest = server_box.dest_rank
    BY <2>1 DEF IInv, BoxInv, Idle, Posted, Routing, Confirmed, Stopped
  <2>3. a = router_dest => server_box.src_rank # a
    BY <2>1, <2>2
  <2> QED
    BY <2>1, <2>2, <2>3, Zenon
<1>25. ASSUME RouterConfirm /\ UNCHANGED clientVars
       PROVE  Elsewhere(a)'
  BY <1>25 DEF RouterConfirm
<1>26. ASSUME UNCHANGED vars
       PROVE  Elsewhere(a)'
  BY SMTT(40), <1>26 DEF vars, comVars
<1> QED
  BY <1>1, <1>2, <1>3, <1>4, <1>5, <1>6, <1>7, <1>8, <1>9, <1>10, <1>11, <1>12, <1>13, <1>14, <1>15, <1>16, <1>17, <1>18, <1>19, <1>20, <1>21, <1>22, <1>23, <1>24, <1>25, <1>26
  DEF Next, CallerThread, SendStep, ReceiverThread, MainThread, FinalizeStep, Router,
      RouterStep, Terminated

(* What is on its way is in the segment: nobody writes before it was read. *)
LEMMA CarriedStep ==
  ASSUME IInv, CallerInv, LogInv, KeptInv, NEW a \in Ranks, NEW b \in Ranks, a # b, Carried(a, b), [Next]_vars
  PROVE  Carried(a, b)'
<1> USE DEF Loaded, Published, Elsewhere, Bytes, Mailed, Waiting, InTransit, At, Goto, RecvAt, FinAt,
       boxVars, inboxVars, ackVars, segVars, lockVars,
       threadVars, recvVars, routerVars, finVars, clientVars, callVars, Carried, Latest
<1> USE ClientTypes
<1>0. /\ msg \in [Ranks -> Payloads] /\ i \in [Ranks -> 0 .. NProc] /\ done \in [Ranks -> 0 .. Rounds]
      /\ log \in [Ranks -> Seq(Payloads)] /\ seen \in [Ranks -> [Ranks -> Seq(Payloads)]]
      
  BY DEF CallerInv
<1> USE <1>0, NoRankNotRank
<1>1. ASSUME NEW p \in Ranks, McastPrepare(p)
      PROVE  Carried(a, b)'
  BY <1>1 DEF McastPrepare, Prepare
<1>2. ASSUME NEW p \in Ranks, McastCopy(p)
      PROVE  Carried(a, b)'
  <2>1. /\ UNCHANGED <<log, boxVars, inbox, rpc, router_pc>> /\ pc[p][Caller] = "fill"
        /\ a # p => segment'[a] = segment[a]
    BY <1>2 DEF McastCopy, Fill
  <2>2. CASE a = p
    <3>1. Fresh(a)
      BY <2>1, <2>2 DEF Fresh, CallerInv, Stance
    <3>2. ~Mailed(a, b) /\ ~Waiting(a, b)
      BY <3>1, OneOwed DEF LogInv, Logged
    <3> QED
      BY <2>1, <3>2
  <2>3. CASE a # p
    BY <2>1, <2>3
  <2> QED
    BY <2>2, <2>3
<1>3. ASSUME NEW p \in Ranks, McastSend(p)
      PROVE  Carried(a, b)'
  <2>1. /\ UNCHANGED <<boxVars, inbox, rpc, router_pc, segment>>
        /\ a # p => log'[a] = log[a]
    BY <1>3 DEF McastSend, Send
  <2>2. CASE a = p /\ i[a] = OtherThan(a, 0)
    <3>1. Fresh(a)
      BY <1>3, <2>2, SendEffect DEF Fresh
    <3>2. ~Mailed(a, b) /\ ~Waiting(a, b)
      BY <3>1, OneOwed DEF LogInv, Logged
    <3> QED
      BY <2>1, <3>2
  <2>3. CASE a = p => i[a] # OtherThan(a, 0)
    <3>1. log'[a] = log[a]
      BY ZenonT(40), <1>3, <2>1, <2>3, SendEffect
    <3> QED
      BY <2>1, <3>1
  <2> QED
    BY <2>2, <2>3
<1>4. ASSUME NEW p \in Ranks, McastReturn(p)
      PROVE  Carried(a, b)'
  BY <1>4 DEF McastReturn, FinishBuffer, UnlockBuffer
<1>5. ASSUME NEW p \in Ranks, LockBuffer(p, Caller) /\ UNCHANGED clientVars
      PROVE  Carried(a, b)'
  BY <1>5 DEF LockBuffer
<1>6. ASSUME NEW p \in Ranks, AwaitAck(p, Caller) /\ UNCHANGED clientVars
      PROVE  Carried(a, b)'
  BY <1>6 DEF AwaitAck, ConsumeAck
<1>7. ASSUME NEW p \in Ranks, MapBuffer(p, Caller) /\ UNCHANGED clientVars
      PROVE  Carried(a, b)'
  BY <1>7 DEF MapBuffer
<1>8. ASSUME NEW p \in Ranks, AcquireBox(p, Caller) /\ UNCHANGED clientVars
      PROVE  Carried(a, b)'
  BY <1>8 DEF AcquireBox
<1>9. ASSUME NEW p \in Ranks, PostRequest(p, Caller) /\ UNCHANGED clientVars
      PROVE  Carried(a, b)'
  <2>1. /\ pc[p][Caller] = "post" /\ server_box'.src_rank = p
        /\ server_box'.size = call[p][Caller].size /\ UNCHANGED <<inbox, rpc, log, segment>>
    BY <1>9 DEF PostRequest
  <2>2. a = p => Latest(a) = Bytes(a, call[a][Caller].size)
    <3>1. a = p => i[a] > OtherThan(a, 0)
      BY <2>1 DEF CallerInv, Stance
    <3> QED
      <4>1. a = p => Latest(a) = msg[a]
        BY <3>1 DEF KeptInv, Published
      <4>2. Loaded(a)
        BY DEF KeptInv
      <4>3. a = p => msg[a] = Bytes(a, call[a][Caller].size)
        BY <2>1, <4>2 DEF Loaded
      <4> QED
        BY <4>1, <4>3
  <2> QED
    BY <2>1, <2>2
<1>10. ASSUME NEW p \in Ranks, AwaitDelivered(p, Caller) /\ UNCHANGED clientVars
       PROVE  Carried(a, b)'
  BY <1>10 DEF AwaitDelivered
<1>11. ASSUME NEW p \in Ranks, ReleaseBox(p, Caller) /\ UNCHANGED clientVars
       PROVE  Carried(a, b)'
  BY <1>11 DEF ReleaseBox, Call
<1>12. ASSUME NEW p \in Ranks, StartReceive(p)
       PROVE  Carried(a, b)'
  BY <1>12 DEF StartReceive, AwaitMessage
<1>13. ASSUME NEW p \in Ranks, CopyMessage(p)
       PROVE  Carried(a, b)'
  BY <1>13 DEF CopyMessage, CopyPayload
<1>14. ASSUME NEW p \in Ranks, ClearInbox(p) /\ UNCHANGED clientVars
       PROVE  Carried(a, b)'
  <2>1. /\ UNCHANGED <<boxVars, router_pc, log, segment>> /\ rpc[p] = "clear"
        /\ \A q \in Ranks : q # p => inbox'[q] = inbox[q] /\ rpc'[q] = rpc[q]
        /\ inbox'[p].src_rank = NoRank
    BY <1>14 DEF ClearInbox, EmptyInbox
  <2>2. CASE b = p
    BY <2>1, <2>2
  <2>3. CASE b # p
    BY <2>1, <2>3
  <2> QED
    BY <2>2, <2>3
<1>15. ASSUME NEW p \in Ranks, PostAck(p) /\ UNCHANGED clientVars
       PROVE  Carried(a, b)'
  BY <1>15 DEF PostAck
<1>16. ASSUME NEW p \in Ranks, done[p] = Rounds /\ BeginFinalize(p) /\ UNCHANGED clientVars
       PROVE  Carried(a, b)'
  BY <1>16 DEF BeginFinalize
<1>17. ASSUME NEW p \in Ranks, FinalizeAwaitAck(p) /\ UNCHANGED clientVars
       PROVE  Carried(a, b)'
  BY <1>17 DEF FinalizeAwaitAck, ConsumeAck
<1>18. ASSUME NEW p \in Ranks, FinalizeLock(p) /\ UNCHANGED clientVars
       PROVE  Carried(a, b)'
  BY <1>18 DEF FinalizeLock
<1>19. ASSUME NEW p \in Ranks, FinalizeCount(p) /\ UNCHANGED clientVars
       PROVE  Carried(a, b)'
  BY <1>19 DEF FinalizeCount
<1>20. ASSUME NEW p \in Ranks, StopAcquireBox(p) /\ UNCHANGED clientVars
       PROVE  Carried(a, b)'
  BY <1>20 DEF StopAcquireBox
<1>21. ASSUME NEW p \in Ranks, PostSentinel(p) /\ UNCHANGED clientVars
       PROVE  Carried(a, b)'
  <2>1. UNCHANGED <<inbox, rpc, log, segment>> /\ server_box'.src_rank = NoRank
    BY <1>21 DEF PostSentinel, EmptyBox
  <2> QED
    BY <2>1
<1>22. ASSUME RouterTake /\ UNCHANGED clientVars
       PROVE  Carried(a, b)'
  BY <1>22 DEF RouterTake
<1>23. ASSUME RouterReserve /\ UNCHANGED clientVars
       PROVE  Carried(a, b)'
  BY <1>23 DEF RouterReserve
<1>24. ASSUME RouterForward /\ UNCHANGED clientVars
       PROVE  Carried(a, b)'
  <2>1. /\ UNCHANGED <<server_box, rpc, log, segment>> /\ router_pc = "forward" /\ router_pc' = "confirm"
        /\ inbox'[b].src_rank = IF b = router_dest THEN server_box.src_rank ELSE inbox[b].src_rank
        /\ inbox'[b].size = IF b = router_dest THEN server_box.size ELSE inbox[b].size
        /\ UNCHANGED box_full
    BY <1>24 DEF RouterForward
  <2>2. router_dest = server_box.dest_rank /\ box_full = 0
    BY <2>1 DEF IInv, BoxInv, Idle, Posted, Routing, Confirmed, Stopped
  <2>3. ~Mailed(a, b)'
    BY <2>1, <2>2
  <2>4. CASE b = router_dest
    <3>1. server_box.src_rank = a => Latest(a) = Bytes(a, server_box.size)
      BY <2>1, <2>2, <2>4
    <3> QED
      BY <2>1, <2>3, <2>4, <3>1
  <2>5. CASE b # router_dest
    BY <2>1, <2>3, <2>5
  <2> QED
    BY <2>4, <2>5
<1>25. ASSUME RouterConfirm /\ UNCHANGED clientVars
       PROVE  Carried(a, b)'
  BY <1>25 DEF RouterConfirm
<1>26. ASSUME UNCHANGED vars
       PROVE  Carried(a, b)'
  BY <1>26 DEF vars, comVars
<1> QED
  BY <1>1, <1>2, <1>3, <1>4, <1>5, <1>6, <1>7, <1>8, <1>9, <1>10, <1>11, <1>12, <1>13, <1>14, <1>15, <1>16, <1>17, <1>18, <1>19, <1>20, <1>21, <1>22, <1>23, <1>24, <1>25, <1>26
  DEF Next, CallerThread, SendStep, ReceiverThread, MainThread, FinalizeStep, Router,
      RouterStep, Terminated

(* The loop has sent to as many ranks as come before its index.            *)
LEMMA PassedCount ==
  ASSUME CallerInv, NEW p \in Ranks
  PROVE  /\ i[p] = OtherThan(p, 0) => Passed(p) = 0
         /\ ~MoreRanks(p) => Passed(p) = NProc - 1
         /\ \A d \in Ranks : d # p /\ i[p] = d /\ i'[p] = OtherThan(p, d + 1) => Passed(p)' = Passed(p) + 1
<1>1. p \in Int /\ 0 <= p /\ p < NProc /\ \A d \in Ranks : d \in Int /\ 0 <= d
  BY Numbers DEF Ranks
<1>2. PICK r \in 0 .. NProc : r = i[p]
  BY DEF CallerInv
<1>3. r = OtherThan(p, 0) => (IF r <= p THEN r ELSE r - 1) = 0
  BY <1>1 DEF OtherThan
<1>4. ~(r < NProc) => (IF r <= p THEN r ELSE r - 1) = NProc - 1
  BY <1>1, Numbers
<1>5. ASSUME NEW d \in Ranks, d # p, i[p] = d, i'[p] = OtherThan(p, d + 1)
      PROVE  Passed(p)' = Passed(p) + 1
  <2>1. (IF OtherThan(p, d + 1) <= p THEN OtherThan(p, d + 1) ELSE OtherThan(p, d + 1) - 1)
          = (IF d <= p THEN d ELSE d - 1) + 1
    BY SMTT(40), <1>1, <1>5 DEF OtherThan
  <2> QED
    BY <1>5, <2>1 DEF Passed
<1> QED
  BY <1>2, <1>3, <1>4, <1>5 DEF Passed, MoreRanks

(* The acknowledgements a call waits for are those of its own sends.       *)
LEMMA PendStep ==
  ASSUME IInv, CallerInv, NEW a \in Ranks, Pends(a), [Next]_vars
  PROVE  Pends(a)'
<1> USE DEF Pends, Passed, At, Goto, RecvAt, FinAt,
       boxVars, inboxVars, ackVars, segVars, lockVars,
       threadVars, recvVars, routerVars, finVars, clientVars, callVars
<1> USE ClientTypes
<1>0. /\ msg \in [Ranks -> Payloads] /\ i \in [Ranks -> 0 .. NProc] /\ done \in [Ranks -> 0 .. Rounds]
      /\ log \in [Ranks -> Seq(Payloads)] /\ seen \in [Ranks -> [Ranks -> Seq(Payloads)]]
      /\ pending_acks \in [Ranks -> Nat]
  BY DEF CallerInv, IInv, TypeInv, TypeOK
<1> USE <1>0, NoRankNotRank
<1>1. ASSUME NEW p \in Ranks, McastPrepare(p)
      PROVE  Pends(a)'
  <2>1. /\ UNCHANGED pending_acks /\ pc'[p][Caller] = "lock"
        /\ a # p => i'[a] = i[a] /\ pc'[a][Caller] = pc[a][Caller]
    BY <1>1 DEF McastPrepare, Prepare
  <2> QED
    BY <2>1
<1>2. ASSUME NEW p \in Ranks, McastCopy(p)
      PROVE  Pends(a)'
  BY <1>2 DEF McastCopy, Fill
<1>3. ASSUME NEW p \in Ranks, McastSend(p)
      PROVE  Pends(a)'
  <2>1. /\ UNCHANGED pending_acks
        /\ a # p => i'[a] = i[a] /\ pc'[a][Caller] = pc[a][Caller]
    BY <1>3 DEF McastSend, Send
  <2>2. CASE a = p
    <3>1. PICK d \in Ranks : d # a /\ i[a] = d /\ i'[a] = OtherThan(a, d + 1)
      BY SMTT(40), <1>3, <2>2, SendEffect
    <3>2. Passed(a)' = Passed(a) + 1
      BY <3>1, PassedCount DEF CallerInv
    <3>3. pc[a][Caller] = "ready" /\ pc'[a][Caller] = "box"
      BY <1>3, <2>2, SendEffect
    <3> QED
      BY <2>1, <3>2, <3>3
  <2>3. CASE a # p
    BY <2>1, <2>3 DEF Passed
  <2> QED
    BY <2>2, <2>3
<1>4. ASSUME NEW p \in Ranks, McastReturn(p)
      PROVE  Pends(a)'
  <2>1. /\ UNCHANGED pending_acks /\ pc'[p][Caller] = "idle"
        /\ a # p => i'[a] = i[a] /\ pc'[a][Caller] = pc[a][Caller]
    BY <1>4 DEF McastReturn, FinishBuffer
  <2> QED
    BY <2>1
<1>5. ASSUME NEW p \in Ranks, LockBuffer(p, Caller) /\ UNCHANGED clientVars
      PROVE  Pends(a)'
  BY <1>5 DEF LockBuffer
<1>6. ASSUME NEW p \in Ranks, AwaitAck(p, Caller) /\ UNCHANGED clientVars
      PROVE  Pends(a)'
  <2>1. /\ UNCHANGED <<i, pc>> /\ pc[p][Caller] = "drain"
        /\ a # p => pending_acks'[a] = pending_acks[a]
    BY <1>6 DEF AwaitAck, ConsumeAck
  <2> QED
    BY <2>1
<1>7. ASSUME NEW p \in Ranks, MapBuffer(p, Caller) /\ UNCHANGED clientVars
      PROVE  Pends(a)'
  <2>1. /\ UNCHANGED <<i, pending_acks>> /\ pc[p][Caller] = "drain" /\ pending_acks[p] = 0
        /\ a # p => pc'[a][Caller] = pc[a][Caller]
        /\ pc'[p][Caller] \in {"ready", "fill"}
    BY <1>7 DEF MapBuffer, Drained
  <2>2. i[p] = OtherThan(p, 0)
    BY <2>1 DEF CallerInv, Stance
  <2>3. Passed(p) = 0
    BY <2>2, PassedCount DEF CallerInv
  <2>4. Passed(a)' = Passed(a)
    BY <2>1 DEF Passed
  <2> QED
    BY <2>1, <2>3, <2>4
<1>8. ASSUME NEW p \in Ranks, AcquireBox(p, Caller) /\ UNCHANGED clientVars
      PROVE  Pends(a)'
  BY <1>8 DEF AcquireBox
<1>9. ASSUME NEW p \in Ranks, PostRequest(p, Caller) /\ UNCHANGED clientVars
      PROVE  Pends(a)'
  BY <1>9 DEF PostRequest
<1>10. ASSUME NEW p \in Ranks, AwaitDelivered(p, Caller) /\ UNCHANGED clientVars
       PROVE  Pends(a)'
  BY <1>10 DEF AwaitDelivered
<1>11. ASSUME NEW p \in Ranks, ReleaseBox(p, Caller) /\ UNCHANGED clientVars
       PROVE  Pends(a)'
  <2>1. /\ UNCHANGED i /\ pc[p][Caller] = "release" /\ pc'[p][Caller] = "ready"
        /\ a # p => pc'[a][Caller] = pc[a][Caller] /\ pending_acks'[a] = pending_acks[a]
        /\ pending_acks'[p] = pending_acks[p] + 1
    BY <1>11 DEF ReleaseBox
  <2>2. Passed(a)' = Passed(a)
    BY <2>1 DEF Passed
  <2>3. CASE a = p
    BY <2>1, <2>2, <2>3
  <2>4. CASE a # p
    BY <2>1, <2>2, <2>4
  <2> QED
    BY <2>3, <2>4
<1>12. ASSUME NEW p \in Ranks, StartReceive(p)
       PROVE  Pends(a)'
  BY <1>12 DEF StartReceive, AwaitMessage
<1>13. ASSUME NEW p \in Ranks, CopyMessage(p)
       PROVE  Pends(a)'
  BY <1>13 DEF CopyMessage, CopyPayload
<1>14. ASSUME NEW p \in Ranks, ClearInbox(p) /\ UNCHANGED clientVars
       PROVE  Pends(a)'
  BY <1>14 DEF ClearInbox
<1>15. ASSUME NEW p \in Ranks, PostAck(p) /\ UNCHANGED clientVars
       PROVE  Pends(a)'
  BY <1>15 DEF PostAck
<1>16. ASSUME NEW p \in Ranks, done[p] = Rounds /\ BeginFinalize(p) /\ UNCHANGED clientVars
       PROVE  Pends(a)'
  <2>1. /\ UNCHANGED <<i, pending_acks>> /\ pc'[p][Caller] = "idle"
        /\ a # p => pc'[a][Caller] = pc[a][Caller]
    BY <1>16 DEF BeginFinalize
  <2> QED
    BY <2>1
<1>17. ASSUME NEW p \in Ranks, FinalizeAwaitAck(p) /\ UNCHANGED clientVars
       PROVE  Pends(a)'
  <2>1. /\ UNCHANGED <<i, pc>> /\ fpc[p] = "drain"
        /\ a # p => pending_acks'[a] = pending_acks[a]
    BY <1>17 DEF FinalizeAwaitAck, ConsumeAck
  <2>2. pc[p][Caller] = "idle"
    BY <2>1 DEF IInv, LockInv
  <2> QED
    BY <2>1, <2>2
<1>18. ASSUME NEW p \in Ranks, FinalizeLock(p) /\ UNCHANGED clientVars
       PROVE  Pends(a)'
  BY <1>18 DEF FinalizeLock
<1>19. ASSUME NEW p \in Ranks, FinalizeCount(p) /\ UNCHANGED clientVars
       PROVE  Pends(a)'
  BY <1>19 DEF FinalizeCount
<1>20. ASSUME NEW p \in Ranks, StopAcquireBox(p) /\ UNCHANGED clientVars
       PROVE  Pends(a)'
  BY <1>20 DEF StopAcquireBox
<1>21. ASSUME NEW p \in Ranks, PostSentinel(p) /\ UNCHANGED clientVars
       PROVE  Pends(a)'
  BY <1>21 DEF PostSentinel
<1>22. ASSUME RouterTake /\ UNCHANGED clientVars
       PROVE  Pends(a)'
  BY <1>22 DEF RouterTake
<1>23. ASSUME RouterReserve /\ UNCHANGED clientVars
       PROVE  Pends(a)'
  BY <1>23 DEF RouterReserve
<1>24. ASSUME RouterForward /\ UNCHANGED clientVars
       PROVE  Pends(a)'
  BY <1>24 DEF RouterForward
<1>25. ASSUME RouterConfirm /\ UNCHANGED clientVars
       PROVE  Pends(a)'
  BY <1>25 DEF RouterConfirm
<1>26. ASSUME UNCHANGED vars
       PROVE  Pends(a)'
  BY <1>26 DEF vars, comVars
<1> QED
  BY <1>1, <1>2, <1>3, <1>4, <1>5, <1>6, <1>7, <1>8, <1>9, <1>10, <1>11, <1>12, <1>13, <1>14, <1>15, <1>16, <1>17, <1>18, <1>19, <1>20, <1>21, <1>22, <1>23, <1>24, <1>25, <1>26
  DEF Next, CallerThread, SendStep, ReceiverThread, MainThread, FinalizeStep, Router,
      RouterStep, Terminated

(* The invariant holds when the processes start.                           *)
LEMMA MulticastInit == Init => MInv
<1> SUFFICES ASSUME Init
    PROVE  MInv
  OBVIOUS
<1>1. IInv
  BY InitInv DEF Init
<1>2. /\ pc = [p \in Ranks |-> [w \in Workers |-> "idle"]]
      /\ Caller \in Workers /\ box_full = 0 /\ router_pc = "wait"
      /\ inbox = [q \in Ranks |-> EmptyInbox]
      /\ \A p \in Ranks : i[p] = 0
  BY ClientTypes, <1>1 DEF Init, ComInit
<1>3. <<>> \in Seq(Payloads) /\ Blank \in Payloads /\ 0 \in 0 .. NProc /\ 0 \in 0 .. Rounds
      /\ Rounds \in 0 .. Rounds
  BY Numbers, EmptySeq DEF Payloads
<1>4. CallerInv
  BY <1>2, <1>3 DEF Init, CallerInv, Stance
<1>5. \A p \in Ranks : ~(0 > OtherThan(p, 0))
  BY FirstRank
<1>6. \A p \in Ranks : inbox[p].src_rank \notin Ranks /\ ~InTransit
  BY <1>2, NoRankNotRank DEF EmptyInbox, InTransit
<1>7. LogInv
  <2> SUFFICES ASSUME NEW p \in Ranks, NEW q \in Ranks
      PROVE  Logged(p, q)
    BY DEF LogInv
  <2>1. ~Called(p, q) /\ ~Mailed(p, q) /\ ~Waiting(p, q) /\ ~Ahead(p, q)
    BY <1>2, <1>5, <1>6 DEF Called, Mailed, Waiting, Ahead
  <2>2. OwedNr(p, q) = 0
    BY <2>1, OneOwed
  <2>3. seen[q][p] = log[p]
    BY DEF Init
  <2> QED
    BY <2>2, <2>3 DEF Logged
<1>8. KeptInv
  BY <1>2, <1>5, <1>6 DEF KeptInv, Loaded, Published, Elsewhere, Carried, Mailed, Waiting
<1>9. PendInv
  BY <1>2 DEF PendInv, Pends
<1> QED
  BY <1>1, <1>4, <1>7, <1>8, <1>9 DEF MInv

(* Every step of the processes and of the router keeps the invariant.      *)
LEMMA MulticastStep == MInv /\ [Next]_vars => MInv'
<1> SUFFICES ASSUME IInv, CallerInv, LogInv, KeptInv, PendInv, [Next]_vars
    PROVE  MInv'
  BY DEF MInv
<1>1. IInv'
  BY ClientStep, StepInv
<1>2. CallerInv'
  BY CallerStep
<1>3. LogInv'
  BY LogStep DEF LogInv
<1>4. KeptInv'
  <2>1. \A a \in Ranks : Loaded(a)' /\ Published(a)' /\ Elsewhere(a)'
    BY LoadedStep, PublishedStep, ElsewhereStep DEF KeptInv
  <2>2. \A a, b \in Ranks : a # b => Carried(a, b)'
    BY CarriedStep DEF KeptInv
  <2> QED
    BY <2>1, <2>2 DEF KeptInv
<1>5. PendInv'
  BY PendStep DEF PendInv
<1> QED
  BY <1>1, <1>2, <1>3, <1>4, <1>5 DEF MInv

(* Whatever the processes multicast and the scheduler does, the account of *)
(* what is on its way and who has seen what is kept (com_mcast, com_send,  *)
(* com_recv and server_loop, rpBenchmark1/com.c:446-757).                  *)
THEOREM MulticastInvariant == Spec => []MInv
<1> QED
  BY MulticastInit, MulticastStep, PTL DEF Spec

(* When com_mcast returns, its message has left the mailbox and is in the  *)
(* inbox of every other rank or has been copied from there, and the caller *)
(* waits for no acknowledgement but theirs.                                *)
THEOREM McastSendsToAll == Spec => []SentToAll
<1>1. MInv => SentToAll
  <2> SUFFICES ASSUME IInv, CallerInv, LogInv, PendInv,
                      NEW p \in Ranks, pc[p][Caller] = "ready", ~MoreRanks(p)
      PROVE  /\ \A q \in Ranks \ {p} :
                  seen[q][p] = log[p] \/ (inbox[q].src_rank = p /\ rpc[q] # "clear")
             /\ ~(InTransit /\ server_box.src_rank = p)
             /\ pending_acks[p] < NProc
    BY MulticastAssumption DEF MInv, SentToAll
  <2>1. ~(InTransit /\ server_box.src_rank = p)
    BY NothingMailed
  <2>2. pending_acks[p] = NProc - 1
    BY PassedCount DEF PendInv, Pends
  <2>3. ASSUME NEW q \in Ranks, q # p, ~Waiting(p, q)
        PROVE  seen[q][p] = log[p]
    <3>1. ~Called(p, q) /\ ~Mailed(p, q)
      BY <2>1 DEF Called, Mailed
    <3>2. ~Ahead(p, q)
      <4>1. PICK r \in 0 .. NProc : r = i[p] /\ ~(r < NProc)
        BY DEF CallerInv, MoreRanks
      <4>2. q \in Int /\ q < NProc
        BY Numbers DEF Ranks
      <4> QED
        BY <4>1, <4>2, Numbers DEF Ahead
    <3>3. OwedNr(p, q) = 0
      BY <2>3, <3>1, <3>2, OneOwed
    <3> QED
      BY <2>3, <3>3 DEF LogInv, Logged
  <2> QED
    BY <2>1, <2>2, <2>3, Numbers DEF Waiting
<1> QED
  BY <1>1, MulticastInvariant, PTL

(* com_mcast keeps what Broadcast promises of the order and the contents: a *)
(* message is published by the first send of a call, when every other      *)
(* process has seen the one before, and seen when a receiver has copied it *)
(* from the segment of the sender, unchanged.                              *)
THEOREM BroadcastImplemented == Spec => Bcast!Safety
<1>1. Init => Bcast!Init
  BY DEF Init, Bcast!Init
<1>2. MInv /\ [Next]_vars => [Bcast!Next]_<<log, seen>>
  <2>0. SUFFICES ASSUME IInv, CallerInv, LogInv, KeptInv, [Next]_vars
      PROVE  [Bcast!Next]_<<log, seen>>
    BY DEF MInv
  <2>1. ASSUME NEW p \in Ranks, McastSend(p)
        PROVE  [Bcast!Next]_<<log, seen>>
    <3>1. /\ msg[p] \in Payloads /\ UNCHANGED seen
          /\ log' = [log EXCEPT ![p] = IF i[p] = OtherThan(p, 0) THEN Append(@, msg[p]) ELSE @]
      BY <2>0, <2>1 DEF McastSend, CallerInv
    <3>2. CASE i[p] = OtherThan(p, 0)
      <4>1. Fresh(p)
        BY <2>0, <2>1, <3>2, SendEffect DEF Fresh
      <4>2. \A q \in Ranks \ {p} : seen[q][p] = log[p]
        BY <2>0, <4>1 DEF LogInv, Logged
      <4>3. Bcast!Publish(p, msg[p])
        BY <3>1, <3>2, <4>2 DEF Bcast!Publish
      <4> QED
        BY <3>1, <4>3 DEF Bcast!Next
    <3>3. CASE i[p] # OtherThan(p, 0)
      <4>1. log' = log
        BY <2>0, <3>1, <3>3 DEF CallerInv
      <4> QED
        BY <3>1, <4>1
    <3> QED
      BY <3>2, <3>3
  <2>2. ASSUME NEW q \in Ranks, CopyMessage(q)
        PROVE  [Bcast!Next]_<<log, seen>>
    <3>1. PICK s \in Ranks :
            /\ s = rcv[q].sender_rank /\ s # q
            /\ Waiting(s, q)
            /\ \A a \in Ranks : a # s => seen'[q][a] = seen[q][a]
            /\ seen'[q][s] = Append(seen[q][s], Latest(s))
            /\ UNCHANGED log
      BY SMTT(40), <2>0, <2>2, CopyEffect
    <3>2. OwedNr(s, q) = 1
      <4>1. Logged(s, q)
        BY <2>0, <3>1 DEF LogInv
      <4>2. OwedNr(s, q) <= 1
        BY <4>1 DEF Logged
      <4> QED
        BY ZenonT(40), <3>1, <4>2, OneOwed
    <3>3. PICK x \in Payloads : log[s] = Append(seen[q][s], x)
      <4>1. Logged(s, q)
        BY <2>0, <3>1 DEF LogInv
      <4> QED
        BY <3>2, <4>1 DEF Logged
    <3>4. seen[q][s] \in Seq(Payloads)
      BY <2>0 DEF CallerInv
    <3>5. /\ Len(log[s]) = Len(seen[q][s]) + 1 /\ Latest(s) = log[s][Len(seen[q][s]) + 1]
          /\ Len(seen[q][s]) < Len(log[s])
      BY <3>3, <3>4, LastAppended, LenProperties DEF Latest
    <3>6. seen' = [seen EXCEPT ![q][s] = Append(@, log[s][Len(@) + 1])]
      <4>1. PICK m : m = rcv'[q].msg /\ seen' = [seen EXCEPT ![q][s] = Append(@, m)]
        BY ZenonT(40), <2>2, <3>1 DEF CopyMessage
      <4>2. seen \in [Ranks -> [Ranks -> Seq(Payloads)]]
        BY <2>0 DEF CallerInv
      <4>3. PICK f \in [Ranks -> Seq(Payloads)] : f = seen[q]
        BY <4>2
      <4>4. seen' = [seen EXCEPT ![q] = [f EXCEPT ![s] = Append(f[s], m)]]
        BY <4>1, <4>3
      <4>5. seen'[q] = [f EXCEPT ![s] = Append(f[s], m)]
        BY <4>2, <4>4
      <4>6. seen'[q][s] = Append(f[s], m)
        BY SMTT(40), <4>5
      <4>7. Append(f[s], m) = Append(f[s], Latest(s))
        BY <3>1, <4>3, <4>6
      <4>8. Append(f[s], m) = Append(f[s], log[s][Len(f[s]) + 1])
        BY ZenonT(40), <3>5, <4>3, <4>7
      <4> QED
        BY ZenonT(40), <4>3, <4>4, <4>8
    <3>7. Bcast!See(q, s)
      BY ZenonT(40), <3>1, <3>5, <3>6 DEF Bcast!See
    <3> QED
      BY <3>7 DEF Bcast!Next
  <2>3. ASSUME UNCHANGED clientVars
        PROVE  [Bcast!Next]_<<log, seen>>
    BY <2>3 DEF clientVars
  <2>4. ASSUME NEW p \in Ranks, McastPrepare(p) \/ McastReturn(p)
        PROVE  [Bcast!Next]_<<log, seen>>
    BY <2>4 DEF McastPrepare, McastReturn
  <2>5. ASSUME NEW p \in Ranks, McastCopy(p) \/ StartReceive(p)
        PROVE  UNCHANGED clientVars
    BY <2>5 DEF McastCopy, StartReceive
  <2> QED
    BY <2>0, <2>1, <2>2, <2>3, <2>4, <2>5
    DEF Next, CallerThread, ReceiverThread, MainThread, Router, Terminated, vars
<1> QED
  BY <1>1, <1>2, MulticastInvariant, PTL DEF Spec, Bcast!Safety, Bcast!bcVars
-----------------------------------------------------------------------------
(* Nobody waits for ever: what a receiver has not seen is in the layer or  *)
(* still to be sent, so with nothing there everything was seen.            *)

(* A log has the messages of the calls that returned, and that of the      *)
(* current call once it is published.                                      *)
Calls(p) ==
  /\ done[p] < Rounds => p \in Senders
  /\ p \notin Senders => log[p] = <<>>
  /\ p \in Senders /\ NProc > 1 =>
       Len(log[p]) = done[p] + IF i[p] > OtherThan(p, 0) THEN 1 ELSE 0

CallsInv == \A p \in Ranks : Calls(p)

(* com_finalize is called when both threads are done, and they stay so. *)
LeftInv == \A p \in Ranks : fpc[p] # "run" => done[p] = Rounds /\ SeenAll(p)

(* What is counted stays counted. *)
LEMMA CallsStep ==
  ASSUME IInv, CallerInv, CallsInv, [Next]_vars
  PROVE  CallsInv'
<1>1. ASSUME UNCHANGED <<i, done, log>>  PROVE CallsInv'
  BY <1>1 DEF CallsInv, Calls
<1>2. ASSUME NEW p \in Ranks, Calls(p)',
             \A a \in Ranks : a # p => i'[a] = i[a] /\ done'[a] = done[a] /\ log'[a] = log[a]
      PROVE  CallsInv'
  <2> SUFFICES ASSUME NEW a \in Ranks, a # p  PROVE Calls(a)'
    BY <1>2 DEF CallsInv
  <2>1. Calls(a) /\ i'[a] = i[a] /\ done'[a] = done[a] /\ log'[a] = log[a]
    BY <1>2 DEF CallsInv
  <2> QED
    BY <2>1 DEF Calls
<1>3. ASSUME NEW p \in Ranks, McastPrepare(p)  PROVE CallsInv'
  <2>1. /\ pc[p][Caller] = "idle" /\ i' = [i EXCEPT ![p] = OtherThan(p, 0)] /\ UNCHANGED <<done, log>>
    BY <1>3 DEF McastPrepare, Prepare, At
  <2>2. i[p] = 0 /\ i'[p] = OtherThan(p, 0) /\ \A a \in Ranks : a # p => i'[a] = i[a]
    BY <2>1 DEF CallerInv, Stance
  <2>3. ~(0 > OtherThan(p, 0)) /\ ~(OtherThan(p, 0) > OtherThan(p, 0))
    BY FirstRank, Numbers
  <2>4. Calls(p)'
    BY <2>1, <2>2, <2>3 DEF CallsInv, Calls
  <2> QED
    BY <1>2, <2>1, <2>2, <2>4
<1>4. ASSUME NEW p \in Ranks, McastSend(p)  PROVE CallsInv'
  <2>1. /\ i' = [i EXCEPT ![p] = OtherThan(p, i[p] + 1)] /\ UNCHANGED done
        /\ log' = [log EXCEPT ![p] = IF i[p] = OtherThan(p, 0) THEN Append(@, msg[p]) ELSE @]
        /\ pc[p][Caller] = "ready" /\ i[p] < NProc
    BY <1>4 DEF McastSend, Send, At, MoreRanks
  <2>2. PICK d \in Ranks : d = i[p] /\ d # p /\ d >= OtherThan(p, 0)
    <3>1. PICK r \in 0 .. NProc : r = i[p] /\ r < NProc /\ r # p /\ r >= OtherThan(p, 0)
      BY <2>1 DEF CallerInv, Stance
    <3>2. r \in Ranks
      BY <3>1, Numbers DEF Ranks
    <3> QED
      BY <3>1, <3>2
  <2>3. OtherThan(p, d + 1) > d /\ OtherThan(p, d + 1) \in 0 .. NProc /\ OtherThan(p, 0) \in 0 .. NProc
    BY <2>2, NextRank, FirstRank
  <2>4. d \in Int
    BY Numbers DEF Ranks
  <2>5. OtherThan(p, d + 1) > OtherThan(p, 0) /\ (d > OtherThan(p, 0) \/ d = OtherThan(p, 0))
    BY <2>2, <2>3, <2>4, Numbers
  <2>6. /\ i'[p] = OtherThan(p, d + 1)
        /\ log'[p] = IF d = OtherThan(p, 0) THEN Append(log[p], msg[p]) ELSE log[p]
        /\ \A a \in Ranks : a # p => i'[a] = i[a] /\ done'[a] = done[a] /\ log'[a] = log[a]
    BY <2>1, <2>2 DEF CallerInv
  <2>7. p \in Senders /\ done[p] < Rounds
    BY <2>1 DEF CallerInv, Stance, CallsInv, Calls
  <2>8. Len(Append(log[p], msg[p])) = Len(log[p]) + 1
    BY AppendProperties DEF CallerInv
  <2>9. PICK n \in 0 .. Rounds : n = done[p] /\ n = done'[p]
    BY <2>1 DEF CallerInv
  <2>10. ASSUME NProc > 1  PROVE Len(log'[p]) = n + 1
    <3>1. Len(log[p]) = n + IF d > OtherThan(p, 0) THEN 1 ELSE 0
      BY <2>2, <2>7, <2>9, <2>10 DEF CallsInv, Calls
    <3>2. CASE d = OtherThan(p, 0)
      <4>1. ~(d > OtherThan(p, 0))
        BY <2>3, <2>4, <3>2, Numbers
      <4> QED
        BY <2>6, <2>8, <3>1, <3>2, <4>1, Numbers
    <3>3. CASE d > OtherThan(p, 0) /\ d # OtherThan(p, 0)
      BY <2>6, <3>1, <3>3
    <3> QED
      BY <2>5, <3>2, <3>3
  <2>11. Calls(p)'
    BY <2>5, <2>6, <2>7, <2>9, <2>10 DEF Calls
  <2> QED
    BY <1>2, <2>6, <2>11
<1>5. ASSUME NEW p \in Ranks, McastReturn(p)  PROVE CallsInv'
  <2>1. /\ i' = [i EXCEPT ![p] = 0] /\ done' = [done EXCEPT ![p] = @ + 1] /\ UNCHANGED log
        /\ pc[p][Caller] = "ready" /\ ~(i[p] < NProc)
    BY <1>5 DEF McastReturn, FinishBuffer, At, MoreRanks
  <2>2. /\ i'[p] = 0 /\ done'[p] = done[p] + 1
        /\ \A a \in Ranks : a # p => i'[a] = i[a] /\ done'[a] = done[a] /\ log'[a] = log[a]
    BY <2>1 DEF CallerInv
  <2>3. p \in Senders /\ done[p] < Rounds
    BY <2>1 DEF CallerInv, Stance, CallsInv, Calls
  <2>4. ASSUME NProc > 1  PROVE i[p] > OtherThan(p, 0)
    <3>1. i[p] = NProc
      <4>1. PICK r \in 0 .. NProc : r = i[p] /\ ~(r < NProc)
        BY <2>1 DEF CallerInv
      <4> QED
        BY <4>1, Numbers
    <3>2. OtherThan(p, 0) < NProc
      BY <2>4, Numbers DEF OtherThan
    <3>3. OtherThan(p, 0) \in 0 .. NProc
      BY FirstRank
    <3> QED
      BY <3>1, <3>2, <3>3, Numbers
  <2>5. ~(0 > OtherThan(p, 0))
    BY FirstRank, Numbers
  <2>6. PICK n \in 0 .. Rounds : n = done[p]
    BY DEF CallerInv
  <2>7. ASSUME NProc > 1  PROVE Len(log[p]) = n + 1
    BY <2>3, <2>4, <2>6, <2>7 DEF CallsInv, Calls
  <2>8. Calls(p)'
    BY <2>1, <2>2, <2>3, <2>5, <2>6, <2>7 DEF Calls
  <2> QED
    BY <1>2, <2>2, <2>8
<1>6. ASSUME \/ \E p \in Ranks : \/ McastCopy(p)
                                 \/ SendStep(p, Caller) /\ UNCHANGED clientVars
                                 \/ ReceiverThread(p)
                                 \/ MainThread(p)
             \/ Router
             \/ UNCHANGED vars
      PROVE  CallsInv'
  <2>1. UNCHANGED <<i, done, log>>
    BY <1>6 DEF McastCopy, ReceiverThread, StartReceive, CopyMessage, MainThread, Router, vars,
                clientVars, callVars
  <2> QED
    BY <1>1, <2>1
<1> QED
  BY <1>3, <1>4, <1>5, <1>6 DEF Next, CallerThread, Terminated

(* A process that finalizes has seen everything, and does not go on. *)
LEMMA LeftStep ==
  ASSUME IInv, CallerInv, LeftInv, [Next]_vars
  PROVE  LeftInv'
<1>1. LockInv /\ Caller \in Workers /\ fpc \in [Ranks -> {"run", "drain", "count", "stop", "sentinel", "gone"}]
  BY ClientTypes DEF IInv, TypeInv, TypeOK
<1>2. ASSUME NEW p \in Ranks, fpc[p] = "run", UNCHANGED fpc,
             \A r \in Ranks \ {p} : done'[r] = done[r] /\ seen'[r] = seen[r]
      PROVE  LeftInv'
  BY <1>2 DEF LeftInv, SeenAll
<1>3. ASSUME UNCHANGED <<fpc, done, seen>>  PROVE LeftInv'
  BY <1>3 DEF LeftInv, SeenAll
<1>4. ASSUME NEW p \in Ranks, McastReturn(p)  PROVE LeftInv'
  <2>1. /\ pc[p][Caller] = "ready" /\ UNCHANGED <<fpc, seen>>
        /\ done' = [done EXCEPT ![p] = @ + 1]
    BY <1>4 DEF McastReturn, FinishBuffer, At, finVars
  <2>2. fpc[p] = "run"
    BY <1>1, <2>1 DEF LockInv
  <2>3. \A r \in Ranks \ {p} : done'[r] = done[r]
    BY <2>1 DEF CallerInv
  <2> QED
    BY <1>2, <2>1, <2>2, <2>3
<1>5. ASSUME NEW q \in Ranks, CopyMessage(q)  PROVE LeftInv'
  <2>1. /\ rpc[q] = "copy" /\ UNCHANGED <<fpc, done>>
        /\ seen' = [seen EXCEPT ![q][rcv[q].sender_rank] = Append(@, rcv'[q].msg)]
    BY <1>5 DEF CopyMessage, CopyPayload, RecvAt, finVars, callVars
  <2>2. fpc[q] = "run"
    BY <1>1, <2>1 DEF LockInv
  <2>3. \A r \in Ranks \ {q} : seen'[r] = seen[r]
    BY <2>1 DEF CallerInv
  <2> QED
    BY <1>2, <2>1, <2>2, <2>3
<1>6. ASSUME NEW p \in Ranks, MainThread(p)  PROVE LeftInv'
  <2>1. /\ (done[p] = Rounds /\ SeenAll(p)) \/ fpc[p] # "run"
        /\ \A r \in Ranks \ {p} : fpc'[r] = fpc[r]
        /\ UNCHANGED <<done, seen>>
    BY SMTT(40), <1>1, <1>6 DEF MainThread, BeginFinalize, FinalizeStep, FinalizeAwaitAck, FinalizeLock,
                      FinalizeCount, StopAcquireBox, PostSentinel, FinAt, clientVars, callVars, finVars
  <2> QED
    BY <2>1 DEF LeftInv, SeenAll
<1>7. ASSUME NEW p \in Ranks, \/ McastPrepare(p) \/ McastCopy(p) \/ McastSend(p)
                              \/ SendStep(p, Caller) /\ UNCHANGED clientVars
                              \/ StartReceive(p)
                              \/ (ClearInbox(p) \/ PostAck(p)) /\ UNCHANGED clientVars
      PROVE  UNCHANGED <<fpc, done, seen>>
  BY SMTT(40), <1>7 DEF McastPrepare, Prepare, McastCopy, Fill, McastSend, Send, SendStep, LockBuffer,
              AwaitAck, MapBuffer, AcquireBox, PostRequest, AwaitDelivered, ReleaseBox, StartReceive,
              AwaitMessage, ClearInbox, PostAck, clientVars, callVars, finVars
<1>8. ASSUME Router \/ UNCHANGED vars  PROVE UNCHANGED <<fpc, done, seen>>
  BY <1>8 DEF Router, RouterStep, RouterTake, RouterReserve, RouterForward, RouterConfirm,
              clientVars, callVars, finVars, vars, comVars
<1>9. ASSUME NEW p \in Ranks, CallerThread(p)  PROVE LeftInv'
  BY <1>3, <1>4, <1>7, <1>9 DEF CallerThread
<1>10. ASSUME NEW p \in Ranks, ReceiverThread(p)  PROVE LeftInv'
  BY <1>3, <1>5, <1>7, <1>10 DEF ReceiverThread
<1> QED
  BY <1>3, <1>6, <1>8, <1>9, <1>10 DEF Next, Terminated

(* A log is no longer than the script, and complete after the last call. *)
LEMMA LogLength ==
  ASSUME CallerInv, CallsInv, NEW p \in Senders, NProc > 1
  PROVE  /\ p \in Ranks /\ Len(log[p]) \in Nat /\ Len(log[p]) <= Rounds
         /\ pc[p][Caller] = "idle" /\ done[p] = Rounds => Len(log[p]) = Rounds
<1>1. p \in Ranks
  BY MulticastAssumption
<1>2. PICK n \in 0 .. Rounds : n = done[p]
  BY <1>1 DEF CallerInv
<1>3. Len(log[p]) = n + IF i[p] > OtherThan(p, 0) THEN 1 ELSE 0
  BY <1>1, <1>2 DEF CallsInv, Calls
<1>4. i[p] > OtherThan(p, 0) => pc[p][Caller] # "idle" /\ n < Rounds
  <2>1. ~(0 > OtherThan(p, 0))
    BY <1>1, FirstRank, Numbers
  <2>2. Stance(p)
    BY <1>1 DEF CallerInv
  <2> QED
    BY <1>2, <2>1, <2>2 DEF Stance
<1> QED
  BY <1>1, <1>2, <1>3, <1>4, Numbers

(* A message in an inbox is one its receiver has still to see. *)
LEMMA FullInboxIsReceived ==
  ASSUME MInv, CallsInv, LeftInv, NEW q \in Ranks, slot_full[q] > 0
  PROVE  ReceiverReady(q)
<1>0. SUFFICES ASSUME rpc[q] = "idle"  PROVE ReceiverReady(q)
  BY DEF ReceiverReady
<1>1. PICK p \in Ranks : p = inbox[q].src_rank
  BY DEF MInv, IInv, SlotInv, Valid
<1>2. p # q
  BY <1>1 DEF MInv, KeptInv, Elsewhere
<1>3. NProc > 1
  BY <1>2, Numbers DEF Ranks
<1>4. Logged(p, q) /\ Waiting(p, q)
  BY <1>0, <1>1, <1>2 DEF MInv, LogInv, Waiting
<1>5. PICK x \in Payloads : log[p] = Append(seen[q][p], x)
  BY <1>4, OneOwed DEF Logged
<1>6. seen[q][p] \in Seq(Payloads)
  BY DEF MInv, CallerInv
<1>7. Len(log[p]) = Len(seen[q][p]) + 1 /\ Len(seen[q][p]) \in Nat
  BY <1>5, <1>6, AppendProperties, LenProperties
<1>8. p \in Senders
  <2>1. Len(<<>>) = 0
    OBVIOUS
  <2>2. log[p] # <<>>
    BY <1>7, <2>1
  <2> QED
    BY <2>2 DEF CallsInv, Calls
<1>9. Len(seen[q][p]) # Rounds
  BY <1>3, <1>7, <1>8, LogLength, Numbers DEF MInv
<1>10. ~SeenAll(q)
  BY <1>2, <1>8, <1>9 DEF SeenAll
<1>11. fpc[q] = "run"
  BY <1>10 DEF LeftInv
<1> QED
  BY <1>0, <1>10, <1>11 DEF ReceiverReady

(* When no receiver has a message the layer keeps nobody waiting: every    *)
(* message was sent and seen, and all threads have ended.                  *)
LEMMA MulticastGoesOn ==
  ASSUME MInv, CallsInv, LeftInv, PermitsHeld, ~RouterReady,
         \A p \in Ranks : ~CallerReady(p) /\ ~ReceiverReady(p) /\ ~MainReady(p)
  PROVE  AllGone
<1>1. IInv /\ CallerInv /\ LogInv /\ Caller \in Workers /\ \A w \in Workers : w = Caller
  BY ClientTypes DEF MInv
<1>2. \A q \in Ranks : rpc[q] = "idle" /\ slot_full[q] = 0
  <2> TAKE q \in Ranks
  <2>1. rpc[q] = "idle"
    BY DEF ReceiverReady
  <2>2. slot_full[q] \in {0, 1} /\ ~(slot_full[q] > 0)
    BY <1>1, FullInboxIsReceived DEF IInv, SlotInv
  <2> QED
    BY <2>1, <2>2
<1>3. \A p \in Ranks : ~FinalizeReady(p) /\ \A w \in Workers : ~SendStepReady(p, w)
  BY <1>1 DEF CallerReady, MainReady
<1>4. /\ \A p \in Ranks : fpc[p] \in {"run", "gone"}
      /\ \A p \in Ranks, w \in Workers :
           /\ pc[p][w] \in {"idle", "lock", "fill", "ready"}
           /\ pc[p][w] = "lock" => \E v \in Workers : pc[p][v] \in {"fill", "ready"}
      /\ ~InTransit /\ \A q \in Ranks : inbox[q] = EmptyInbox
      /\ (\A p \in Ranks : fpc[p] = "gone") => router_pc = "stopped"
  BY <1>1, <1>2, <1>3, LayerIdle
<1>5. \A p \in Ranks : pc[p][Caller] = "idle"
  <2> TAKE p \in Ranks
  <2>1. pc[p][Caller] \notin {"fill", "ready"}
    BY DEF CallerReady
  <2> QED
    BY <1>1, <1>4, <2>1
<1>6. \A p \in Ranks : done[p] = Rounds
  <2> TAKE p \in Ranks
  <2>1. CASE fpc[p] = "run"
    <3>1. ~(done[p] < Rounds)
      BY <1>5, <2>1 DEF CallerReady
    <3>2. PICK n \in 0 .. Rounds : n = done[p]
      BY <1>1 DEF CallerInv
    <3> QED
      BY <3>1, <3>2, Numbers
  <2>2. CASE fpc[p] # "run"
    BY <2>2 DEF LeftInv
  <2> QED
    BY <2>1, <2>2
<1>7. \A p, q \in Ranks : p # q => seen[q][p] = log[p]
  <2> SUFFICES ASSUME NEW p \in Ranks, NEW q \in Ranks, p # q  PROVE seen[q][p] = log[p]
    OBVIOUS
  <2>1. ~Called(p, q) /\ ~Mailed(p, q) /\ ~Waiting(p, q)
    BY <1>4, <1>5, NoRankNotRank DEF Called, Mailed, Waiting, EmptyInbox
  <2>2. ~Ahead(p, q)
    <3>1. i[p] = 0 /\ ~(0 > OtherThan(p, 0))
      BY <1>1, <1>5, FirstRank, Numbers DEF CallerInv, Stance
    <3> QED
      BY <3>1 DEF Ahead
  <2>3. OwedNr(p, q) = 0
    BY <2>1, <2>2, OneOwed
  <2> QED
    BY <1>1, <2>3 DEF LogInv, Logged
<1>8. \A q \in Ranks : SeenAll(q)
  <2> SUFFICES ASSUME NEW q \in Ranks, NEW p \in Senders \ {q}  PROVE Len(seen[q][p]) = Rounds
    BY DEF SeenAll
  <2>1. p \in Ranks
    BY MulticastAssumption
  <2>2. NProc > 1
    BY <2>1, Numbers DEF Ranks
  <2>3. Len(log[p]) = Rounds
    BY <1>1, <1>5, <1>6, <2>1, <2>2, LogLength
  <2> QED
    BY <1>7, <2>1, <2>3
<1>9. \A p \in Ranks : fpc[p] = "gone"
  <2> SUFFICES ASSUME NEW p \in Ranks, fpc[p] = "run"  PROVE FALSE
    BY <1>4
  <2>1. BeginFinalizeReady(p)
    BY <1>1, <1>2, <1>5 DEF BeginFinalizeReady
  <2> QED
    BY <1>6, <1>8, <2>1 DEF MainReady
<1> QED
  BY <1>4, <1>9 DEF AllGone

(* With a receiver thread in every process no circle of multicasts, full   *)
(* inboxes and the router's mailbox ever closes, for any processes,        *)
(* senders and scripts (com_mcast, com_recv, server_loop,                  *)
(* rpBenchmark1/com.c:446-757); a receiver with a full inbox waits for     *)
(* nobody.                                                                 *)
THEOREM MulticastNeverStuck == Spec => []NeverStuck
<1>1. Init => PermitsHeld /\ CallsInv /\ LeftInv
  <2> SUFFICES ASSUME Init  PROVE PermitsHeld /\ CallsInv /\ LeftInv
    OBVIOUS
  <2>1. PermitsHeld
    BY PermitsInit DEF Init
  <2>2. LeftInv
    BY DEF Init, ComInit, LeftInv
  <2>3. CallsInv
    <3> SUFFICES ASSUME NEW p \in Ranks  PROVE Calls(p)
      BY DEF CallsInv
    <3>1. i[p] = 0 /\ log[p] = <<>> /\ done[p] = IF p \in Senders THEN 0 ELSE Rounds
      BY DEF Init
    <3>2. ~(0 > OtherThan(p, 0)) /\ Len(<<>>) = 0 /\ ~(Rounds < Rounds)
      BY FirstRank, Numbers
    <3> QED
      BY <3>1, <3>2 DEF Calls
  <2> QED
    BY <2>1, <2>2, <2>3
<1>2. MInv /\ PermitsHeld /\ CallsInv /\ LeftInv /\ [Next]_vars => PermitsHeld' /\ CallsInv' /\ LeftInv'
  BY ClientStep, PermitsStep, CallsStep, LeftStep DEF MInv
<1>3. MInv /\ PermitsHeld /\ CallsInv /\ LeftInv => NeverStuck
  BY FullInboxIsReceived, MulticastGoesOn DEF NeverStuck
<1> QED
  BY <1>1, <1>2, <1>3, MulticastInvariant, PTL DEF Spec
=============================================================================
