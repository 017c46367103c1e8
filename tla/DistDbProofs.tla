---------------------------- MODULE DistDbProofs ----------------------------
(***************************************************************************)
(* rpBenchmark2 over com.c, for every number of processes and requests and *)
(* every size of a response: its threads use com.h as they must, every     *)
(* step of theirs and of com.c is a step of DbProtocol or changes nothing  *)
(* there, and what DbProtocolProofs proves of the protocol therefore holds *)
(* of the program.                                                         *)
(*                                                                         *)
(* The three are one induction: a message is whole when it is read because *)
(* of com.c (IInv), com.c is used as it must because of the program        *)
(* (ClientInv), and a thread sends only when it may because of the         *)
(* protocol (ProtocolInv).                                                 *)
(***************************************************************************)
EXTENDS DistDb, ComProofs

(* The variables of DbProtocol, as DistDb implements them. *)
Boxes     == [q \in Ranks |-> BoxOf(q)]
SentTo    == [p \in Ranks |-> sent[p] + IF Accepted(p, Compute) THEN 1 ELSE 0]
Waiting   == [p \in Ranks |-> awaiting[p] \/ (Accepted(p, Compute) /\ sent[p] < Requests)]
Serving   == [p \in Ranks |-> ServingOf(p)]
Gotten    == [p \in Ranks |-> got[p] \cup CopiedBy(p)]

P == INSTANCE DbProtocolProofs WITH
  box <- Boxes, sent <- SentTo, awaiting <- Waiting, serving <- Serving, got <- Gotten

(* The assumptions of DbProtocol hold of the constants of DistDb. *)
LEMMA Constants ==
  /\ NProc \in Nat /\ NProc >= 2
  /\ Requests \in Nat \ {0}
  /\ ResponseSize \in Nat /\ ResponseSize > 1
  /\ Capacity \in Nat /\ Capacity >= NProc - 1
BY ComAssumption, DistDbAssumption

(* The invariants of the protocol are inductive. *)
LEMMA ProtocolKept ==
  /\ P!Init => P!ProtocolInv /\ P!RightInv
  /\ P!ProtocolInv /\ P!RightInv /\ [P!Next]_P!vars => P!ProtocolInv' /\ P!RightInv'
<1>1. P!Init => P!ProtocolInv
  BY P!ProtocolInit, Constants
<1>2. P!Init => P!RightInv
  BY P!RightInit, Constants
<1>3. P!ProtocolInv /\ [P!Next]_P!vars => P!ProtocolInv'
  BY P!ProtocolStep, Constants
<1>4. P!ProtocolInv /\ P!RightInv /\ [P!Next]_P!vars => P!RightInv'
  BY P!RightStep, Constants
<1> QED
  BY <1>1, <1>2, <1>3, <1>4
-----------------------------------------------------------------------------
(* The instance has the messages of DistDb. *)

(* Its numbers and its fields. *)
LEMMA SameFields ==
  /\ P!LastMessage = LastMessage /\ P!Ranks = Ranks /\ P!None = None
  /\ \A p, i : P!Target(p, i) = Target(p, i)
  /\ \A p, i : P!Key(p, i) = Key(p, i)
  /\ \A s, b : P!ChecksumValid(s, b) <=> ChecksumValid(s, b)
<1>1. P!LastMessage = LastMessage
  BY DEF P!LastMessage, LastMessage
<1>2. P!Ranks = Ranks /\ P!None = None
  BY DEF P!Ranks, Ranks, P!None, None
<1>3. \A p, i : P!Target(p, i) = Target(p, i)
  BY DEF P!Target, Target
<1>4. \A p, i : P!Key(p, i) = Key(p, i)
  BY DEF P!Key, Key
<1>5. \A s, b : P!ChecksumValid(s, b) <=> ChecksumValid(s, b)
  BY DEF P!ChecksumValid, ChecksumValid, P!ChecksumPayload, ChecksumPayload, P!MapThenSumSet, MapThenSumSet,
         P!MapThenFoldSet, MapThenFoldSet
<1> QED
  BY <1>1, <1>2, <1>3, <1>4, <1>5

(* Its messages. *)
LEMMA SameMessages ==
  /\ \A p, i, s : P!Request(p, i, s) = Request(p, i, s)
  /\ \A p, m : P!Response(p, m) = Response(p, m)
  /\ \A p, type : P!Control(p, type) = Control(p, type)
<1>1. \A type, id, p, key, size, bytes :
        P!Header(type, id, p, key, size, bytes) = Header(type, id, p, key, size, bytes)
  BY DEF P!Header, Header
<1>2. P!NoBytes = NoBytes
  BY DEF P!NoBytes, NoBytes
<1>3. \A p, id, key, size : P!FillResponse(p, id, key, size) = FillResponse(p, id, key, size)
  BY DEF P!FillResponse, FillResponse, P!Byte, Byte
<1>4. \A p, i, s : P!Request(p, i, s) = Request(p, i, s)
  BY <1>1, <1>2, SameFields DEF P!Request, Request
<1>5. \A p, m : P!Response(p, m) = Response(p, m)
  BY <1>1, <1>3 DEF P!Response, Response
<1>6. \A p, type : P!Control(p, type) = Control(p, type)
  BY <1>1, <1>2 DEF P!Control, Control
<1> QED
  BY <1>4, <1>5, <1>6

(* Its script. *)
LEMMA SameScript ==
  /\ P!DbMessage = DbMessage
  /\ \A p, n : P!Message(p, n) = Message(p, n)
  /\ \A p, n : P!Dest(p, n) = Dest(p, n)
<1>1. P!DbMessage = DbMessage
  BY SameMessages DEF P!DbMessage, DbMessage
<1>2. \A p, n : P!Message(p, n) = Message(p, n)
  BY SameFields, SameMessages DEF P!Message, Message
<1>3. \A p, j : P!OtherRank(p, j) = OtherRank(p, j)
  BY DEF P!OtherRank, OtherRank
<1>4. \A p, n : P!Dest(p, n) = Dest(p, n)
  BY <1>3, SameFields DEF P!Dest, Dest
<1> QED
  BY <1>1, <1>2, <1>4
-----------------------------------------------------------------------------
(* The messages of rpBenchmark2 in the segments of com.c. *)

(* What the threads look at in a message. *)
LEMMA Kinds ==
  ASSUME NEW m \in DbMessage
  PROVE  /\ m.type \in {"REQUEST", "RESPONSE", "STOP", "LOCAL_DONE"}
         /\ m.source_rank \in Ranks
         /\ m.type = "REQUEST" => \A p \in Ranks : Response(p, m) \in DbMessage
<1>1. \A n \in P!DbMessage :
         /\ n.type \in {"REQUEST", "RESPONSE", "STOP", "LOCAL_DONE"}
         /\ n.source_rank \in P!Ranks
         /\ n.type = "REQUEST" => \A p \in P!Ranks : P!Response(p, n) \in P!DbMessage
  BY P!Kinds, Constants
<1> QED
  BY <1>1, SameFields, SameMessages, SameScript

(* What a compute thread sends, and where to. *)
LEMMA Sends ==
  ASSUME NEW p \in Ranks, NEW n \in 0 .. LastMessage
  PROVE  /\ Message(p, n) \in DbMessage /\ Message(p, n).source_rank = p
         /\ Dest(p, n) \in Ranks
<1>1. \A q \in P!Ranks : \A i \in 0 .. P!LastMessage :
        P!Message(q, i) \in P!DbMessage /\ P!Message(q, i).source_rank = q
  BY P!Sends, Constants
<1>2. \A q \in P!Ranks : \A i \in 0 .. P!LastMessage : P!Dest(q, i) \in P!Ranks
  BY P!Destinations, Constants
<1> QED
  BY <1>1, <1>2, SameFields, SameScript

(* Every message is one of two sizes, and never empty. *)
LEMMA MessageSize ==
  ASSUME NEW m \in DbMessage
  PROVE  SizeOf(m) \in Sizes /\ SizeOf(m) \in Nat \ {0}
<1>1. PICK H \in Nat \ {0} : H = HeaderSize
  BY DistDbAssumption
<1>2. PICK R \in Nat : R = ResponseSize
  BY DistDbAssumption
<1>3. m.bytes = NoBytes \/ \E p, id, key : m.bytes = FillResponse(p, id, key, ResponseSize)
  BY DEF DbMessage, Request, Response, Control, Header
<1>4. CASE m.bytes = NoBytes
  <2>1. DOMAIN m.bytes = {}
    BY <1>4 DEF NoBytes
  <2>2. Cardinality(DOMAIN m.bytes) = 0
    BY <2>1, FS_EmptySet
  <2> QED
    BY <1>1, <2>2, DistDbAssumption DEF SizeOf
<1>5. ASSUME NEW p, NEW id, NEW key, m.bytes = FillResponse(p, id, key, ResponseSize)
      PROVE  SizeOf(m) \in Sizes /\ SizeOf(m) \in Nat \ {0}
  <2>1. DOMAIN m.bytes = 0 .. R - 1
    BY <1>2, <1>5 DEF FillResponse
  <2>2. Cardinality(DOMAIN m.bytes) = R
    <3>1. 0 \in Int /\ R - 1 \in Int /\ ~(0 > R - 1)
      BY <1>2, DistDbAssumption
    <3>2. Cardinality(0 .. R - 1) = R - 1 - 0 + 1
      BY <3>1, FS_Interval
    <3> QED
      BY <2>1, <3>2
  <2> QED
    BY <1>1, <1>2, <2>2, DistDbAssumption DEF SizeOf
<1> QED
  BY <1>3, <1>4, <1>5
-----------------------------------------------------------------------------
(* The inductive invariant of the threads of rpBenchmark2. *)

(* What the variables hold. *)
ClientTypes ==
  /\ alive = Ranks
  /\ out \in [Ranks -> [Workers -> SUBSET [dest: Ranks, msg: DbMessage]]]
  /\ sent \in [Ranks -> 0 .. LastMessage + 1]
  /\ awaiting \in [Ranks -> BOOLEAN]
  /\ got \in [Ranks -> SUBSET DbMessage]

(* A thread has a message to send from com_prepare_send_buffer to com_send, *)
(* has prepared room for it, and from then on it is in the segment; no      *)
(* earlier message of its process is unread when it writes.                 *)
Thread(p, w) ==
  /\ \A o, n \in out[p][w] : o = n
  /\ out[p][w] # None => pc[p][w] \in {"lock", "drain", "fill", "ready"}
  /\ pc[p][w] \in {"lock", "drain", "fill"} => out[p][w] # None
  /\ \A o \in out[p][w] :
       /\ o.msg.source_rank = p
       /\ call[p][w].size = SizeOf(o.msg)
       /\ pc[p][w] = "ready" => segment[p] = o.msg /\ pending_acks[p] = 0
  /\ pc[p][w] \in {"box", "post", "deliver"} =>
       /\ segment[p] \in DbMessage /\ segment[p].source_rank = p
       /\ call[p][w].size = SizeOf(segment[p])
  /\ pc[p][w] \in {"fill", "box", "post", "deliver", "release"} => pending_acks[p] = 0

Threads == \A p \in Ranks, w \in Workers : Thread(p, w)

(* The compute thread sends the next message of its script, and only when  *)
(* it waits for no response.                                               *)
ComputeScript(p) ==
  /\ pc[p][Compute] # "idle" => ~awaiting[p] /\ sent[p] <= LastMessage
  /\ \A o \in out[p][Compute] : o.dest = Dest(p, sent[p]) /\ o.msg = Message(p, sent[p])
  /\ pc[p][Compute] \in {"box", "post"} =>
       call[p][Compute].dest = Dest(p, sent[p]) /\ segment[p] = Message(p, sent[p])

(* The request handler returns when the queue is closed, and the receiver  *)
(* calls com_recv with nothing to dispatch.                                *)
OthersScript(p) ==
  /\ handled[p] => closed[p] /\ pc[p][Handler] = "idle"
  /\ rpc[p] # "idle" => got[p] = None /\ ~AllStopped(p)

(* A message in an inbox is still whole in the segment of its sender, and  *)
(* com_recv has copied the whole of it.                                    *)
Arrived(q) ==
  /\ \A s \in Ranks : inbox[q].src_rank = s =>
       /\ segment[s] \in DbMessage /\ segment[s].source_rank = s
       /\ inbox[q].size = SizeOf(segment[s])
  /\ rpc[q] \in {"clear", "ack"} =>
       /\ rcv[q].msg \in DbMessage /\ rcv[q].msg.source_rank = rcv[q].sender_rank
       /\ rcv[q].size = SizeOf(rcv[q].msg)

ClientInv ==
  /\ ClientTypes /\ Threads
  /\ \A p \in Ranks : ComputeScript(p) /\ OthersScript(p) /\ Arrived(p)

(* The invariant of the whole: the layer, its clients and their protocol. *)
DInv == IInv /\ ClientInv /\ P!ProtocolInv /\ P!RightInv
-----------------------------------------------------------------------------
(* What a step of a thread in com.h does to the variables of ClientInv. *)

(* A function of ranks and threads with one value changed. *)
LEMMA ThreadUpdate ==
  ASSUME NEW S, NEW f \in [Ranks -> [Workers -> S]], NEW p \in Ranks, NEW w \in Workers, NEW e
  PROVE  \A a \in Ranks, v \in Workers :
           [f EXCEPT ![p][w] = e][a][v] = IF a = p /\ v = w THEN e ELSE f[a][v]
<1> TAKE a \in Ranks, v \in Workers
<1>1. PICK g \in [Workers -> S] : g = f[p]
  OBVIOUS
<1>2. [f EXCEPT ![p][w] = e] = [f EXCEPT ![p] = [g EXCEPT ![w] = e]]
  BY <1>1
<1>3. CASE a = p
  BY <1>1, <1>2, <1>3
<1>4. CASE a # p
  BY <1>2, <1>4
<1> QED
  BY <1>3, <1>4

(* Only thread w of p moves, and only the segment and the acknowledgements *)
(* of p can change.                                                        *)
Moves(p, w, from, to) ==
  /\ pc[p][w] = from /\ pc'[p][w] = to
  /\ \A a \in Ranks, v \in Workers : a # p \/ v # w =>
       pc'[a][v] = pc[a][v] /\ call'[a][v] = call[a][v] /\ out'[a][v] = out[a][v]
  /\ \A a \in Ranks \ {p} : segment'[a] = segment[a] /\ pending_acks'[a] = pending_acks[a]
  /\ UNCHANGED <<inbox, rpc, rcv, alive>>

(* What moves is the position of the thread alone. *)
Passes(p, w, from, to) ==
  /\ Moves(p, w, from, to)
  /\ UNCHANGED <<call, out, segment, pending_acks>>

(* Assignments to the position of a thread. *)
LEMMA PcUpdate ==
  ASSUME TypeOK, NEW p \in Ranks, NEW w \in Workers, NEW to, Goto(p, w, to)
  PROVE  \A a \in Ranks, v \in Workers : pc'[a][v] = IF a = p /\ v = w THEN to ELSE pc[a][v]
BY ThreadUpdate DEF TypeOK, Goto

(* Assignments to its arguments. *)
LEMMA CallUpdate ==
  ASSUME TypeOK, NEW p \in Ranks, NEW w \in Workers, NEW c, call' = [call EXCEPT ![p][w] = c]
  PROVE  \A a \in Ranks, v \in Workers : call'[a][v] = IF a = p /\ v = w THEN c ELSE call[a][v]
BY ThreadUpdate DEF TypeOK

(* The thread enters com_prepare_send_buffer. *)
LEMMA StartEffect ==
  ASSUME TypeOK, ClientTypes, NEW p \in Ranks, NEW w \in Workers, NEW q, NEW m,
         StartSend(p, w, q, m)
  PROVE  /\ Moves(p, w, "idle", "lock")
         /\ call'[p][w].size = SizeOf(m) /\ out'[p][w] = {[dest |-> q, msg |-> m]}
         /\ UNCHANGED <<segment, pending_acks>>
<1>1. /\ pc[p][w] = "idle" /\ Goto(p, w, "lock")
      /\ call' = [call EXCEPT ![p][w] = Call(SizeOf(m), NoRank, 0)]
      /\ out' = [out EXCEPT ![p][w] = {[dest |-> q, msg |-> m]}]
      /\ UNCHANGED <<inbox, rpc, rcv, alive, segment, pending_acks>>
  BY DEF StartSend, Prepare, At, inboxVars, ackVars, segVars, recvVars
<1>2. \A a \in Ranks, v \in Workers : pc'[a][v] = IF a = p /\ v = w THEN "lock" ELSE pc[a][v]
  BY <1>1, PcUpdate
<1>3. \A a \in Ranks, v \in Workers :
        call'[a][v] = IF a = p /\ v = w THEN Call(SizeOf(m), NoRank, 0) ELSE call[a][v]
  BY <1>1, ThreadUpdate DEF TypeOK
<1>4. \A a \in Ranks, v \in Workers :
        out'[a][v] = IF a = p /\ v = w THEN {[dest |-> q, msg |-> m]} ELSE out[a][v]
  BY <1>1, ThreadUpdate DEF ClientTypes
<1> QED
  BY <1>1, <1>2, <1>3, <1>4 DEF Moves, Call

(* The caller writes its message. *)
LEMMA FillEffect ==
  ASSUME TypeOK, ClientTypes, NEW p \in Ranks, NEW w \in Workers, NEW m, Fill(p, w, m),
         UNCHANGED out
  PROVE  /\ Moves(p, w, "fill", "ready") /\ segment'[p] = m
         /\ UNCHANGED <<call, out, pending_acks>>
<1>1. /\ pc[p][w] = "fill" /\ Goto(p, w, "ready")
      /\ segment' = [segment EXCEPT ![p] = m]
      /\ UNCHANGED <<call, inbox, rpc, rcv, alive, pending_acks>>
  BY DEF Fill, At, inboxVars, ackVars, recvVars
<1>2. \A a \in Ranks : segment'[a] = IF a = p THEN m ELSE segment[a]
  BY <1>1 DEF TypeOK
<1> QED
  BY <1>1, <1>2, PcUpdate DEF Moves

(* com_send is called. *)
LEMMA SendEffect ==
  ASSUME TypeOK, ClientTypes, NEW p \in Ranks, NEW w \in Workers, NEW q, Send(p, w, q),
         out' = [out EXCEPT ![p][w] = None]
  PROVE  /\ Moves(p, w, "ready", "box")
         /\ call'[p][w].size = call[p][w].size /\ call'[p][w].dest = q /\ out'[p][w] = None
         /\ UNCHANGED <<segment, pending_acks>>
<1>1. /\ pc[p][w] = "ready" /\ Goto(p, w, "box")
      /\ call' = [call EXCEPT ![p][w] = Call(call[p][w].size, q, next_msg_id[p])]
      /\ UNCHANGED <<inbox, rpc, rcv, alive, segment, pending_acks>>
  BY DEF Send, At, inboxVars, ackVars, segVars, recvVars
<1>2. \A a \in Ranks, v \in Workers : pc'[a][v] = IF a = p /\ v = w THEN "box" ELSE pc[a][v]
  BY <1>1, PcUpdate
<1>3. \A a \in Ranks, v \in Workers :
        call'[a][v] = IF a = p /\ v = w THEN Call(call[p][w].size, q, next_msg_id[p]) ELSE call[a][v]
  BY <1>1, ThreadUpdate DEF TypeOK
<1>4. \A a \in Ranks, v \in Workers : out'[a][v] = IF a = p /\ v = w THEN None ELSE out[a][v]
  BY ThreadUpdate DEF ClientTypes
<1> QED
  BY <1>1, <1>2, <1>3, <1>4 DEF Moves, Call

(* The steps inside com.h that only move the thread. *)
LEMMA StepEffect ==
  ASSUME TypeOK, ClientTypes, NEW p \in Ranks, NEW w \in Workers, UNCHANGED out
  PROVE  /\ LockBuffer(p, w) => Passes(p, w, "lock", "drain")
         /\ MapBuffer(p, w) /\ call[p][w].size # 0 =>
              Passes(p, w, "drain", "fill") /\ pending_acks[p] = 0
         /\ AcquireBox(p, w) => Passes(p, w, "box", "post")
         /\ PostRequest(p, w) => Passes(p, w, "post", "deliver")
         /\ AwaitDelivered(p, w) => Passes(p, w, "deliver", "release")
<1>1. ASSUME NEW from, NEW to, pc[p][w] = from, Goto(p, w, to),
             UNCHANGED <<call, inbox, rpc, rcv, alive, segment, pending_acks>>
      PROVE  Passes(p, w, from, to)
  BY <1>1, PcUpdate DEF Moves, Passes
<1>2. ASSUME LockBuffer(p, w)  PROVE Passes(p, w, "lock", "drain")
  BY <1>1, <1>2 DEF LockBuffer, At, inboxVars, ackVars, segVars, recvVars
<1>3. ASSUME MapBuffer(p, w), call[p][w].size # 0
      PROVE  Passes(p, w, "drain", "fill") /\ pending_acks[p] = 0
  BY <1>1, <1>3 DEF MapBuffer, Drained, At, inboxVars, ackVars, recvVars
<1>4. ASSUME AcquireBox(p, w)  PROVE Passes(p, w, "box", "post")
  BY <1>1, <1>4 DEF AcquireBox, At, inboxVars, ackVars, segVars, recvVars
<1>5. ASSUME PostRequest(p, w)  PROVE Passes(p, w, "post", "deliver")
  BY <1>1, <1>5 DEF PostRequest, At, inboxVars, ackVars, segVars, recvVars
<1>6. ASSUME AwaitDelivered(p, w)  PROVE Passes(p, w, "deliver", "release")
  BY <1>1, <1>6 DEF AwaitDelivered, At, inboxVars, ackVars, segVars, recvVars
<1> QED
  BY <1>2, <1>3, <1>4, <1>5, <1>6

(* wait_for_pending_acks takes an acknowledgement. *)
LEMMA AckEffect ==
  ASSUME TypeOK, ClientTypes, NEW p \in Ranks, NEW w \in Workers, AwaitAck(p, w), UNCHANGED out
  PROVE  Moves(p, w, "drain", "drain") /\ UNCHANGED <<call, out, segment>>
<1>1. /\ pc[p][w] = "drain" /\ pending_acks' = [pending_acks EXCEPT ![p] = @ - 1]
      /\ UNCHANGED <<pc, call, inbox, rpc, rcv, alive, segment>>
  BY DEF AwaitAck, ConsumeAck, At, threadVars, inboxVars, segVars, recvVars
<1>2. \A a \in Ranks \ {p} : pending_acks'[a] = pending_acks[a]
  BY <1>1 DEF TypeOK
<1> QED
  BY <1>1, <1>2 DEF Moves

(* com_send returns. *)
LEMMA ReleaseEffect ==
  ASSUME TypeOK, ClientTypes, NEW p \in Ranks, NEW w \in Workers, ReleaseBox(p, w), UNCHANGED out
  PROVE  Moves(p, w, "release", "ready") /\ UNCHANGED <<out, segment>>
<1>1. /\ pc[p][w] = "release" /\ Goto(p, w, "ready")
      /\ call' = [call EXCEPT ![p][w] = Call(call[p][w].size, NoRank, 0)]
      /\ pending_acks' = [pending_acks EXCEPT ![p] = @ + 1]
      /\ UNCHANGED <<inbox, rpc, rcv, alive, segment>>
  BY DEF ReleaseBox, At, inboxVars, segVars, recvVars
<1>2. \A a \in Ranks \ {p} : pending_acks'[a] = pending_acks[a]
  BY <1>1 DEF TypeOK
<1> QED
  BY <1>1, <1>2, PcUpdate, CallUpdate DEF Moves

(* com_finish_send_buffer. *)
LEMMA FinishEffect ==
  ASSUME TypeOK, ClientTypes, NEW p \in Ranks, NEW w \in Workers, FinishBuffer(p, w), UNCHANGED out
  PROVE  Moves(p, w, "ready", "idle") /\ UNCHANGED <<out, segment, pending_acks>>
<1>1. /\ pc[p][w] = "ready" /\ Goto(p, w, "idle")
      /\ call' = [call EXCEPT ![p][w] = NoCall]
      /\ UNCHANGED <<inbox, rpc, rcv, alive, segment, pending_acks>>
  BY DEF FinishBuffer, At, inboxVars, ackVars, recvVars
<1> QED
  BY <1>1, PcUpdate, CallUpdate DEF Moves
-----------------------------------------------------------------------------
(* The threads use com.h as its clients must. *)

(* The request queue holds requests. *)
LEMMA QueueHead ==
  ASSUME P!ProtocolInv, NEW p \in Ranks, queue[p] # <<>>
  PROVE  Head(queue[p]) \in DbMessage /\ Head(queue[p]).type = "REQUEST"
<1>1. queue[p] \in Seq(DbMessage)
  BY SameFields, SameScript DEF P!ProtocolInv, P!TypeInv
<1>2. Head(queue[p]) \in DbMessage
  BY <1>1, HeadTailProperties
<1>3. 1 \in DOMAIN queue[p] /\ Head(queue[p]) = queue[p][1]
  BY <1>1, EmptySeq, LenProperties
<1>4. \A k \in DOMAIN queue[p] : queue[p][k].type = "REQUEST"
  BY SameFields DEF P!ProtocolInv, P!ContentInv
<1> QED
  BY <1>2, <1>3, <1>4

(* What the request handler begins to send. *)
LEMMA Answering ==
  ASSUME P!ProtocolInv, NEW p \in Ranks, HandleRequest(p)
  PROVE  \E q \in Ranks, m \in DbMessage :
           m.source_rank = p /\ StartSend(p, Handler, q, m)
<1> PICK m \in DbMessage : m = Head(queue[p]) /\ m.type = "REQUEST"
  BY QueueHead DEF HandleRequest
<1>1. m.source_rank \in Ranks /\ Response(p, m) \in DbMessage
  BY Kinds
<1>2. Response(p, m).source_rank = p
  BY DEF Response, Header
<1>3. StartSend(p, Handler, m.source_rank, Response(p, m))
  BY DEF HandleRequest
<1> QED
  BY <1>1, <1>2, <1>3

(* What the compute thread begins to send. *)
LEMMA Asking ==
  ASSUME ClientTypes, NEW p \in Ranks, ComputeSend(p)
  PROVE  /\ Dest(p, sent[p]) \in Ranks /\ Message(p, sent[p]) \in DbMessage
         /\ Message(p, sent[p]).source_rank = p
         /\ StartSend(p, Compute, Dest(p, sent[p]), Message(p, sent[p]))
<1>1. sent[p] \in 0 .. LastMessage
  <2>1. sent[p] \in 0 .. LastMessage + 1 /\ sent[p] <= LastMessage
    BY DEF ClientTypes, ComputeSend
  <2>2. LastMessage \in Nat
    BY Constants DEF LastMessage
  <2> QED
    BY <2>1, <2>2
<1> QED
  BY <1>1, Sends DEF ComputeSend

(* The two threads of a process that send. *)
LEMMA TwoThreads == Compute \in Workers /\ Handler \in Workers /\ Compute # Handler
BY DistDbAssumption

(* A thread that begins to send calls com_prepare_send_buffer with a size  *)
(* of Sizes.                                                               *)
LEMMA StartIsPrepare ==
  ASSUME NEW p \in Ranks, NEW w \in Workers, NEW q \in Ranks, NEW m \in DbMessage,
         StartSend(p, w, q, m)
  PROVE  \E s \in Sizes : Prepare(p, w, s)
BY MessageSize DEF StartSend

(* A thread that sends fills the buffer with data and names a rank. *)
LEMMA SendingIsLegal ==
  ASSUME ClientTypes, NEW p \in Ranks, NEW w \in Workers, Sending(p, w)
  PROVE  \/ \E d \in Data : Fill(p, w, d)
         \/ \E q \in Ranks : Send(p, w, q)
         \/ SendStep(p, w)
<1>1. out[p][w] \subseteq [dest: Ranks, msg: DbMessage]
  BY DEF ClientTypes
<1>2. \A o \in out[p][w] : o.dest \in Ranks /\ o.msg \in Data
  BY <1>1, DistDbAssumption
<1> QED
  BY <1>2 DEF Sending, WriteMessage, SendMessage

(* Every step of rpBenchmark2 is a step of com.c or of a client of com.h,  *)
(* or does nothing there.                                                  *)
LEMMA ClientStep ==
  ASSUME ClientTypes, P!ProtocolInv, [Next]_vars
  PROVE  [ComNext]_comVars
<1>1. ASSUME NEW p \in Ranks, ComputeThread(p)  PROVE [ComNext]_comVars
  <2>1. CASE ComputeSend(p)
    BY <2>1, Asking, StartIsPrepare, TwoThreads DEF ComNext
  <2>2. CASE Sending(p, Compute)
    BY <2>2, SendingIsLegal, TwoThreads DEF ComNext
  <2>3. CASE ComputeSent(p)
    BY <2>3, TwoThreads DEF ComputeSent, FinishSend, ComNext
  <2>4. CASE TakeResponse(p)
    BY <2>4 DEF TakeResponse
  <2> QED
    BY <1>1, <2>1, <2>2, <2>3, <2>4 DEF ComputeThread
<1>2. ASSUME NEW p \in Ranks, HandlerThread(p)  PROVE [ComNext]_comVars
  <2>1. CASE HandleRequest(p)
    BY <2>1, Answering, StartIsPrepare, TwoThreads DEF ComNext
  <2>2. CASE Sending(p, Handler)
    BY <2>2, SendingIsLegal, TwoThreads DEF ComNext
  <2>3. CASE RequestHandled(p)
    BY <2>3, TwoThreads DEF RequestHandled, FinishSend, ComNext
  <2>4. CASE HandlerReturns(p)
    BY <2>4 DEF HandlerReturns
  <2> QED
    BY <1>2, <2>1, <2>2, <2>3, <2>4 DEF HandlerThread
<1>3. ASSUME NEW p \in Ranks, ReceiverThread(p)  PROVE [ComNext]_comVars
  BY <1>3 DEF ReceiverThread, Receive, Received, Dispatch, ReceiverReturns, ComNext
<1>4. ASSUME NEW p \in Ranks, MainThread(p)  PROVE [ComNext]_comVars
  BY <1>4 DEF MainThread, ComNext
<1>5. CASE Router
  BY <1>5 DEF Router, ComNext
<1>6. CASE UNCHANGED vars
  BY <1>6 DEF vars
<1> QED
  BY <1>1, <1>2, <1>3, <1>4, <1>5, <1>6 DEF Next, Terminated
-----------------------------------------------------------------------------
(* The types are kept. *)

(* No process dies (MaxCrashes does not matter: Crash is no step of Next). *)
LEMMA NobodyDies ==
  ASSUME [Next]_vars
  PROVE  alive' = alive
<1>1. ASSUME NEW p \in Ranks, NEW w \in Workers, Sending(p, w) \/ FinishBuffer(p, w)
      PROVE  alive' = alive
  BY <1>1 DEF Sending, WriteMessage, SendMessage, SendStep, Fill, Send, FinishBuffer, LockBuffer,
       AwaitAck, MapBuffer, AcquireBox, PostRequest, AwaitDelivered, ReleaseBox
<1>2. ASSUME NEW p \in Ranks, NEW w \in Workers, NEW q, NEW m, StartSend(p, w, q, m)
      PROVE  alive' = alive
  BY <1>2 DEF StartSend, Prepare
<1>3. ASSUME NEW p \in Ranks, ComputeThread(p)  PROVE alive' = alive
  BY <1>1, <1>2, <1>3, TwoThreads DEF ComputeThread, ComputeSend, ComputeSent, FinishSend,
     TakeResponse, comVars
<1>4. ASSUME NEW p \in Ranks, HandlerThread(p)  PROVE alive' = alive
  BY <1>1, <1>2, <1>4, TwoThreads DEF HandlerThread, HandleRequest, RequestHandled, FinishSend,
     HandlerReturns, comVars
<1>5. ASSUME NEW p \in Ranks, ReceiverThread(p)  PROVE alive' = alive
  BY <1>5 DEF ReceiverThread, Receive, Received, Dispatch, ReceiverReturns, AwaitMessage,
     CopyPayload, ClearInbox, PostAck, comVars
<1>6. ASSUME NEW p \in Ranks, MainThread(p)  PROVE alive' = alive
  BY <1>6 DEF MainThread, BeginFinalize, FinalizeStep, FinalizeAwaitAck, FinalizeLock,
     FinalizeCount, StopAcquireBox, PostSentinel
<1>7. CASE Router
  BY <1>7 DEF Router, RouterStep, RouterTake, RouterReserve, RouterForward, RouterConfirm
<1>8. CASE UNCHANGED vars
  BY <1>8 DEF vars, comVars
<1> QED
  BY SMTT(40), <1>3, <1>4, <1>5, <1>6, <1>7, <1>8 DEF Next, Terminated

(* A function of ranks and threads with one value changed keeps its type. *)
LEMMA ThreadUpdateType ==
  ASSUME NEW S, NEW f \in [Ranks -> [Workers -> S]], NEW p \in Ranks, NEW w \in Workers,
         NEW e \in S
  PROVE  [f EXCEPT ![p][w] = e] \in [Ranks -> [Workers -> S]]
<1>1. PICK g \in [Workers -> S] : g = f[p]
  OBVIOUS
<1>2. [f EXCEPT ![p][w] = e] = [f EXCEPT ![p] = [g EXCEPT ![w] = e]]
  BY <1>1
<1>3. [g EXCEPT ![w] = e] \in [Workers -> S]
  BY <1>1
<1> QED
  BY <1>2, <1>3

OutTypes == out \in [Ranks -> [Workers -> SUBSET [dest: Ranks, msg: DbMessage]]]

(* A thread sends messages of the program to ranks. *)
LEMMA OutTyped ==
  ASSUME OutTypes, NEW p \in Ranks, NEW w \in Workers
  PROVE  /\ \A q \in Ranks, m \in DbMessage : StartSend(p, w, q, m) => OutTypes'
         /\ Sending(p, w) => OutTypes'
<1>1. ASSUME NEW q \in Ranks, NEW m \in DbMessage, StartSend(p, w, q, m)  PROVE OutTypes'
  <2>1. {[dest |-> q, msg |-> m]} \in SUBSET [dest: Ranks, msg: DbMessage]
    OBVIOUS
  <2>2. out' = [out EXCEPT ![p][w] = {[dest |-> q, msg |-> m]}]
    BY <1>1 DEF StartSend
  <2> QED
    BY <2>1, <2>2, ThreadUpdateType DEF OutTypes
<1>2. ASSUME Sending(p, w)  PROVE OutTypes'
  <2>1. CASE UNCHANGED out
    BY <2>1 DEF OutTypes
  <2>2. CASE SendMessage(p, w)
    <3>1. None \in SUBSET [dest: Ranks, msg: DbMessage]
      BY DEF None
    <3>2. out' = [out EXCEPT ![p][w] = None]
      BY <2>2 DEF SendMessage
    <3> QED
      BY <3>1, <3>2, ThreadUpdateType DEF OutTypes
  <2> QED
    BY <1>2, <2>1, <2>2 DEF Sending, WriteMessage, clientVars
<1> QED
  BY <1>1, <1>2

(* Every step keeps the types of the clients' variables. *)
LEMMA TypesStep ==
  ASSUME ClientInv, P!ProtocolInv, [Next]_vars
  PROVE  ClientTypes'
<1>1. ClientTypes /\ alive' = Ranks
  BY NobodyDies DEF ClientInv, ClientTypes
<1>2. LastMessage \in Nat
  BY Constants DEF LastMessage
<1>3. ASSUME NEW p \in Ranks, ComputeThread(p)  PROVE ClientTypes'
  <2>1. out' \in [Ranks -> [Workers -> SUBSET [dest: Ranks, msg: DbMessage]]]
    <3>1. CASE ComputeSend(p)
      BY <1>1, <3>1, Asking, OutTyped, TwoThreads DEF OutTypes, ClientTypes
    <3>2. CASE Sending(p, Compute)
      BY <1>1, <3>2, OutTyped, TwoThreads DEF OutTypes, ClientTypes
    <3> QED
      BY <1>1, <1>3, <3>1, <3>2 DEF ComputeThread, ComputeSent, TakeResponse, ClientTypes
  <2>2. sent' \in [Ranks -> 0 .. LastMessage + 1] /\ awaiting' \in [Ranks -> BOOLEAN]
    <3>1. CASE ComputeSent(p)
      <4>1. sent[p] <= LastMessage
        BY <3>1 DEF ComputeSent, FinishSend, FinishBuffer, At, ClientInv, ComputeScript
      <4>2. sent[p] + 1 \in 0 .. LastMessage + 1
        BY <1>1, <1>2, <4>1 DEF ClientTypes
      <4>3. (sent[p] < Requests) \in BOOLEAN
        OBVIOUS
      <4> QED
        BY <1>1, <3>1, <4>2, <4>3 DEF ComputeSent, ClientTypes
    <3>2. CASE TakeResponse(p)
      BY <1>1, <3>2 DEF TakeResponse, ClientTypes
    <3> QED
      BY <1>1, <1>3, <3>1, <3>2 DEF ComputeThread, ComputeSend, Sending, WriteMessage, SendMessage,
         clientVars, computeVars, ClientTypes
  <2>3. UNCHANGED got
    BY <1>3 DEF ComputeThread, ComputeSend, ComputeSent, TakeResponse, Sending, WriteMessage,
       SendMessage, clientVars, receiverVars
  <2> QED
    BY <1>1, <2>1, <2>2, <2>3 DEF ClientTypes
<1>4. ASSUME NEW p \in Ranks, HandlerThread(p)  PROVE ClientTypes'
  <2>1. out' \in [Ranks -> [Workers -> SUBSET [dest: Ranks, msg: DbMessage]]]
    <3>1. CASE HandleRequest(p)
      BY <1>1, <3>1, Answering, OutTyped, TwoThreads DEF OutTypes, ClientTypes
    <3>2. CASE Sending(p, Handler)
      BY <1>1, <3>2, OutTyped, TwoThreads DEF OutTypes, ClientTypes
    <3> QED
      BY <1>1, <1>4, <3>1, <3>2 DEF HandlerThread, RequestHandled, HandlerReturns, clientVars,
         ClientTypes
  <2>2. UNCHANGED <<sent, awaiting, got>>
    BY <1>4 DEF HandlerThread, HandleRequest, RequestHandled, HandlerReturns, Sending, WriteMessage,
       SendMessage, clientVars, computeVars, receiverVars
  <2> QED
    BY <1>1, <2>1, <2>2 DEF ClientTypes
<1>5. ASSUME NEW p \in Ranks, ReceiverThread(p)  PROVE ClientTypes'
  <2>1. got' \in [Ranks -> SUBSET DbMessage]
    <3>1. CASE Received(p)
      <4>1. rcv[p].msg \in DbMessage
        BY <3>1 DEF Received, PostAck, RecvAt, ClientInv, Arrived
      <4> QED
        BY <1>1, <3>1, <4>1 DEF Received, ClientTypes
    <3>2. CASE Dispatch(p)
      BY <1>1, <3>2 DEF Dispatch, None, ClientTypes
    <3> QED
      BY <1>1, <1>5, <3>1, <3>2 DEF ReceiverThread, Receive, ReceiverReturns, clientVars,
         receiverVars, ClientTypes
  <2>2. UNCHANGED <<out, sent, awaiting>>
    BY <1>5 DEF ReceiverThread, Receive, Received, Dispatch, ReceiverReturns, clientVars, computeVars
  <2> QED
    BY <1>1, <2>1, <2>2 DEF ClientTypes
<1>6. ASSUME UNCHANGED clientVars  PROVE ClientTypes'
  BY <1>1, <1>6 DEF clientVars, computeVars, receiverVars, ClientTypes
<1> QED
  BY <1>3, <1>4, <1>5, <1>6 DEF Next, MainThread, Router, Terminated, vars
-----------------------------------------------------------------------------
(* A thread has its message from the call of com_prepare_send_buffer to    *)
(* the end of com_send.                                                    *)

(* A thread that moves disturbs no other: it writes the segment and counts *)
(* acknowledgements only with the lock on the send buffer.                 *)
LEMMA OthersKeep ==
  ASSUME IInv, ClientInv, NEW p \in Ranks, NEW w \in Workers, NEW from, NEW to,
         Moves(p, w, from, to), from \in Locked \/ UNCHANGED <<segment, pending_acks>>,
         Thread(p, w)'
  PROVE  Threads'
<1> SUFFICES ASSUME NEW a \in Ranks, NEW v \in Workers, a # p \/ v # w  PROVE Thread(a, v)'
  BY DEF Threads
<1>1. /\ Thread(a, v)
      /\ pc'[a][v] = pc[a][v] /\ call'[a][v] = call[a][v] /\ out'[a][v] = out[a][v]
  BY DEF ClientInv, Threads, Moves
<1>2. CASE segment'[a] = segment[a] /\ pending_acks'[a] = pending_acks[a]
  BY <1>1, <1>2 DEF Thread
<1>3. CASE a = p /\ from \in Locked
  <2>1. pc[p][w] = from /\ w \in send_buffer_lock[p]
    BY <1>3 DEF Moves, IInv, LockInv
  <2>2. pc[p][v] \notin Locked
    BY <1>3, <2>1 DEF IInv, LockInv
  <2>3. pc[a][v] \in {"idle", "lock"}
    BY <1>3, <2>2 DEF IInv, TypeInv, TypeOK, Callers, Locked
  <2> QED
    BY <1>1, <2>3 DEF Thread
<1> QED
  BY <1>2, <1>3 DEF Moves

(* A step that leaves the threads, their messages, the segments and the    *)
(* acknowledgements alone.                                                 *)
LEMMA ThreadsSame ==
  ASSUME ClientInv, UNCHANGED <<pc, call, out, segment, pending_acks>>
  PROVE  Threads'
BY DEF ClientInv, Threads, Thread

(* A thread begins to send. *)
LEMMA StartThreads ==
  ASSUME IInv, ClientInv, NEW p \in Ranks, NEW w \in Workers, NEW q, NEW m,
         StartSend(p, w, q, m), m.source_rank = p
  PROVE  Threads'
<1>1. Moves(p, w, "idle", "lock") /\ call'[p][w].size = SizeOf(m)
      /\ out'[p][w] = {[dest |-> q, msg |-> m]} /\ UNCHANGED <<segment, pending_acks>>
  BY StartEffect DEF IInv, TypeInv, ClientInv
<1>2. Thread(p, w)'
  BY <1>1 DEF Thread, Moves, None
<1> QED
  BY <1>1, <1>2, OthersKeep

(* A thread sends. *)
LEMMA SendingThreads ==
  ASSUME IInv, ClientInv, NEW p \in Ranks, NEW w \in Workers, Sending(p, w)
  PROVE  Threads'
<1>1. TypeOK /\ ClientTypes /\ Thread(p, w)
  BY DEF IInv, TypeInv, ClientInv, Threads
<1>2. CASE WriteMessage(p, w)
  <2>1. PICK o \in out[p][w] : Fill(p, w, o.msg)
    BY <1>2 DEF WriteMessage
  <2>2. UNCHANGED out
    BY <1>2 DEF WriteMessage, clientVars
  <2>3. Moves(p, w, "fill", "ready") /\ segment'[p] = o.msg /\ UNCHANGED <<call, out, pending_acks>>
    BY <1>1, <2>1, <2>2, FillEffect
  <2>4. Thread(p, w)'
    BY <1>1, <2>3 DEF Thread, Moves
  <2> QED
    BY <2>3, <2>4, OthersKeep DEF Locked
<1>3. CASE SendMessage(p, w)
  <2>1. PICK o \in out[p][w] : Send(p, w, o.dest)
    BY <1>3 DEF SendMessage
  <2>2. out' = [out EXCEPT ![p][w] = None]
    BY <1>3 DEF SendMessage
  <2>3. /\ Moves(p, w, "ready", "box") /\ call'[p][w].size = call[p][w].size
        /\ out'[p][w] = None /\ UNCHANGED <<segment, pending_acks>>
    BY <1>1, <2>1, <2>2, SendEffect
  <2>4. o.msg \in DbMessage
    BY <1>1 DEF ClientTypes
  <2>5. Thread(p, w)'
    BY <1>1, <2>3, <2>4 DEF Thread, Moves, None
  <2> QED
    BY <2>3, <2>5, OthersKeep
<1>4. CASE SendStep(p, w) /\ UNCHANGED clientVars
  <2>1. UNCHANGED out
    BY <1>4 DEF clientVars
  <2>2. ASSUME NEW from, NEW to, Passes(p, w, from, to), Thread(p, w)'
        PROVE  Threads'
    BY <2>2, OthersKeep DEF Passes
  <2>3. CASE LockBuffer(p, w)
    <3>1. Passes(p, w, "lock", "drain")
      BY <1>1, <2>1, <2>3, StepEffect
    <3> QED
      BY <1>1, <2>2, <3>1 DEF Passes, Moves, Thread
  <2>4. CASE AwaitAck(p, w)
    <3>1. Moves(p, w, "drain", "drain") /\ UNCHANGED <<call, out, segment>>
      BY <1>1, <2>1, <2>4, AckEffect
    <3>2. Thread(p, w)'
      BY <1>1, <3>1 DEF Moves, Thread
    <3> QED
      BY <3>1, <3>2, OthersKeep DEF Locked
  <2>5. CASE MapBuffer(p, w)
    <3>1. pc[p][w] = "drain"
      BY <2>5 DEF MapBuffer, At
    <3>2. PICK o \in out[p][w] : call[p][w].size = SizeOf(o.msg)
      BY <1>1, <3>1 DEF Thread, None
    <3>3. o.msg \in DbMessage
      BY <1>1 DEF ClientTypes
    <3>4. call[p][w].size # 0
      BY <3>2, <3>3, MessageSize
    <3>5. Passes(p, w, "drain", "fill") /\ pending_acks[p] = 0
      BY <1>1, <2>1, <2>5, <3>4, StepEffect
    <3> QED
      BY <1>1, <2>2, <3>5 DEF Passes, Moves, Thread
  <2>6. CASE AcquireBox(p, w)
    <3>1. Passes(p, w, "box", "post")
      BY <1>1, <2>1, <2>6, StepEffect
    <3> QED
      BY <1>1, <2>2, <3>1 DEF Passes, Moves, Thread
  <2>7. CASE PostRequest(p, w)
    <3>1. Passes(p, w, "post", "deliver")
      BY <1>1, <2>1, <2>7, StepEffect
    <3> QED
      BY <1>1, <2>2, <3>1 DEF Passes, Moves, Thread
  <2>8. CASE AwaitDelivered(p, w)
    <3>1. Passes(p, w, "deliver", "release")
      BY <1>1, <2>1, <2>8, StepEffect
    <3> QED
      BY <1>1, <2>2, <3>1 DEF Passes, Moves, Thread
  <2>9. CASE ReleaseBox(p, w)
    <3>1. Moves(p, w, "release", "ready") /\ UNCHANGED <<out, segment>>
      BY <1>1, <2>1, <2>9, ReleaseEffect
    <3>2. Thread(p, w)'
      BY <1>1, <3>1 DEF Moves, Thread, None
    <3> QED
      BY <3>1, <3>2, OthersKeep DEF Locked
  <2> QED
    BY <1>4, <2>3, <2>4, <2>5, <2>6, <2>7, <2>8, <2>9 DEF SendStep
<1> QED
  BY <1>2, <1>3, <1>4 DEF Sending

(* A thread gives the buffer back. *)
LEMMA FinishThreads ==
  ASSUME IInv, ClientInv, NEW p \in Ranks, NEW w \in Workers, FinishSend(p, w), UNCHANGED out
  PROVE  Threads'
<1>1. TypeOK /\ ClientTypes /\ Thread(p, w)
  BY DEF IInv, TypeInv, ClientInv, Threads
<1>2. Moves(p, w, "ready", "idle") /\ UNCHANGED <<out, segment, pending_acks>>
  BY <1>1, FinishEffect DEF FinishSend
<1>3. Thread(p, w)'
  BY <1>1, <1>2 DEF Moves, Thread, FinishSend, None
<1> QED
  BY <1>2, <1>3, OthersKeep

(* com_finalize finds every thread of its process idle. *)
LEMMA FinalizeThreads ==
  ASSUME IInv, ClientInv, NEW p \in Ranks, MainThread(p)
  PROVE  Threads'
<1>1. UNCHANGED out
  BY DEF MainThread, clientVars
<1>2. CASE Joined(p) /\ BeginFinalize(p)
  <2>1. \A w \in Workers : pc[p][w] = "idle"
    <3>1. pc[p][Compute] = "idle"
      <4>1. LastMessage \in Nat /\ sent[p] \in 0 .. LastMessage + 1
        BY Constants DEF LastMessage, ClientInv, ClientTypes
      <4> QED
        BY <1>2, <4>1 DEF Joined, ComputeDone, ClientInv, ComputeScript
    <3>2. pc[p][Handler] = "idle"
      BY <1>2 DEF Joined, ClientInv, OthersScript
    <3> QED
      BY <3>1, <3>2, DistDbAssumption
  <2>2. /\ pc' = [pc EXCEPT ![p] = [w \in Workers |-> "idle"]]
        /\ call' = [call EXCEPT ![p] = [w \in Workers |-> NoCall]]
        /\ UNCHANGED <<segment, pending_acks>>
    BY <1>2 DEF BeginFinalize, ackVars
  <2>3. \A a \in Ranks, v \in Workers : pc'[a][v] = pc[a][v] /\ (a # p => call'[a][v] = call[a][v])
    BY <2>1, <2>2 DEF IInv, TypeInv, TypeOK
  <2> SUFFICES ASSUME NEW a \in Ranks, NEW v \in Workers  PROVE Thread(a, v)'
    BY DEF Threads
  <2>4. Thread(a, v)
    BY DEF ClientInv, Threads
  <2>5. CASE a = p
    <3>1. pc[a][v] = "idle" /\ pc'[a][v] = "idle"
      BY <2>1, <2>3, <2>5
    <3>2. out[a][v] = None
      BY <2>4, <3>1 DEF Thread
    <3>3. out'[a][v] = None
      BY <1>1, <3>2
    <3> QED
      BY <3>1, <3>3 DEF Thread, None
  <2>6. CASE a # p
    BY <1>1, <2>2, <2>3, <2>4, <2>6 DEF Thread
  <2> QED
    BY <2>5, <2>6
<1>3. CASE FinalizeAwaitAck(p)
  <2>1. /\ pending_acks' = [pending_acks EXCEPT ![p] = @ - 1]
        /\ UNCHANGED <<pc, call, segment>>
    BY <1>3 DEF FinalizeAwaitAck, ConsumeAck, threadVars, segVars
  <2>2. \A w \in Workers : pc[p][w] = "idle"
    BY <1>3 DEF FinalizeAwaitAck, FinAt, IInv, LockInv
  <2>3. \A a \in Ranks \ {p} : pending_acks'[a] = pending_acks[a]
    BY <2>1 DEF IInv, TypeInv, TypeOK
  <2> SUFFICES ASSUME NEW a \in Ranks, NEW v \in Workers  PROVE Thread(a, v)'
    BY DEF Threads
  <2> QED
    BY <1>1, <2>1, <2>2, <2>3 DEF ClientInv, Threads, Thread
<1>4. CASE FinalizeLock(p) \/ FinalizeCount(p) \/ StopAcquireBox(p) \/ PostSentinel(p)
  <2>1. UNCHANGED <<pc, call, segment, pending_acks>>
    BY <1>4 DEF FinalizeLock, FinalizeCount, StopAcquireBox, PostSentinel, threadVars, segVars, ackVars
  <2> QED
    BY <1>1, <2>1, ThreadsSame
<1> QED
  BY <1>2, <1>3, <1>4 DEF MainThread, FinalizeStep

(* Every step keeps the messages of the threads. *)
LEMMA ThreadsStep ==
  ASSUME IInv, ClientInv, P!ProtocolInv, [Next]_vars
  PROVE  Threads'
<1>1. ASSUME NEW p \in Ranks, ComputeThread(p)  PROVE Threads'
  <2>1. CASE ComputeSend(p)
    BY <2>1, Asking, StartThreads, TwoThreads DEF ClientInv
  <2>2. CASE Sending(p, Compute)
    BY <2>2, SendingThreads, TwoThreads
  <2>3. CASE ComputeSent(p)
    BY <2>3, FinishThreads, TwoThreads DEF ComputeSent
  <2>4. CASE TakeResponse(p)
    BY <2>4, ThreadsSame DEF TakeResponse, comVars, threadVars, segVars, ackVars
  <2> QED
    BY <1>1, <2>1, <2>2, <2>3, <2>4 DEF ComputeThread
<1>2. ASSUME NEW p \in Ranks, HandlerThread(p)  PROVE Threads'
  <2>1. CASE HandleRequest(p)
    BY <2>1, Answering, StartThreads, TwoThreads
  <2>2. CASE Sending(p, Handler)
    BY <2>2, SendingThreads, TwoThreads
  <2>3. CASE RequestHandled(p)
    BY <2>3, FinishThreads, TwoThreads DEF RequestHandled, clientVars
  <2>4. CASE HandlerReturns(p)
    BY <2>4, ThreadsSame DEF HandlerReturns, comVars, threadVars, segVars, ackVars
  <2> QED
    BY <1>2, <2>1, <2>2, <2>3, <2>4 DEF HandlerThread
<1>3. ASSUME NEW p \in Ranks, ReceiverThread(p)  PROVE Threads'
  <2>1. UNCHANGED <<pc, call, out, segment, pending_acks>>
    BY <1>3 DEF ReceiverThread, Receive, Received, Dispatch, ReceiverReturns, AwaitMessage,
       CopyPayload, ClearInbox, PostAck, clientVars, comVars, threadVars, segVars, ackVars
  <2> QED
    BY <2>1, ThreadsSame
<1>4. ASSUME NEW p \in Ranks, MainThread(p)  PROVE Threads'
  BY <1>4, FinalizeThreads
<1>5. CASE Router
  <2>1. UNCHANGED <<pc, call, out, segment, pending_acks>>
    BY <1>5 DEF Router, RouterStep, RouterTake, RouterReserve, RouterForward, RouterConfirm,
       clientVars, threadVars, segVars, ackVars
  <2> QED
    BY <2>1, ThreadsSame
<1>6. CASE UNCHANGED vars
  BY <1>6, ThreadsSame DEF vars, clientVars, comVars, threadVars, segVars, ackVars
<1> QED
  BY <1>1, <1>2, <1>3, <1>4, <1>5, <1>6 DEF Next, Terminated
-----------------------------------------------------------------------------
(* The threads follow their scripts. *)

(* A thread that sends moves in one of three ways: it writes its message   *)
(* into the segment, it calls com_send, or it only moves on.               *)
LEMMA SendingMoves ==
  ASSUME IInv, ClientInv, NEW p \in Ranks, NEW w \in Workers, Sending(p, w)
  PROVE  \/ \E o \in out[p][w] :
              /\ Moves(p, w, "fill", "ready") /\ segment'[p] = o.msg /\ UNCHANGED out
         \/ \E o \in out[p][w] :
              /\ Moves(p, w, "ready", "box") /\ call'[p][w].dest = o.dest
              /\ out'[p][w] = None /\ UNCHANGED segment
         \/ \E from \in Locked \cup {"lock"}, to \in Locked \ {"box"} :
              /\ Moves(p, w, from, to) /\ UNCHANGED <<out, segment>>
              /\ to = "post" => from = "box" /\ UNCHANGED call
<1>1. TypeOK /\ ClientTypes /\ Thread(p, w)
  BY DEF IInv, TypeInv, ClientInv, Threads
<1>2. CASE WriteMessage(p, w)
  <2>1. PICK o \in out[p][w] : Fill(p, w, o.msg)
    BY <1>2 DEF WriteMessage
  <2>2. UNCHANGED out
    BY <1>2 DEF WriteMessage, clientVars
  <2> QED
    BY <1>1, <2>1, <2>2, FillEffect
<1>3. CASE SendMessage(p, w)
  <2>1. PICK o \in out[p][w] : Send(p, w, o.dest)
    BY <1>3 DEF SendMessage
  <2>2. out' = [out EXCEPT ![p][w] = None]
    BY <1>3 DEF SendMessage
  <2>3. /\ Moves(p, w, "ready", "box")
        /\ call'[p][w].size = call[p][w].size /\ call'[p][w].dest = o.dest /\ out'[p][w] = None
        /\ UNCHANGED <<segment, pending_acks>>
    BY <1>1, <2>1, <2>2, SendEffect
  <2> QED
    BY <2>3
<1>4. CASE SendStep(p, w) /\ UNCHANGED clientVars
  <2>1. UNCHANGED out
    BY <1>4 DEF clientVars
  <2>2. CASE MapBuffer(p, w)
    <3>1. pc[p][w] = "drain"
      BY <2>2 DEF MapBuffer, At
    <3>2. PICK o \in out[p][w] : call[p][w].size = SizeOf(o.msg)
      BY <1>1, <3>1 DEF Thread, None
    <3>3. o.msg \in DbMessage
      BY <1>1 DEF ClientTypes
    <3>4. call[p][w].size # 0
      BY <3>2, <3>3, MessageSize
    <3> QED
      BY <1>1, <2>1, <2>2, <3>4, StepEffect DEF Passes, Locked
  <2>3. CASE LockBuffer(p, w) \/ AcquireBox(p, w) \/ PostRequest(p, w) \/ AwaitDelivered(p, w)
    BY <1>1, <2>1, <2>3, StepEffect DEF Passes, Locked
  <2>4. CASE AwaitAck(p, w)
    BY <1>1, <2>1, <2>4, AckEffect DEF Locked
  <2>5. CASE ReleaseBox(p, w)
    BY <1>1, <2>1, <2>5, ReleaseEffect DEF Locked
  <2> QED
    BY <1>4, <2>2, <2>3, <2>4, <2>5 DEF SendStep
<1> QED
  BY <1>2, <1>3, <1>4 DEF Sending

(* The other threads of a process disturb its compute thread as little:    *)
(* the segment is not theirs while it is in com_send.                      *)
LEMMA OthersFollow ==
  ASSUME IInv, ClientInv, NEW p \in Ranks, NEW w \in Workers, NEW from, NEW to,
         Moves(p, w, from, to), from \in Locked \/ UNCHANGED segment,
         UNCHANGED <<sent, awaiting>>,
         NEW a \in Ranks, a # p \/ w # Compute
  PROVE  ComputeScript(a)'
<1>1. /\ ComputeScript(a)
      /\ pc'[a][Compute] = pc[a][Compute] /\ call'[a][Compute] = call[a][Compute]
      /\ out'[a][Compute] = out[a][Compute]
  BY TwoThreads DEF ClientInv, Moves
<1>2. CASE segment'[a] = segment[a]
  BY <1>1, <1>2 DEF ComputeScript
<1>3. CASE a = p /\ from \in Locked
  <2>1. pc[p][w] = from /\ w \in send_buffer_lock[p]
    BY <1>3 DEF Moves, IInv, LockInv
  <2>2. pc[a][Compute] \notin Locked
    BY <1>3, <2>1, TwoThreads DEF IInv, LockInv
  <2>3. pc[a][Compute] \notin {"box", "post"}
    BY <2>2 DEF Locked
  <2> QED
    BY <1>1, <2>3 DEF ComputeScript
<1> QED
  BY <1>2, <1>3 DEF Moves

(* A step of the receivers, the router or com_finalize, or one that leaves *)
(* all this alone.                                                         *)
LEMMA ScriptSame ==
  ASSUME ClientInv, UNCHANGED <<pc, call, out, segment, sent, awaiting>>, NEW a \in Ranks
  PROVE  ComputeScript(a)'
BY DEF ClientInv, ComputeScript

(* The compute thread sends as its script says. *)
LEMMA ComputeFollows ==
  ASSUME IInv, ClientInv, NEW p \in Ranks, ComputeThread(p), NEW a \in Ranks
  PROVE  ComputeScript(a)'
<1>1. TypeOK /\ ClientTypes /\ Thread(p, Compute) /\ ComputeScript(p)
  BY TwoThreads DEF IInv, TypeInv, ClientInv, Threads
<1>2. CASE ComputeSend(p)
  <2>1. StartSend(p, Compute, Dest(p, sent[p]), Message(p, sent[p]))
    BY <1>2 DEF ComputeSend
  <2>2. /\ Moves(p, Compute, "idle", "lock")
        /\ out'[p][Compute] = {[dest |-> Dest(p, sent[p]), msg |-> Message(p, sent[p])]}
        /\ UNCHANGED <<segment, pending_acks>>
    BY <1>1, <2>1, StartEffect, TwoThreads
  <2>3. UNCHANGED <<sent, awaiting>> /\ ~awaiting[p] /\ sent[p] <= LastMessage
    BY <1>2 DEF ComputeSend, computeVars
  <2>4. CASE a = p
    BY <2>2, <2>3, <2>4 DEF ComputeScript, Moves
  <2> QED
    BY <2>2, <2>3, <2>4, OthersFollow, TwoThreads
<1>3. CASE Sending(p, Compute)
  <2>1. UNCHANGED <<sent, awaiting>>
    BY <1>3 DEF Sending, WriteMessage, SendMessage, clientVars, computeVars
  <2>2. PICK from, to : Moves(p, Compute, from, to) /\ (from \in Locked \/ UNCHANGED segment)
    BY <1>3, SendingMoves, TwoThreads DEF Locked
  <2>3. CASE a = p
    <3>1. CASE \E o \in out[p][Compute] :
                 Moves(p, Compute, "fill", "ready") /\ segment'[p] = o.msg /\ UNCHANGED out
      BY <1>1, <2>1, <2>3, <3>1 DEF ComputeScript, Moves
    <3>2. CASE \E o \in out[p][Compute] :
                 /\ Moves(p, Compute, "ready", "box") /\ call'[p][Compute].dest = o.dest
                 /\ out'[p][Compute] = None /\ UNCHANGED segment
      BY <1>1, <2>1, <2>3, <3>2 DEF ComputeScript, Moves, Thread, None
    <3>3. CASE \E f \in Locked \cup {"lock"}, t \in Locked \ {"box"} :
                 /\ Moves(p, Compute, f, t) /\ UNCHANGED <<out, segment>>
                 /\ t = "post" => f = "box" /\ UNCHANGED call
      BY <1>1, <2>1, <2>3, <3>3 DEF ComputeScript, Moves, Locked
    <3> QED
      BY <1>3, <3>1, <3>2, <3>3, SendingMoves, TwoThreads
  <2> QED
    BY <2>1, <2>2, <2>3, OthersFollow, TwoThreads
<1>4. CASE ComputeSent(p)
  <2>1. /\ out[p][Compute] = None /\ FinishBuffer(p, Compute) /\ UNCHANGED out
        /\ sent' = [sent EXCEPT ![p] = @ + 1]
        /\ awaiting' = [awaiting EXCEPT ![p] = sent[p] < Requests]
    BY <1>4 DEF ComputeSent, FinishSend
  <2>2. Moves(p, Compute, "ready", "idle") /\ UNCHANGED segment
    BY <1>1, <2>1, FinishEffect, TwoThreads
  <2>3. CASE a = p
    BY <2>1, <2>2, <2>3 DEF Moves, ComputeScript, None
  <2>4. CASE a # p
    <3>1. /\ pc'[a][Compute] = pc[a][Compute] /\ call'[a][Compute] = call[a][Compute]
          /\ segment'[a] = segment[a] /\ out'[a][Compute] = out[a][Compute]
      BY <2>1, <2>2, <2>4, TwoThreads DEF Moves
    <3>2. sent'[a] = sent[a] /\ awaiting'[a] = awaiting[a]
      BY <1>1, <2>1, <2>4 DEF ClientTypes
    <3> QED
      BY <3>1, <3>2 DEF ClientInv, ComputeScript
  <2> QED
    BY <2>3, <2>4
<1>5. CASE TakeResponse(p)
  <2>1. /\ awaiting[p] /\ awaiting' = [awaiting EXCEPT ![p] = FALSE]
        /\ UNCHANGED <<pc, call, out, segment, sent>>
    BY <1>5 DEF TakeResponse, comVars, threadVars, segVars
  <2>2. awaiting'[a] = TRUE => awaiting[a] = TRUE
    BY <1>1, <2>1 DEF ClientTypes
  <2>3. awaiting[a] \in BOOLEAN /\ awaiting'[a] \in BOOLEAN
    BY <1>1, <2>1 DEF ClientTypes
  <2> QED
    BY <2>1, <2>2, <2>3 DEF ClientInv, ComputeScript
<1> QED
  BY <1>2, <1>3, <1>4, <1>5 DEF ComputeThread

(* Every step keeps the compute threads on their scripts. *)
LEMMA ComputeScriptStep ==
  ASSUME IInv, ClientInv, P!ProtocolInv, [Next]_vars, NEW a \in Ranks
  PROVE  ComputeScript(a)'
<1>1. TypeOK /\ ClientTypes
  BY DEF IInv, TypeInv, ClientInv
<1>2. ASSUME NEW p \in Ranks, HandlerThread(p)  PROVE ComputeScript(a)'
  <2>1. UNCHANGED <<sent, awaiting>>
    BY <1>2 DEF HandlerThread, HandleRequest, RequestHandled, HandlerReturns, Sending, WriteMessage,
       SendMessage, clientVars, computeVars
  <2>2. CASE HandleRequest(p)
    <3>1. PICK q \in Ranks, m \in DbMessage : StartSend(p, Handler, q, m)
      BY <2>2, Answering
    <3>2. Moves(p, Handler, "idle", "lock") /\ UNCHANGED <<segment, pending_acks>>
      BY <1>1, <3>1, StartEffect, TwoThreads
    <3> QED
      BY <2>1, <3>2, OthersFollow, TwoThreads
  <2>3. CASE Sending(p, Handler)
    <3>1. PICK from, to : Moves(p, Handler, from, to) /\ (from \in Locked \/ UNCHANGED segment)
      BY <2>3, SendingMoves, TwoThreads DEF Locked
    <3> QED
      BY <2>1, <3>1, OthersFollow, TwoThreads
  <2>4. CASE RequestHandled(p)
    <3>1. FinishBuffer(p, Handler) /\ UNCHANGED out
      BY <2>4 DEF RequestHandled, FinishSend, clientVars
    <3>2. Moves(p, Handler, "ready", "idle") /\ UNCHANGED <<out, segment, pending_acks>>
      BY <1>1, <3>1, FinishEffect, TwoThreads
    <3> QED
      BY <2>1, <3>2, OthersFollow, TwoThreads
  <2>5. CASE HandlerReturns(p)
    BY <2>1, <2>5, ScriptSame DEF HandlerReturns, comVars, threadVars, segVars
  <2> QED
    BY <1>2, <2>2, <2>3, <2>4, <2>5 DEF HandlerThread
<1>3. ASSUME NEW p \in Ranks, ReceiverThread(p)  PROVE ComputeScript(a)'
  <2>1. UNCHANGED <<pc, call, out, segment, sent, awaiting>>
    BY <1>3 DEF ReceiverThread, Receive, Received, Dispatch, ReceiverReturns, AwaitMessage,
       CopyPayload, ClearInbox, PostAck, clientVars, computeVars, comVars, threadVars, segVars
  <2> QED
    BY <2>1, ScriptSame
<1>4. ASSUME NEW p \in Ranks, MainThread(p)  PROVE ComputeScript(a)'
  <2>1. UNCHANGED <<out, sent, awaiting>>
    BY <1>4 DEF MainThread, clientVars, computeVars
  <2>2. CASE BeginFinalize(p)
    <3>1. /\ pc' = [pc EXCEPT ![p] = [w \in Workers |-> "idle"]]
          /\ call' = [call EXCEPT ![p] = [w \in Workers |-> NoCall]]
          /\ UNCHANGED segment
      BY <2>2 DEF BeginFinalize
    <3>2. CASE a = p
      <4>1. pc'[a][Compute] = "idle"
        BY <1>1, <3>1, <3>2, TwoThreads DEF TypeOK
      <4> QED
        BY <2>1, <4>1 DEF ClientInv, ComputeScript
    <3>3. CASE a # p
      <4>1. pc'[a] = pc[a] /\ call'[a] = call[a]
        BY <1>1, <3>1, <3>3 DEF TypeOK
      <4> QED
        BY <2>1, <3>1, <4>1 DEF ClientInv, ComputeScript
    <3> QED
      BY <3>2, <3>3
  <2>3. CASE FinalizeStep(p)
    <3>1. UNCHANGED <<pc, call, segment>>
      BY <2>3 DEF FinalizeStep, FinalizeAwaitAck, FinalizeLock, FinalizeCount, StopAcquireBox,
         PostSentinel, threadVars, segVars
    <3> QED
      BY <2>1, <3>1, ScriptSame
  <2> QED
    BY <1>4, <2>2, <2>3 DEF MainThread
<1>5. CASE Router
  <2>1. UNCHANGED <<pc, call, out, segment, sent, awaiting>>
    BY <1>5 DEF Router, RouterStep, RouterTake, RouterReserve, RouterForward, RouterConfirm,
       clientVars, computeVars, threadVars, segVars
  <2> QED
    BY <2>1, ScriptSame
<1>6. CASE UNCHANGED vars
  BY <1>6, ScriptSame DEF vars, clientVars, computeVars, comVars, threadVars, segVars
<1> QED
  BY <1>2, <1>3, <1>4, <1>5, <1>6, ComputeFollows DEF Next, Terminated

(* A request handler that has returned finds no request any more. *)
LEMMA NothingQueued ==
  ASSUME P!ProtocolInv, NEW p \in Ranks, closed[p]
  PROVE  queue[p] = <<>>
<1>1. P!NothingAfterClose
  BY P!Quiet, Constants
<1> QED
  BY <1>1, SameFields DEF P!NothingAfterClose

(* Every step keeps the request handlers and the receivers on theirs. *)
LEMMA OthersScriptStep ==
  ASSUME IInv, ClientInv, P!ProtocolInv, [Next]_vars, NEW a \in Ranks
  PROVE  OthersScript(a)'
<1>1. TypeOK /\ ClientTypes /\ OthersScript(a)
  BY DEF IInv, TypeInv, ClientInv
<1>2. ASSUME UNCHANGED <<handled, closed, rpc, got, stops, local_done>>,
             pc'[a][Handler] = pc[a][Handler] \/ pc'[a][Handler] = "idle"
      PROVE  OthersScript(a)'
  BY <1>1, <1>2 DEF OthersScript, AllStopped
<1>3. ASSUME NEW p \in Ranks, NEW w \in Workers, NEW from, NEW to, Moves(p, w, from, to),
             UNCHANGED <<handled, closed, got, stops, local_done>>,
             p = a /\ w = Handler => ~handled[p]
      PROVE  OthersScript(a)'
  <2>1. UNCHANGED rpc
    BY <1>3 DEF Moves
  <2>2. CASE a # p \/ w # Handler
    BY <1>2, <1>3, <2>1, <2>2, TwoThreads DEF Moves
  <2> QED
    BY <1>1, <1>3, <2>1, <2>2 DEF OthersScript, AllStopped
<1>4. ASSUME NEW p \in Ranks, ComputeThread(p)  PROVE OthersScript(a)'
  <2>1. UNCHANGED <<handled, closed, got, stops, local_done>>
    BY <1>4 DEF ComputeThread, ComputeSend, ComputeSent, TakeResponse, Sending, WriteMessage,
       SendMessage, clientVars, receiverVars
  <2>2. CASE ComputeSend(p)
    <3>1. StartSend(p, Compute, Dest(p, sent[p]), Message(p, sent[p]))
      BY <2>2 DEF ComputeSend
    <3>2. Moves(p, Compute, "idle", "lock")
      BY <1>1, <3>1, StartEffect, TwoThreads
    <3> QED
      BY <1>3, <2>1, <3>2, TwoThreads
  <2>3. CASE Sending(p, Compute)
    <3>1. PICK from, to : Moves(p, Compute, from, to)
      BY <2>3, SendingMoves, TwoThreads
    <3> QED
      BY <1>3, <2>1, <3>1, TwoThreads
  <2>4. CASE ComputeSent(p)
    <3>1. FinishBuffer(p, Compute) /\ UNCHANGED out
      BY <2>4 DEF ComputeSent, FinishSend
    <3>2. Moves(p, Compute, "ready", "idle")
      BY <1>1, <3>1, FinishEffect, TwoThreads
    <3> QED
      BY <1>3, <2>1, <3>2, TwoThreads
  <2>5. CASE TakeResponse(p)
    BY <1>2, <2>1, <2>5 DEF TakeResponse, comVars, threadVars, recvVars
  <2> QED
    BY <1>4, <2>2, <2>3, <2>4, <2>5 DEF ComputeThread
<1>5. ASSUME NEW p \in Ranks, HandlerThread(p)  PROVE OthersScript(a)'
  <2>1. UNCHANGED <<closed, got, stops, local_done>>
    BY <1>5 DEF HandlerThread, HandleRequest, RequestHandled, HandlerReturns, Sending, WriteMessage,
       SendMessage, clientVars, receiverVars
  <2>2. handled[p] => closed[p] /\ pc[p][Handler] = "idle"
    BY DEF ClientInv, OthersScript
  <2>3. CASE HandleRequest(p)
    <3>1. PICK q \in Ranks, m \in DbMessage : StartSend(p, Handler, q, m)
      BY <2>3, Answering
    <3>2. Moves(p, Handler, "idle", "lock")
      BY <1>1, <3>1, StartEffect, TwoThreads
    <3>3. ~handled[p] /\ UNCHANGED handled
      BY <2>2, <2>3, NothingQueued DEF HandleRequest
    <3> QED
      BY <1>3, <2>1, <3>2, <3>3, TwoThreads
  <2>4. CASE Sending(p, Handler)
    <3>1. PICK from \in Locked \cup {"lock"}, to \in Locked : Moves(p, Handler, from, to)
      BY <2>4, SendingMoves, TwoThreads DEF Locked
    <3>2. ~handled[p]
      BY <2>2, <3>1 DEF Moves, Locked
    <3>3. UNCHANGED handled
      BY <2>4 DEF Sending, WriteMessage, SendMessage, clientVars
    <3> QED
      BY <1>3, <2>1, <3>1, <3>2, <3>3, TwoThreads
  <2>5. CASE RequestHandled(p)
    <3>1. FinishBuffer(p, Handler) /\ UNCHANGED <<out, handled>>
      BY <2>5 DEF RequestHandled, FinishSend, clientVars
    <3>2. Moves(p, Handler, "ready", "idle")
      BY <1>1, <3>1, FinishEffect, TwoThreads
    <3>3. ~handled[p]
      BY <2>2, <3>2 DEF Moves
    <3> QED
      BY <1>3, <2>1, <3>1, <3>2, <3>3, TwoThreads
  <2>6. CASE HandlerReturns(p)
    <3>1. /\ pc[p][Handler] = "idle" /\ closed[p] /\ UNCHANGED <<pc, rpc>>
          /\ handled' = [handled EXCEPT ![p] = TRUE]
      BY <2>6 DEF HandlerReturns, At, comVars, threadVars, recvVars
    <3>2. a # p => handled'[a] = handled[a]
      BY <3>1
    <3> QED
      BY <1>1, <2>1, <3>1, <3>2 DEF OthersScript, AllStopped
  <2> QED
    BY <1>5, <2>3, <2>4, <2>5, <2>6 DEF HandlerThread
<1>6. ASSUME NEW p \in Ranks, ReceiverThread(p)  PROVE OthersScript(a)'
  <2>1. UNCHANGED <<pc, handled>>
    BY <1>6 DEF ReceiverThread, Receive, Received, Dispatch, ReceiverReturns, AwaitMessage,
       CopyPayload, ClearInbox, PostAck, clientVars, comVars, threadVars
  <2>2. OthersScript(p)
    BY DEF ClientInv
  <2>3. CASE Receive(p)
    <3>1. /\ got[p] = None /\ ~AllStopped(p) /\ rpc' = [rpc EXCEPT ![p] = "copy"]
          /\ UNCHANGED <<closed, got, stops, local_done>>
      BY <2>3 DEF Receive, AwaitMessage, clientVars, receiverVars
    <3> QED
      BY <1>1, <2>1, <3>1 DEF OthersScript, AllStopped, TypeOK
  <2>4. CASE (CopyPayload(p) \/ ClearInbox(p)) /\ UNCHANGED clientVars
    <3>1. /\ rpc[p] # "idle" /\ (rpc' = [rpc EXCEPT ![p] = "clear"] \/ rpc' = [rpc EXCEPT ![p] = "ack"])
          /\ UNCHANGED <<closed, got, stops, local_done>>
      BY <2>4 DEF CopyPayload, ClearInbox, RecvAt, clientVars, receiverVars
    <3> QED
      BY <1>1, <2>1, <2>2, <3>1 DEF OthersScript, AllStopped, TypeOK
  <2>5. CASE Received(p)
    <3>1. /\ rpc' = [rpc EXCEPT ![p] = "idle"] /\ got' = [got EXCEPT ![p] = {rcv[p].msg}]
          /\ UNCHANGED <<closed, stops, local_done>>
      BY <2>5 DEF Received, PostAck
    <3> QED
      BY <1>1, <2>1, <3>1 DEF OthersScript, AllStopped, TypeOK, ClientTypes
  <2>6. CASE Dispatch(p)
    <3>1. rpc[p] = "idle"
      BY <2>2, <2>6 DEF Dispatch, OthersScript, None
    <3>2. UNCHANGED <<rpc, closed>>
      BY <2>6 DEF Dispatch, comVars, recvVars
    <3>3. CASE a = p
      BY <1>1, <2>1, <3>1, <3>2, <3>3 DEF OthersScript
    <3>4. CASE a # p
      <4>1. got'[a] = got[a] /\ stops'[a] = stops[a] /\ local_done'[a] = local_done[a]
        BY <1>1, <2>6, <3>4, SameFields DEF Dispatch, PushRequest, SetResponse, CountStop,
           NoteLocalDone, P!ProtocolInv, P!TypeInv, ClientTypes
      <4> QED
        BY <1>1, <2>1, <3>2, <4>1 DEF OthersScript, AllStopped
    <3> QED
      BY <3>3, <3>4
  <2>7. CASE ReceiverReturns(p)
    <3>1. closed' = [closed EXCEPT ![p] = TRUE] /\ UNCHANGED <<rpc, got, stops, local_done>>
      BY <2>7 DEF ReceiverReturns, comVars, recvVars
    <3>2. closed[a] => closed'[a]
      BY <3>1, SameFields DEF P!ProtocolInv, P!TypeInv
    <3> QED
      BY <1>1, <2>1, <3>1, <3>2 DEF OthersScript, AllStopped
  <2> QED
    BY <1>6, <2>3, <2>4, <2>5, <2>6, <2>7 DEF ReceiverThread
<1>7. ASSUME NEW p \in Ranks, MainThread(p)  PROVE OthersScript(a)'
  <2>1. UNCHANGED <<handled, closed, rpc, got, stops, local_done>>
    BY <1>7 DEF MainThread, BeginFinalize, FinalizeStep, FinalizeAwaitAck, FinalizeLock,
       FinalizeCount, StopAcquireBox, PostSentinel, recvVars, clientVars, receiverVars
  <2>2. pc'[a][Handler] = pc[a][Handler] \/ pc'[a][Handler] = "idle"
    <3>1. \/ UNCHANGED pc
          \/ pc' = [pc EXCEPT ![p] = [w \in Workers |-> "idle"]]
      BY <1>7 DEF MainThread, BeginFinalize, FinalizeStep, FinalizeAwaitAck, FinalizeLock,
         FinalizeCount, StopAcquireBox, PostSentinel, threadVars
    <3>2. CASE pc' = [pc EXCEPT ![p] = [w \in Workers |-> "idle"]]
      <4>1. CASE a = p
        BY <1>1, <3>2, <4>1, TwoThreads DEF TypeOK
      <4>2. CASE a # p
        BY <1>1, <3>2, <4>2, TwoThreads DEF TypeOK
      <4> QED
        BY <4>1, <4>2
    <3> QED
      BY <3>1, <3>2
  <2> QED
    BY <1>2, <2>1, <2>2
<1>8. CASE Router
  BY <1>2, <1>8 DEF Router, RouterStep, RouterTake, RouterReserve, RouterForward, RouterConfirm,
     clientVars, receiverVars, threadVars, recvVars
<1>9. CASE UNCHANGED vars
  BY <1>2, <1>9 DEF vars, clientVars, receiverVars, comVars, threadVars, recvVars
<1> QED
  BY <1>4, <1>5, <1>6, <1>7, <1>8, <1>9 DEF Next, Terminated
-----------------------------------------------------------------------------
(* A message stays whole until it is copied. *)

(* A step that changes nothing in the inboxes, the segments and com_recv. *)
LEMMA ArrivedSame ==
  ASSUME ClientInv, UNCHANGED <<inbox, segment, rpc, rcv>>, NEW b \in Ranks
  PROVE  Arrived(b)'
BY DEF ClientInv, Arrived

(* A thread writes the segment only when no message of its process is in   *)
(* an inbox.                                                               *)
LEMMA ArrivedMoves ==
  ASSUME IInv, ClientInv, NEW p \in Ranks, NEW w \in Workers, NEW from, NEW to,
         Moves(p, w, from, to), from = "fill" \/ UNCHANGED segment, NEW b \in Ranks
  PROVE  Arrived(b)'
<1>1. CASE from = "fill"
  <2>1. pc[p][w] = "fill" /\ pending_acks[p] = 0
    BY <1>1 DEF Moves, ClientInv, Threads, Thread
  <2>2. \A v \in Workers : pc[p][v] \notin Holding
    BY <2>1 DEF IInv, LockInv, Locked, Holding
  <2>3. Uncounted(p) = 0
    BY <2>2 DEF Uncounted, Holding
  <2>4. inbox[b].src_rank # p
    BY <2>1, <2>3, NothingOut
  <2>5. \A s \in Ranks : inbox'[b].src_rank = s => segment'[s] = segment[s]
    BY <2>4 DEF Moves
  <2> QED
    BY <2>5 DEF ClientInv, Arrived, Moves
<1>2. CASE UNCHANGED segment
  BY <1>2, ArrivedSame DEF Moves
<1> QED
  BY <1>1, <1>2

(* com_recv copies the whole message (com.c:702-722). *)
LEMMA CopyArrived ==
  ASSUME IInv, ClientInv, NEW q \in Ranks, CopyPayload(q), NEW b \in Ranks
  PROVE  Arrived(b)'
<1>1. /\ rpc[q] = "copy" /\ Valid(q)
      /\ rcv[q].sender_rank = inbox[q].src_rank /\ rcv[q].size = inbox[q].size
  BY DEF CopyPayload, RecvAt, IInv, SlotInv, Reading
<1>2. PICK s \in Ranks : s = inbox[q].src_rank
  BY <1>1 DEF Valid
<1>3. /\ segment[s] \in DbMessage /\ segment[s].source_rank = s
      /\ inbox[q].size = SizeOf(segment[s]) /\ inbox[q].shm_name = s
  BY <1>1, <1>2 DEF Valid, ClientInv, Arrived
<1>4. inbox[q].size # 0
  BY <1>3, MessageSize
<1>5. /\ UNCHANGED <<inbox, segment>> /\ rpc' = [rpc EXCEPT ![q] = "clear"]
      /\ rcv' = [rcv EXCEPT ![q] = [sender_rank |-> rcv[q].sender_rank,
                                    sender_msg_id |-> rcv[q].sender_msg_id, size |-> rcv[q].size,
                                    msg |-> segment[s]]]
  BY <1>3, <1>4 DEF CopyPayload, inboxVars, segVars
<1>6. CASE b = q
  <2>1. rcv'[b].sender_rank = s /\ rcv'[b].msg = segment[s] /\ rcv'[b].size = SizeOf(segment[s])
    BY <1>1, <1>2, <1>3, <1>5, <1>6 DEF IInv, TypeInv, TypeOK
  <2>2. SizeOf(rcv'[b].msg) = SizeOf(segment[s])
    BY <2>1
  <2> QED
    BY <1>3, <1>5, <2>1, <2>2 DEF ClientInv, Arrived
<1>7. CASE b # q
  <2>1. rcv'[b] = rcv[b] /\ rpc'[b] = rpc[b]
    BY <1>5, <1>7 DEF IInv, TypeInv, TypeOK
  <2> QED
    BY <1>5, <2>1 DEF ClientInv, Arrived
<1> QED
  BY <1>6, <1>7

(* The router puts the whole message into an inbox (com.c:469-474). *)
LEMMA ForwardArrived ==
  ASSUME IInv, ClientInv, RouterForward, NEW b \in Ranks
  PROVE  Arrived(b)'
<1>1. router_pc = "forward" /\ Routing
  BY DEF RouterForward, IInv, BoxInv, Idle, Posted, Routing, Confirmed, Stopped
<1>2. ~Idle /\ ~Closed
  BY <1>1 DEF Idle, Closed, Posted, Stopped
<1>3. PICK p \in Ranks, w \in Workers : Delivering(p, w)
  BY <1>2 DEF IInv, BoxInv
<1>4. /\ segment[p] \in DbMessage /\ segment[p].source_rank = p
      /\ server_box.size = SizeOf(segment[p]) /\ server_box.src_rank = p
  BY <1>3 DEF Delivering, RequestOf, ClientInv, Threads, Thread
<1>5. /\ UNCHANGED <<segment, rpc, rcv>>
      /\ inbox' = [inbox EXCEPT ![router_dest] =
                     [src_rank |-> server_box.src_rank, msg_id |-> server_box.msg_id,
                      size |-> server_box.size, shm_name |-> server_box.shm_name]]
  BY DEF RouterForward, segVars, recvVars
<1>6. CASE b = router_dest
  <2>1. inbox'[b].src_rank = p /\ inbox'[b].size = SizeOf(segment[p])
    BY <1>4, <1>5, <1>6 DEF IInv, TypeInv, TypeOK
  <2> QED
    BY <1>4, <1>5, <2>1 DEF ClientInv, Arrived
<1>7. CASE b # router_dest
  <2>1. inbox'[b] = inbox[b]
    BY <1>5, <1>7 DEF IInv, TypeInv, TypeOK
  <2> QED
    BY <1>5, <2>1 DEF ClientInv, Arrived
<1> QED
  BY <1>6, <1>7

(* Every step keeps the messages in the inboxes whole. *)
LEMMA ArrivedStep ==
  ASSUME IInv, ClientInv, P!ProtocolInv, [Next]_vars, NEW b \in Ranks
  PROVE  Arrived(b)'
<1>1. TypeOK /\ ClientTypes /\ Arrived(b)
  BY DEF IInv, TypeInv, ClientInv
<1>2. ASSUME NEW p \in Ranks, NEW w \in Workers, Sending(p, w)  PROVE Arrived(b)'
  <2>1. PICK from, to : Moves(p, w, from, to) /\ (from = "fill" \/ UNCHANGED segment)
    BY <1>2, SendingMoves
  <2> QED
    BY <2>1, ArrivedMoves
<1>3. ASSUME NEW p \in Ranks, NEW w \in Workers, NEW q, NEW m, StartSend(p, w, q, m)
      PROVE  Arrived(b)'
  BY <1>1, <1>3, StartEffect, ArrivedMoves
<1>4. ASSUME NEW p \in Ranks, NEW w \in Workers, FinishBuffer(p, w), UNCHANGED out
      PROVE  Arrived(b)'
  BY <1>1, <1>4, FinishEffect, ArrivedMoves
<1>5. ASSUME NEW p \in Ranks, ComputeThread(p)  PROVE Arrived(b)'
  <2>1. CASE TakeResponse(p)
    BY <2>1, ArrivedSame DEF TakeResponse, comVars, inboxVars, segVars, recvVars
  <2> QED
    BY <1>2, <1>3, <1>4, <1>5, <2>1, TwoThreads DEF ComputeThread, ComputeSend, ComputeSent, FinishSend
<1>6. ASSUME NEW p \in Ranks, HandlerThread(p)  PROVE Arrived(b)'
  <2>1. CASE HandlerReturns(p)
    BY <2>1, ArrivedSame DEF HandlerReturns, comVars, inboxVars, segVars, recvVars
  <2>2. CASE RequestHandled(p)
    BY <1>4, <2>2, TwoThreads DEF RequestHandled, FinishSend, clientVars
  <2>3. CASE HandleRequest(p)
    BY <1>3, <2>3, Answering, TwoThreads
  <2> QED
    BY <1>2, <1>6, <2>1, <2>2, <2>3, TwoThreads DEF HandlerThread
<1>7. ASSUME NEW p \in Ranks, ReceiverThread(p)  PROVE Arrived(b)'
  <2>1. CASE Receive(p)
    <3>1. UNCHANGED <<inbox, segment>> /\ rpc' = [rpc EXCEPT ![p] = "copy"]
      BY <2>1 DEF Receive, AwaitMessage, segVars
    <3>2. b # p => rcv'[b] = rcv[b]
      BY <1>1, <2>1 DEF Receive, AwaitMessage, TypeOK
    <3> QED
      BY <1>1, <3>1, <3>2 DEF Arrived, TypeOK
  <2>2. CASE CopyPayload(p)
    BY <2>2, CopyArrived
  <2>3. CASE ClearInbox(p)
    <3>1. /\ rpc[p] = "clear" /\ rpc' = [rpc EXCEPT ![p] = "ack"]
          /\ inbox' = [inbox EXCEPT ![p] = EmptyInbox]
          /\ UNCHANGED <<segment, rcv>>
      BY <2>3 DEF ClearInbox, RecvAt, segVars
    <3>2. CASE b = p
      <4>1. inbox'[b].src_rank = NoRank
        BY <1>1, <3>1, <3>2 DEF TypeOK, EmptyInbox
      <4> QED
        BY <1>1, <3>1, <3>2, <4>1, NoRankNotRank DEF Arrived
    <3>3. CASE b # p
      <4>1. inbox'[b] = inbox[b] /\ rpc'[b] = rpc[b]
        BY <1>1, <3>1, <3>3 DEF TypeOK
      <4> QED
        BY <1>1, <3>1, <4>1 DEF Arrived
    <3> QED
      BY <3>2, <3>3
  <2>4. CASE Received(p)
    <3>1. /\ rpc' = [rpc EXCEPT ![p] = "idle"] /\ rcv' = [rcv EXCEPT ![p] = NoMessage]
          /\ UNCHANGED <<inbox, segment>>
      BY <2>4 DEF Received, PostAck, inboxVars, segVars
    <3> QED
      BY <1>1, <3>1 DEF Arrived, TypeOK
  <2>5. CASE Dispatch(p) \/ ReceiverReturns(p)
    BY <2>5, ArrivedSame DEF Dispatch, ReceiverReturns, comVars, inboxVars, segVars, recvVars
  <2> QED
    BY <1>7, <2>1, <2>2, <2>3, <2>4, <2>5 DEF ReceiverThread
<1>8. ASSUME NEW p \in Ranks, MainThread(p)  PROVE Arrived(b)'
  <2>1. UNCHANGED <<inbox, segment, rpc, rcv>>
    BY <1>8 DEF MainThread, BeginFinalize, FinalizeStep, FinalizeAwaitAck, FinalizeLock,
       FinalizeCount, StopAcquireBox, PostSentinel, recvVars, inboxVars, segVars
  <2> QED
    BY <2>1, ArrivedSame
<1>9. CASE Router
  <2>1. CASE RouterForward
    BY <2>1, ForwardArrived
  <2>2. CASE RouterTake \/ RouterReserve \/ RouterConfirm
    BY <2>2, ArrivedSame DEF RouterTake, RouterReserve, RouterConfirm, inboxVars, segVars, recvVars
  <2> QED
    BY <1>9, <2>1, <2>2 DEF Router, RouterStep
<1>10. CASE UNCHANGED vars
  BY <1>10, ArrivedSame DEF vars, comVars, inboxVars, segVars, recvVars
<1> QED
  BY <1>5, <1>6, <1>7, <1>8, <1>9, <1>10 DEF Next, Terminated

(* The threads of rpBenchmark2 keep to what they must. *)
LEMMA ClientInvStep ==
  ASSUME IInv, ClientInv, P!ProtocolInv, [Next]_vars
  PROVE  ClientInv'
<1>1. ClientTypes' /\ Threads'
  BY TypesStep, ThreadsStep
<1>2. \A a \in Ranks : ComputeScript(a)' /\ OthersScript(a)' /\ Arrived(a)'
  BY ComputeScriptStep, OthersScriptStep, ArrivedStep
<1> QED
  BY <1>1, <1>2 DEF ClientInv
-----------------------------------------------------------------------------
(* The boxes of the protocol: what the letters of com.c carry. *)

PayloadsOf(s) == [k \in DOMAIN s |-> s[k].payload]

(* Payloads of sequences of letters. *)
LEMMA PayloadsSeq ==
  ASSUME NEW S, NEW s \in Seq(S)
  PROVE  LET C == {x.payload : x \in S}
         IN /\ PayloadsOf(s) \in Seq(C) /\ Len(PayloadsOf(s)) = Len(s)
            /\ \A k \in 1 .. Len(s) : PayloadsOf(s)[k] = s[k].payload
<1> DEFINE C == {x.payload : x \in S}
<1>1. PICK n \in Nat : n = Len(s)
  BY LenProperties
<1>2. DOMAIN s = 1 .. n /\ \A k \in 1 .. n : s[k] \in S
  BY <1>1, LenProperties
<1>3. PayloadsOf(s) = [k \in 1 .. n |-> s[k].payload]
  BY <1>2 DEF PayloadsOf
<1>4. \A k \in 1 .. n : s[k].payload \in C
  BY <1>2
<1> HIDE DEF C
<1>5. [k \in 1 .. n |-> s[k].payload] \in [1 .. n -> C]
  BY <1>4
<1>6. PayloadsOf(s) \in Seq(C) /\ Len(PayloadsOf(s)) = n
  BY <1>1, <1>3, <1>5
<1>7. \A k \in 1 .. n : PayloadsOf(s)[k] = s[k].payload
  BY <1>3
<1> QED
  BY <1>1, <1>6, <1>7 DEF C

(* A letter more is a payload more at the end. *)
LEMMA PayloadsAppended ==
  ASSUME NEW S, NEW s \in Seq(S), NEW m \in S
  PROVE  PayloadsOf(Append(s, m)) = Append(PayloadsOf(s), m.payload)
<1> PICK C : C = {x.payload : x \in S}
  OBVIOUS
<1>1. /\ Append(s, m) \in Seq(S) /\ Len(Append(s, m)) = Len(s) + 1
      /\ \A k \in 1 .. Len(s) : Append(s, m)[k] = s[k]
      /\ Append(s, m)[Len(s) + 1] = m
  BY AppendProperties
<1>2. /\ PayloadsOf(s) \in Seq(C) /\ Len(PayloadsOf(s)) = Len(s)
      /\ \A k \in 1 .. Len(s) : PayloadsOf(s)[k] = s[k].payload
  BY PayloadsSeq
<1>3. /\ PayloadsOf(Append(s, m)) \in Seq(C) /\ Len(PayloadsOf(Append(s, m))) = Len(s) + 1
      /\ \A k \in 1 .. Len(s) + 1 : PayloadsOf(Append(s, m))[k] = Append(s, m)[k].payload
  BY <1>1, PayloadsSeq
<1>4. m.payload \in C
  OBVIOUS
<1>5. /\ Append(PayloadsOf(s), m.payload) \in Seq(C)
      /\ Len(Append(PayloadsOf(s), m.payload)) = Len(s) + 1
      /\ \A k \in 1 .. Len(s) : Append(PayloadsOf(s), m.payload)[k] = PayloadsOf(s)[k]
      /\ Append(PayloadsOf(s), m.payload)[Len(s) + 1] = m.payload
  BY <1>2, <1>4, AppendProperties
<1>6. Len(s) \in Nat
  BY LenProperties
<1>7. \A k \in 1 .. Len(s) + 1 :
        PayloadsOf(Append(s, m))[k] = Append(PayloadsOf(s), m.payload)[k]
  BY <1>1, <1>2, <1>3, <1>5, <1>6
<1> QED
  BY <1>3, <1>5, <1>7, SeqEqual

(* The first letter gone is the first payload gone. *)
LEMMA PayloadsDropped ==
  ASSUME NEW S, NEW s \in Seq(S), s # <<>>
  PROVE  /\ PayloadsOf(s) # <<>> /\ Head(PayloadsOf(s)) = Head(s).payload
         /\ PayloadsOf(Tail(s)) = Tail(PayloadsOf(s))
<1> PICK C : C = {x.payload : x \in S}
  OBVIOUS
<1>1. /\ Tail(s) \in Seq(S) /\ Len(Tail(s)) = Len(s) - 1
      /\ \A k \in 1 .. Len(Tail(s)) : Tail(s)[k] = s[k + 1]
      /\ Len(s) \in Nat \ {0} /\ Head(s) = s[1]
  BY HeadTailProperties, EmptySeq
<1>2. /\ PayloadsOf(s) \in Seq(C) /\ Len(PayloadsOf(s)) = Len(s)
      /\ \A k \in 1 .. Len(s) : PayloadsOf(s)[k] = s[k].payload
  BY PayloadsSeq
<1>3. PayloadsOf(s) # <<>>
  BY <1>1, <1>2, EmptySeq
<1>4. Head(PayloadsOf(s)) = Head(s).payload
  BY <1>1, <1>2, <1>3
<1>5. /\ PayloadsOf(Tail(s)) \in Seq(C) /\ Len(PayloadsOf(Tail(s))) = Len(s) - 1
      /\ \A k \in 1 .. Len(s) - 1 : PayloadsOf(Tail(s))[k] = Tail(s)[k].payload
  <2> PICK t \in Seq(S) : t = Tail(s)
    BY <1>1
  <2>1. /\ PayloadsOf(t) \in Seq(C) /\ Len(PayloadsOf(t)) = Len(t)
        /\ \A k \in 1 .. Len(t) : PayloadsOf(t)[k] = t[k].payload
    BY PayloadsSeq
  <2>2. Len(t) = Len(s) - 1
    BY <1>1
  <2>3. \A k \in 1 .. Len(s) - 1 : PayloadsOf(t)[k] = t[k].payload
    BY <2>1, <2>2
  <2> QED
    BY <2>1, <2>2, <2>3
<1>6. /\ Tail(PayloadsOf(s)) \in Seq(C) /\ Len(Tail(PayloadsOf(s))) = Len(s) - 1
      /\ \A k \in 1 .. Len(s) - 1 : Tail(PayloadsOf(s))[k] = PayloadsOf(s)[k + 1]
  BY <1>2, <1>3, HeadTailProperties
<1>7. \A k \in 1 .. Len(s) - 1 : PayloadsOf(Tail(s))[k] = Tail(PayloadsOf(s))[k]
  BY SMTT(40), <1>1, <1>2, <1>5, <1>6
<1>8. PayloadsOf(Tail(s)) = Tail(PayloadsOf(s))
  BY <1>5, <1>6, <1>7, SeqEqual
<1> QED
  BY <1>3, <1>4, <1>8

(* The letters of a box. *)
LEMMA BoxShape ==
  ASSUME NEW q
  PROVE  /\ BoxOf(q) = PayloadsOf(BoxLetters(q))
         /\ \/ BoxLetters(q) = <<>>
            \/ \E x : BoxLetters(q) = <<x>>
            \/ \E x, y : BoxLetters(q) = <<x, y>>
<1>1. BoxOf(q) = PayloadsOf(BoxLetters(q))
  BY DEF BoxOf, BoxLetters, PayloadsOf
<1>2. InboxLetters(q) = <<>> \/ \E x : InboxLetters(q) = <<x>>
  BY DEF InboxLetters, Letter
<1>3. MailboxLetters(q) = <<>> \/ \E x : MailboxLetters(q) = <<x>>
  BY DEF MailboxLetters, Letter
<1> QED
  BY <1>1, <1>2, <1>3, ConcatShort DEF BoxLetters

(* They are a sequence. *)
LEMMA BoxSeq ==
  ASSUME NEW q, NEW m
  PROVE  \E S : m \in S /\ BoxLetters(q) \in Seq(S)
<1>1. CASE BoxLetters(q) = <<>>
  <2>1. m \in {m} /\ BoxLetters(q) \in Seq({m})
    BY <1>1
  <2> QED
    BY <2>1
<1>2. ASSUME NEW x, BoxLetters(q) = <<x>>
      PROVE  \E S : m \in S /\ BoxLetters(q) \in Seq(S)
  <2>1. m \in {m, x} /\ BoxLetters(q) \in Seq({m, x})
    BY <1>2
  <2> QED
    BY <2>1
<1>3. ASSUME NEW x, NEW y, BoxLetters(q) = <<x, y>>
      PROVE  \E S : m \in S /\ BoxLetters(q) \in Seq(S)
  <2>1. m \in {m, x, y} /\ BoxLetters(q) \in Seq({m, x, y})
    BY <1>3
  <2> QED
    BY <2>1
<1> QED
  BY <1>1, <1>2, <1>3, BoxShape

(* A step that changes nothing in PostOffice changes no box. *)
LEMMA BoxesSame ==
  ASSUME UNCHANGED PO!poVars
  PROVE  Boxes' = Boxes
<1>1. \A q \in Ranks : (InboxLetters(q) \o MailboxLetters(q))' = InboxLetters(q) \o MailboxLetters(q)
  BY DEF PO!poVars
<1>2. \A q \in Ranks : BoxOf(q)' = BoxOf(q)
  BY <1>1 DEF BoxOf
<1> QED
  BY <1>2 DEF Boxes

(* A letter more in one box is a message more there. *)
LEMMA BoxAppended ==
  ASSUME NEW q \in Ranks, NEW m, BoxLetters(q)' = Append(BoxLetters(q), m),
         \A r \in Ranks \ {q} : BoxLetters(r)' = BoxLetters(r)
  PROVE  Boxes' = [Boxes EXCEPT ![q] = Append(@, m.payload)]
<1>1. PICK S : m \in S /\ BoxLetters(q) \in Seq(S)
  BY BoxSeq
<1>2. \A r : BoxOf(r) = PayloadsOf(BoxLetters(r)) /\ BoxOf(r)' = PayloadsOf(BoxLetters(r)')
  BY DEF BoxOf, BoxLetters, PayloadsOf
<1>3. BoxOf(q)' = Append(BoxOf(q), m.payload)
  BY <1>1, <1>2, PayloadsAppended
<1>4. \A r \in Ranks \ {q} : BoxOf(r)' = BoxOf(r)
  BY <1>2
<1> QED
  BY <1>3, <1>4 DEF Boxes

(* The first letter of a box gone is its first message gone. *)
LEMMA BoxDropped ==
  ASSUME NEW q \in Ranks, BoxLetters(q) # <<>>, BoxLetters(q)' = Tail(BoxLetters(q)),
         \A r \in Ranks \ {q} : BoxLetters(r)' = BoxLetters(r)
  PROVE  /\ Boxes' = [Boxes EXCEPT ![q] = Tail(@)]
         /\ Boxes[q] # <<>> /\ Head(Boxes[q]) = Head(BoxLetters(q)).payload
<1>1. PICK S : BoxLetters(q) \in Seq(S)
  BY BoxSeq
<1>2. \A r : BoxOf(r) = PayloadsOf(BoxLetters(r)) /\ BoxOf(r)' = PayloadsOf(BoxLetters(r)')
  BY DEF BoxOf, BoxLetters, PayloadsOf
<1>3. /\ BoxOf(q)' = Tail(BoxOf(q)) /\ BoxOf(q) # <<>>
      /\ Head(BoxOf(q)) = Head(BoxLetters(q)).payload
  BY <1>1, <1>2, PayloadsDropped
<1>4. \A r \in Ranks \ {q} : BoxOf(r)' = BoxOf(r)
  BY <1>2
<1> QED
  BY <1>3, <1>4 DEF Boxes
-----------------------------------------------------------------------------
(* What the protocol sees of the threads. *)

(* A step that moves a thread changes what the protocol sees of that       *)
(* thread only.                                                            *)
LEMMA OthersSeen ==
  ASSUME IInv, ClientInv, NEW p \in Ranks, NEW w \in Workers, NEW from, NEW to,
         Moves(p, w, from, to), from \in Locked \/ UNCHANGED segment, NEW a \in Ranks
  PROVE  /\ CopiedBy(a)' = CopiedBy(a)
         /\ a # p \/ w # Compute => (Accepted(a, Compute)' <=> Accepted(a, Compute))
         /\ a # p \/ w # Handler => ServingOf(a)' = ServingOf(a)
<1>1. CopiedBy(a)' = CopiedBy(a)
  BY DEF Moves, CopiedBy
<1>2. ASSUME a # p \/ w # Compute  PROVE Accepted(a, Compute)' <=> Accepted(a, Compute)
  BY <1>2, TwoThreads DEF Moves, Accepted, At
<1>3. ASSUME a # p \/ w # Handler  PROVE ServingOf(a)' = ServingOf(a)
  <2>1. /\ pc'[a][Handler] = pc[a][Handler] /\ call'[a][Handler] = call[a][Handler]
        /\ out'[a][Handler] = out[a][Handler]
    BY <1>3, TwoThreads DEF Moves
  <2>2. CASE segment'[a] = segment[a]
    BY <2>1, <2>2 DEF ServingOf
  <2>3. CASE a = p /\ from \in Locked
    <3>1. pc[p][w] = from /\ w \in send_buffer_lock[p]
      BY <2>3 DEF Moves, IInv, LockInv
    <3>2. pc[a][Handler] \notin Locked
      BY <1>3, <2>3, <3>1, TwoThreads DEF IInv, LockInv
    <3>3. pc[a][Handler] \notin {"box", "post"}
      BY <3>2 DEF Locked
    <3> QED
      BY <2>1, <3>3 DEF ServingOf
  <2> QED
    BY <2>2, <2>3 DEF Moves
<1> QED
  BY <1>1, <1>2, <1>3

(* What the protocol sees of a thread it does not see moving. *)
SameSeen(p, w) ==
  /\ w = Compute => (Accepted(p, Compute)' <=> Accepted(p, Compute))
  /\ w = Handler => ServingOf(p)' = ServingOf(p)

(* Nothing of the protocol changes. *)
LEMMA Unseen ==
  ASSUME UNCHANGED PO!poVars,
         UNCHANGED <<sent, awaiting, slot, queue, closed, handled, got, stops, local_done>>,
         \A a \in Ranks : /\ CopiedBy(a)' = CopiedBy(a)
                          /\ Accepted(a, Compute)' <=> Accepted(a, Compute)
                          /\ ServingOf(a)' = ServingOf(a)
  PROVE  UNCHANGED P!vars
<1>1. Boxes' = Boxes
  BY BoxesSame
<1>2. SentTo' = SentTo /\ Waiting' = Waiting
  BY DEF SentTo, Waiting
<1>3. Serving' = Serving /\ Gotten' = Gotten
  BY DEF Serving, Gotten
<1> QED
  BY <1>1, <1>2, <1>3 DEF P!vars, P!computeVars, P!handlerVars, P!receiverVars

(* A thread that moves, unseen. *)
LEMMA MoveUnseen ==
  ASSUME IInv, ClientInv, NEW p \in Ranks, NEW w \in Workers, NEW from, NEW to,
         Moves(p, w, from, to), from \in Locked \/ UNCHANGED segment,
         UNCHANGED PO!poVars,
         UNCHANGED <<sent, awaiting, slot, queue, closed, handled, got, stops, local_done>>,
         SameSeen(p, w)
  PROVE  UNCHANGED P!vars
<1>1. \A a \in Ranks : /\ CopiedBy(a)' = CopiedBy(a)
                       /\ Accepted(a, Compute)' <=> Accepted(a, Compute)
                       /\ ServingOf(a)' = ServingOf(a)
  <2> TAKE a \in Ranks
  <2>1. CopiedBy(a)' = CopiedBy(a)
    BY OthersSeen
  <2>2. Accepted(a, Compute)' <=> Accepted(a, Compute)
    <3>1. CASE a # p \/ w # Compute
      BY <3>1, OthersSeen
    <3>2. CASE a = p /\ w = Compute
      BY <3>2 DEF SameSeen
    <3> QED
      BY <3>1, <3>2
  <2>3. ServingOf(a)' = ServingOf(a)
    <3>1. CASE a # p \/ w # Handler
      BY <3>1, OthersSeen
    <3>2. CASE a = p /\ w = Handler
      BY <3>2, TwoThreads DEF SameSeen
    <3> QED
      BY <3>1, <3>2
  <2> QED
    BY <2>1, <2>2, <2>3
<1> QED
  BY <1>1, Unseen

(* Every step of com_prepare_send_buffer and com_send but the post is      *)
(* unseen: the message is the thread's until it is in the mailbox.         *)
LEMMA SendingUnseen ==
  ASSUME IInv, ClientInv, NEW p \in Ranks, NEW w \in Workers, Sending(p, w),
         ~PostRequest(p, w)
  PROVE  UNCHANGED P!vars
<1>1. TypeOK /\ ClientTypes /\ Thread(p, w) /\ p \in alive
  BY DEF IInv, TypeInv, ClientInv, Threads, ClientTypes
<1>2. UNCHANGED <<sent, awaiting, slot, queue, closed, handled, got, stops, local_done>>
  BY DEF Sending, WriteMessage, SendMessage, clientVars, computeVars, receiverVars
<1>3. CASE WriteMessage(p, w)
  <2>1. PICK o \in out[p][w] : Fill(p, w, o.msg)
    BY <1>3 DEF WriteMessage
  <2>2. UNCHANGED out
    BY <1>3 DEF WriteMessage, clientVars
  <2>3. Moves(p, w, "fill", "ready") /\ segment'[p] = o.msg /\ UNCHANGED <<call, out, pending_acks>>
    BY <1>1, <2>1, <2>2, FillEffect
  <2>4. o.msg \in Data
    BY <1>1, DistDbAssumption DEF ClientTypes
  <2>5. UNCHANGED PO!poVars
    BY <2>1, <2>4, FillStutters, QuietSegments DEF IInv
  <2>6. SameSeen(p, w)
    <3>1. out[p][w] # None /\ pc[p][w] = "fill" /\ pc'[p][w] = "ready" /\ out' = out
      BY <2>3 DEF Moves, None
    <3>2. CASE w = Compute
      BY <3>1, <3>2, TwoThreads DEF SameSeen, Accepted, At
    <3>3. CASE w = Handler
      BY <3>1, <3>3, TwoThreads DEF SameSeen, ServingOf
    <3> QED
      BY <3>2, <3>3, DistDbAssumption
  <2> QED
    BY <1>2, <2>3, <2>5, <2>6, MoveUnseen DEF Locked
<1>4. CASE SendMessage(p, w)
  <2>1. PICK o \in out[p][w] : Send(p, w, o.dest)
    BY <1>4 DEF SendMessage
  <2>2. out' = [out EXCEPT ![p][w] = None]
    BY <1>4 DEF SendMessage
  <2>3. /\ Moves(p, w, "ready", "box")
        /\ call'[p][w].size = call[p][w].size /\ call'[p][w].dest = o.dest /\ out'[p][w] = None
        /\ UNCHANGED <<segment, pending_acks>>
    BY <1>1, <2>1, <2>2, SendEffect
  <2>4. o \in [dest: Ranks, msg: DbMessage]
    BY <1>1 DEF ClientTypes
  <2>5. UNCHANGED PO!poVars
    BY <2>1, <2>4, OtherStepStutters
  <2>6. ASSUME w = Compute  PROVE SameSeen(p, w)
    <3>1. out[p][Compute] # None /\ pc[p][Compute] = "ready" /\ pc'[p][Compute] = "box"
      BY <2>3, <2>6 DEF Moves, None
    <3> QED
      BY <2>6, <3>1, TwoThreads DEF SameSeen, Accepted, At
  <2>7. ASSUME w = Handler  PROVE SameSeen(p, w)
    <3>1. segment[p] = o.msg /\ out[p][Handler] = {o}
      BY <1>1, <2>3, <2>7 DEF Thread, Moves
    <3>2. ServingOf(p) = {o}
      BY <2>3, <2>7, <3>1 DEF ServingOf, Moves
    <3>3. ServingOf(p)' = {[dest |-> o.dest, msg |-> o.msg]}
      BY <2>3, <2>7, <3>1 DEF ServingOf, Moves
    <3>4. o = [dest |-> o.dest, msg |-> o.msg]
      BY <2>4
    <3> QED
      BY <2>7, <3>2, <3>3, <3>4, TwoThreads DEF SameSeen
  <2>8. SameSeen(p, w)
    BY <2>6, <2>7, DistDbAssumption
  <2> QED
    BY <1>2, <2>3, <2>5, <2>8, MoveUnseen
<1>5. CASE SendStep(p, w) /\ UNCHANGED clientVars
  <2>1. UNCHANGED out
    BY <1>5 DEF clientVars
  <2>2. UNCHANGED PO!poVars
    BY <1>5, OtherStepStutters DEF SendStep
  <2>3. ASSUME NEW from \in {"lock", "drain"}, NEW to \in {"drain", "fill"},
               Moves(p, w, from, to), UNCHANGED segment
        PROVE  UNCHANGED P!vars
    <3>1. SameSeen(p, w)
      BY <1>1, <2>1, <2>3, TwoThreads DEF SameSeen, Moves, Accepted, At, ServingOf
    <3> QED
      BY <1>2, <2>2, <2>3, <3>1, MoveUnseen
  <2>4. CASE LockBuffer(p, w)
    BY <1>1, <2>1, <2>3, <2>4, StepEffect DEF Passes
  <2>5. CASE AwaitAck(p, w)
    BY <1>1, <2>1, <2>3, <2>5, AckEffect
  <2>6. CASE MapBuffer(p, w)
    <3>1. PICK o \in out[p][w] : call[p][w].size = SizeOf(o.msg) /\ o.msg \in DbMessage
      BY <1>1, <2>6 DEF MapBuffer, At, Thread, None, ClientTypes
    <3>2. call[p][w].size # 0
      BY <3>1, MessageSize
    <3> QED
      BY <1>1, <2>1, <2>3, <2>6, <3>2, StepEffect DEF Passes
  <2>7. CASE AcquireBox(p, w)
    <3>1. Moves(p, w, "box", "post") /\ UNCHANGED <<call, out, segment, pending_acks>>
      BY <1>1, <2>1, <2>7, StepEffect DEF Passes
    <3>2. SameSeen(p, w)
      BY <3>1, TwoThreads DEF SameSeen, Moves, Accepted, At, ServingOf
    <3> QED
      BY <1>2, <2>2, <3>1, <3>2, MoveUnseen
  <2>8. CASE AwaitDelivered(p, w)
    <3>1. Moves(p, w, "deliver", "release") /\ UNCHANGED <<call, out, segment, pending_acks>>
      BY <1>1, <2>1, <2>8, StepEffect DEF Passes
    <3>2. SameSeen(p, w)
      BY <3>1, TwoThreads DEF SameSeen, Moves, Accepted, At, ServingOf
    <3> QED
      BY <1>2, <2>2, <3>1, <3>2, MoveUnseen
  <2>9. CASE ReleaseBox(p, w)
    <3>1. Moves(p, w, "release", "ready") /\ UNCHANGED <<out, segment>>
      BY <1>1, <2>1, <2>9, ReleaseEffect
    <3>2. out[p][w] = None /\ p \in alive'
      BY <1>1, <3>1 DEF Thread, Moves
    <3>3. SameSeen(p, w)
      BY <3>1, <3>2, TwoThreads DEF SameSeen, Moves, Accepted, At, ServingOf
    <3> QED
      BY <1>2, <2>2, <3>1, <3>3, MoveUnseen
  <2> QED
    BY <1>5, <2>4, <2>5, <2>6, <2>7, <2>8, <2>9 DEF SendStep
<1> QED
  BY <1>3, <1>4, <1>5 DEF Sending
-----------------------------------------------------------------------------
(* The steps the protocol sees. *)

(* What an inbox holds is a message of its sender. *)
LEMMA InboxContent ==
  ASSUME IInv, ClientInv, NEW r \in Ranks, inbox[r] # EmptyInbox
  PROVE  /\ inbox[r].src_rank \in Ranks
         /\ Content(inbox[r]) = segment[inbox[r].src_rank]
         /\ Content(inbox[r]).source_rank = inbox[r].src_rank
<1>1. Valid(r)
  BY DEF IInv, SlotInv
<1>2. PICK s \in Ranks : s = inbox[r].src_rank
  BY <1>1 DEF Valid
<1>3. /\ segment[s] \in DbMessage /\ segment[s].source_rank = s
      /\ inbox[r].size = SizeOf(segment[s]) /\ inbox[r].shm_name = s
  BY <1>1, <1>2 DEF Valid, ClientInv, Arrived
<1>4. inbox[r].size # 0
  BY <1>3, MessageSize
<1> QED
  BY <1>2, <1>3, <1>4 DEF Content

(* com_send posts its message (com.c:667-675) when every earlier message   *)
(* of its process is copied and the mailbox is free.                       *)
LEMMA Posting ==
  ASSUME IInv, ClientInv, NEW p \in Ranks, NEW w \in Workers, PostRequest(p, w)
  PROVE  /\ call[p][w].dest \in Ranks
         /\ P!MayPost(p)
         /\ Boxes' = [Boxes EXCEPT ![call[p][w].dest] = Append(@, segment[p])]
<1>1. pc[p][w] = "post" /\ Idle
  BY DEF PostRequest, At, IInv, BoxInv
<1>2. PICK q \in Ranks : q = call[p][w].dest
  BY <1>1 DEF IInv, BufferInv, Holding
<1>3. /\ segment[p] \in DbMessage /\ call[p][w].size = SizeOf(segment[p])
      /\ pending_acks[p] = 0
  BY <1>1 DEF ClientInv, Threads, Thread
<1>4. \A r \in Ranks : inbox[r].src_rank # p
  <2>1. \A v \in Workers : pc[p][v] \notin {"release", "deliver"}
    BY <1>1 DEF IInv, BoxInv, Holding
  <2>2. Uncounted(p) = 0
    BY <2>1 DEF Uncounted
  <2> QED
    BY <1>3, <2>2, NothingOut
<1>5. \A r \in Ranks :
        \/ BoxOf(r) = <<>>
        \/ \E m : BoxOf(r) = <<m>> /\ m.source_rank # p
  <2> TAKE r \in Ranks
  <2>1. MailboxLetters(r) = <<>>
    BY <1>1 DEF MailboxLetters, InTransit, Idle
  <2>2. BoxLetters(r) = InboxLetters(r)
    BY <2>1, ConcatShort DEF BoxLetters, InboxLetters, Letter
  <2>3. CASE InboxLetters(r) = <<>>
    BY <2>2, <2>3, BoxShape DEF PayloadsOf
  <2>4. CASE InboxLetters(r) # <<>>
    <3>1. inbox[r] # EmptyInbox
      BY <2>4 DEF InboxLetters
    <3>2. BoxLetters(r) = <<[src |-> inbox[r].src_rank, payload |-> Content(inbox[r])]>>
      BY <2>2, <2>4 DEF InboxLetters, Letter
    <3>3. BoxOf(r) = <<Content(inbox[r])>>
      BY <3>2, BoxShape DEF PayloadsOf
    <3>4. Content(inbox[r]).source_rank # p
      BY <1>4, <3>1, InboxContent
    <3> QED
      BY <3>3, <3>4
  <2> QED
    BY <2>3, <2>4
<1>6. ~P!Uncopied(p)
  <2>1. \A r \in Ranks : \A k \in DOMAIN BoxOf(r) : BoxOf(r)[k].source_rank # p
    BY <1>5
  <2> QED
    BY <2>1, SameFields DEF P!Uncopied, Boxes
<1>7. P!MailboxFree
  <2>1. \A r \in Ranks : Len(BoxOf(r)) <= 1
    <3> TAKE r \in Ranks
    <3>1. CASE BoxOf(r) = <<>>
      BY <3>1
    <3>2. ASSUME NEW m, BoxOf(r) = <<m>>  PROVE Len(BoxOf(r)) <= 1
      BY <3>2
    <3> QED
      BY <1>5, <3>1, <3>2
  <2> QED
    BY <2>1, SameFields DEF P!MailboxFree, Boxes
<1>8. Boxes' = [Boxes EXCEPT ![q] = Append(@, segment[p])]
  <2>1. PICK m : m = [src |-> p, payload |-> Content(RequestOf(p, w))]
    OBVIOUS
  <2>2. /\ BoxLetters(q)' = Append(BoxLetters(q), m)
        /\ \A r \in Ranks \ {q} : BoxLetters(r)' = BoxLetters(r)
    BY <1>2, <2>1, RequestPosted
  <2>3. call[p][w].size # 0
    BY <1>3, MessageSize
  <2>4. m.payload = segment[p]
    BY <2>1, <2>3 DEF Content, RequestOf
  <2> QED
    BY <2>2, <2>4, BoxAppended
<1> QED
  BY <1>2, <1>6, <1>7, <1>8 DEF P!MayPost

(* The compute thread's post is the protocol's. *)
LEMMA ComputePosts ==
  ASSUME IInv, ClientInv, NEW p \in Ranks, PostRequest(p, Compute), UNCHANGED clientVars
  PROVE  P!Next
<1>1. TypeOK /\ ClientTypes /\ p \in alive /\ pc[p][Compute] = "post"
  BY DEF IInv, TypeInv, ClientInv, ClientTypes, PostRequest, At
<1>2. /\ ~awaiting[p] /\ sent[p] <= LastMessage
      /\ call[p][Compute].dest = Dest(p, sent[p]) /\ segment[p] = Message(p, sent[p])
  BY <1>1 DEF ClientInv, ComputeScript
<1>3. Moves(p, Compute, "post", "deliver") /\ UNCHANGED <<call, out, segment, pending_acks>>
  BY <1>1, StepEffect, TwoThreads DEF Passes, clientVars
<1>4. /\ UNCHANGED <<sent, awaiting, slot, queue, closed, handled, got, stops, local_done>>
      /\ LastMessage \in Nat /\ sent \in [Ranks -> 0 .. LastMessage + 1]
      /\ Requests \in Nat /\ LastMessage >= Requests
  BY <1>1, Constants DEF clientVars, computeVars, receiverVars, ClientTypes, LastMessage
<1>5. ~Accepted(p, Compute) /\ Accepted(p, Compute)'
  BY <1>1, <1>3 DEF Accepted, At, Moves
<1>6. \A a \in Ranks : /\ CopiedBy(a)' = CopiedBy(a) /\ ServingOf(a)' = ServingOf(a)
                       /\ a # p => (Accepted(a, Compute)' <=> Accepted(a, Compute))
  BY <1>3, OthersSeen, TwoThreads
<1>7. SentTo[p] = sent[p] /\ ~Waiting[p]
  <2>1. SentTo[p] = sent[p]
    BY <1>4, <1>5 DEF SentTo
  <2>2. ~Waiting[p]
    BY <1>2, <1>5, Zenon DEF Waiting
  <2> QED
    BY <2>1, <2>2
<1>8. SentTo' = [SentTo EXCEPT ![p] = @ + 1]
  <2>1. SentTo' = [a \in Ranks |-> sent[a] + IF Accepted(a, Compute)' THEN 1 ELSE 0]
    BY <1>4 DEF SentTo
  <2>2. SentTo'[p] = SentTo[p] + 1
    BY <1>5, <1>7, <2>1
  <2>3. \A a \in Ranks \ {p} : SentTo'[a] = SentTo[a]
    BY <1>6, <2>1 DEF SentTo
  <2> QED
    BY <2>1, <2>2, <2>3 DEF SentTo
<1>9. Waiting' = [Waiting EXCEPT ![p] = SentTo[p] < Requests]
  <2>1. Waiting' = [a \in Ranks |-> awaiting[a] \/ (Accepted(a, Compute)' /\ sent[a] < Requests)]
    BY <1>4 DEF Waiting
  <2>2. Waiting'[p] = (SentTo[p] < Requests)
    BY <1>2, <1>5, <1>7, <2>1
  <2>3. \A a \in Ranks \ {p} : Waiting'[a] = Waiting[a]
    BY <1>6, <2>1 DEF Waiting
  <2> QED
    BY <2>1, <2>2, <2>3 DEF Waiting
<1>10. P!Post(p, P!Dest(p, SentTo[p]), P!Message(p, SentTo[p]))
  BY <1>2, <1>7, Posting, TwoThreads, SameScript DEF P!Post
<1>11. Serving' = Serving /\ Gotten' = Gotten
  BY <1>4, <1>6 DEF Serving, Gotten
<1>12. P!ComputePost(p)
  BY <1>2, <1>4, <1>7, <1>8, <1>9, <1>10, <1>11, SameFields
     DEF P!ComputePost, P!handlerVars, P!receiverVars
<1> QED
  BY <1>12, SameFields DEF P!Next, P!ComputeThread

(* The request handler's post is the protocol's. *)
LEMMA HandlerPosts ==
  ASSUME IInv, ClientInv, NEW p \in Ranks, PostRequest(p, Handler), UNCHANGED clientVars
  PROVE  P!Next
<1>1. TypeOK /\ ClientTypes /\ p \in alive /\ pc[p][Handler] = "post" /\ Thread(p, Handler)
  BY TwoThreads DEF IInv, TypeInv, ClientInv, ClientTypes, Threads, PostRequest, At
<1>2. Moves(p, Handler, "post", "deliver") /\ UNCHANGED <<call, out, segment, pending_acks>>
  BY <1>1, StepEffect, TwoThreads DEF Passes, clientVars
<1>3. UNCHANGED <<sent, awaiting, slot, queue, closed, handled, got, stops, local_done>>
  BY DEF clientVars, computeVars, receiverVars
<1>4. \A a \in Ranks : /\ CopiedBy(a)' = CopiedBy(a)
                       /\ Accepted(a, Compute)' <=> Accepted(a, Compute)
                       /\ a # p => ServingOf(a)' = ServingOf(a)
  BY <1>2, OthersSeen, TwoThreads
<1>5. ServingOf(p) = {[dest |-> call[p][Handler].dest, msg |-> segment[p]]}
  BY <1>1 DEF ServingOf
<1>6. ServingOf(p)' = None
  BY <1>1, <1>2 DEF ServingOf, Moves, Thread
<1>7. Serving' = [Serving EXCEPT ![p] = None]
  BY <1>4, <1>6 DEF Serving
<1>8. \E r \in Serving[p] : P!Post(p, r.dest, r.msg)
  <2>1. P!Post(p, call[p][Handler].dest, segment[p])
    BY Posting, TwoThreads DEF P!Post
  <2>2. [dest |-> call[p][Handler].dest, msg |-> segment[p]] \in Serving[p]
    BY <1>5 DEF Serving
  <2> QED
    BY <2>1, <2>2
<1>9. SentTo' = SentTo /\ Waiting' = Waiting /\ Gotten' = Gotten
  BY <1>3, <1>4 DEF SentTo, Waiting, Gotten
<1>10. P!Reply(p)
  BY <1>3, <1>7, <1>8, <1>9, SameFields DEF P!Reply, P!computeVars, P!receiverVars
<1> QED
  BY <1>10, SameFields DEF P!Next, P!HandlerThread

(* A step outside com.h. *)
LEMMA OutsideSeen ==
  ASSUME UNCHANGED <<comVars, out>>
  PROVE  /\ Boxes' = Boxes
         /\ \A a : /\ CopiedBy(a)' = CopiedBy(a)
                   /\ Accepted(a, Compute)' <=> Accepted(a, Compute)
                   /\ ServingOf(a)' = ServingOf(a)
<1>1. UNCHANGED <<segment, inbox, server_box, box_full, router_pc, rpc, rcv, pc, call, alive>>
  BY DEF comVars, boxVars, inboxVars, segVars, recvVars, routerVars, threadVars
<1>2. InTransit' = InTransit
  BY <1>1 DEF InTransit
<1>3. Boxes' = Boxes
  BY <1>1, <1>2, LettersSame, BoxesSame
<1> QED
  BY <1>1, <1>3 DEF CopiedBy, Accepted, At, ServingOf

(* The compute thread's step outside com.h, when it begins to send, and    *)
(* when com_finish_send_buffer returns: between the post and the return    *)
(* the protocol is ahead of it.                                            *)
LEMMA ComputeRefines ==
  ASSUME IInv, ClientInv, NEW p \in Ranks, ComputeThread(p)
  PROVE  P!Next \/ UNCHANGED P!vars
<1>1. TypeOK /\ ClientTypes /\ p \in alive /\ ComputeScript(p) /\ Thread(p, Compute)
  BY TwoThreads DEF IInv, TypeInv, ClientInv, ClientTypes, Threads
<1>2. CASE ComputeSend(p)
  <2>1. /\ StartSend(p, Compute, Dest(p, sent[p]), Message(p, sent[p]))
        /\ UNCHANGED <<sent, awaiting, slot, queue, closed, handled, got, stops, local_done>>
    BY <1>2 DEF ComputeSend, computeVars, receiverVars
  <2>2. Moves(p, Compute, "idle", "lock") /\ UNCHANGED <<segment, pending_acks>>
    BY <1>1, <2>1, StartEffect, TwoThreads
  <2>3. UNCHANGED PO!poVars
    BY <1>1, <1>2, Asking, StartIsPrepare, OtherStepStutters, TwoThreads
  <2>4. SameSeen(p, Compute)
    BY <2>2, TwoThreads DEF SameSeen, Moves, Accepted, At
  <2> QED
    BY <2>1, <2>2, <2>3, <2>4, MoveUnseen, TwoThreads
<1>3. CASE Sending(p, Compute)
  <2>1. CASE PostRequest(p, Compute)
    <3>1. UNCHANGED clientVars
      <4>1. pc[p][Compute] = "post"
        BY <2>1 DEF PostRequest, At
      <4> QED
        BY <1>3, <4>1 DEF Sending, WriteMessage, SendMessage, Fill, Send, At
    <3> QED
      BY <2>1, <3>1, ComputePosts
  <2> QED
    BY <1>3, <2>1, SendingUnseen, TwoThreads
<1>4. CASE ComputeSent(p)
  <2>1. /\ out[p][Compute] = None /\ FinishBuffer(p, Compute)
        /\ UNCHANGED <<out, slot, queue, closed, handled, got, stops, local_done>>
        /\ sent' = [sent EXCEPT ![p] = @ + 1]
        /\ awaiting' = [awaiting EXCEPT ![p] = sent[p] < Requests]
    BY <1>4 DEF ComputeSent, FinishSend, receiverVars
  <2>2. Moves(p, Compute, "ready", "idle") /\ UNCHANGED <<segment, pending_acks>>
    BY <1>1, <2>1, FinishEffect, TwoThreads
  <2>3. Boxes' = Boxes
    BY <2>1, OtherStepStutters, BoxesSame, TwoThreads
  <2>4. \A a \in Ranks : /\ CopiedBy(a)' = CopiedBy(a) /\ ServingOf(a)' = ServingOf(a)
                         /\ a # p => (Accepted(a, Compute)' <=> Accepted(a, Compute))
    BY <2>2, OthersSeen, TwoThreads
  <2>5. Accepted(p, Compute) /\ ~Accepted(p, Compute)'
    BY <1>1, <2>1, <2>2 DEF Accepted, At, Moves
  <2>6. SentTo' = SentTo
    <3>1. sent'[p] = sent[p] + 1 /\ sent[p] \in Int
      BY <1>1, <2>1 DEF ClientTypes
    <3>2. \A a \in Ranks \ {p} : sent'[a] = sent[a]
      BY <1>1, <2>1 DEF ClientTypes
    <3>3. \A a \in Ranks : sent'[a] + (IF Accepted(a, Compute)' THEN 1 ELSE 0)
                             = sent[a] + (IF Accepted(a, Compute) THEN 1 ELSE 0)
      BY <2>4, <2>5, <3>1, <3>2
    <3> QED
      BY <3>3 DEF SentTo
  <2>7. Waiting' = Waiting
    <3>1. ~awaiting[p] /\ awaiting'[p] = (sent[p] < Requests)
      BY <1>1, <2>1, <2>2 DEF ComputeScript, Moves, ClientTypes
    <3>2. \A a \in Ranks \ {p} : sent'[a] = sent[a] /\ awaiting'[a] = awaiting[a]
      BY <1>1, <2>1 DEF ClientTypes
    <3>3. \A a \in Ranks : (awaiting'[a] \/ (Accepted(a, Compute)' /\ sent'[a] < Requests))
                             <=> (awaiting[a] \/ (Accepted(a, Compute) /\ sent[a] < Requests))
      BY <2>4, <2>5, <3>1, <3>2
    <3> QED
      BY <3>3 DEF Waiting
  <2>8. Serving' = Serving /\ Gotten' = Gotten
    BY <2>1, <2>4 DEF Serving, Gotten
  <2> QED
    BY <2>1, <2>3, <2>6, <2>7, <2>8 DEF P!vars, P!computeVars, P!handlerVars, P!receiverVars
<1>5. CASE TakeResponse(p)
  <2>1. /\ awaiting[p] /\ slot[p] # None /\ slot' = [slot EXCEPT ![p] = None]
        /\ awaiting' = [awaiting EXCEPT ![p] = FALSE]
        /\ UNCHANGED <<comVars, out, sent, queue, closed, handled, got, stops, local_done>>
    BY <1>5 DEF TakeResponse, receiverVars
  <2>2. /\ Boxes' = Boxes
        /\ \A a \in Ranks : /\ CopiedBy(a)' = CopiedBy(a) /\ ServingOf(a)' = ServingOf(a)
                            /\ Accepted(a, Compute)' <=> Accepted(a, Compute)
    BY <2>1, OutsideSeen
  <2>3. ~Accepted(p, Compute)
    BY <1>1, <2>1 DEF ComputeScript, Accepted, At
  <2>4. Waiting[p] /\ Waiting' = [Waiting EXCEPT ![p] = FALSE]
    <3>1. \A a \in Ranks \ {p} : awaiting'[a] = awaiting[a]
      BY <1>1, <2>1 DEF ClientTypes
    <3>2. awaiting'[p] = FALSE
      BY <1>1, <2>1 DEF ClientTypes
    <3>3. Waiting' = [a \in Ranks |-> awaiting'[a] \/ (Accepted(a, Compute)' /\ sent[a] < Requests)]
      BY <2>1 DEF Waiting
    <3>4. Waiting'[p] = FALSE
      BY <2>2, <2>3, <3>2, <3>3
    <3>5. \A a \in Ranks \ {p} : Waiting'[a] = Waiting[a]
      BY <2>2, <3>1, <3>3 DEF Waiting
    <3>6. Waiting[p]
      BY <2>1 DEF Waiting
    <3> QED
      BY <3>3, <3>4, <3>5, <3>6 DEF Waiting
  <2>5. SentTo' = SentTo /\ Serving' = Serving /\ Gotten' = Gotten
    BY <2>1, <2>2 DEF SentTo, Serving, Gotten
  <2>6. P!TakeResponse(p)
    BY <2>1, <2>2, <2>4, <2>5, SameFields DEF P!TakeResponse, P!handlerVars, P!receiverVars
  <2> QED
    BY <2>6, SameFields DEF P!Next, P!ComputeThread
<1> QED
  BY <1>2, <1>3, <1>4, <1>5 DEF ComputeThread

(* The request handler's steps. *)
LEMMA HandlerRefines ==
  ASSUME IInv, ClientInv, P!ProtocolInv, NEW p \in Ranks, HandlerThread(p)
  PROVE  P!Next \/ UNCHANGED P!vars
<1>1. TypeOK /\ ClientTypes /\ p \in alive /\ Thread(p, Handler)
  BY TwoThreads DEF IInv, TypeInv, ClientInv, ClientTypes, Threads
<1>2. CASE HandleRequest(p)
  <2>1. PICK m : m = Head(queue[p])
    OBVIOUS
  <2>2. /\ queue[p] # <<>> /\ StartSend(p, Handler, m.source_rank, Response(p, m))
        /\ queue' = [queue EXCEPT ![p] = Tail(@)]
        /\ UNCHANGED <<sent, awaiting, slot, closed, handled, got, stops, local_done>>
    BY <1>2, <2>1 DEF HandleRequest, computeVars, receiverVars
  <2>3. /\ Moves(p, Handler, "idle", "lock") /\ UNCHANGED <<segment, pending_acks>>
        /\ out'[p][Handler] = {[dest |-> m.source_rank, msg |-> Response(p, m)]}
    BY <1>1, <2>2, StartEffect, TwoThreads
  <2>4. PICK q \in Ranks, n \in DbMessage : StartSend(p, Handler, q, n)
    BY <1>2, Answering
  <2>5. Boxes' = Boxes
    BY <2>4, StartIsPrepare, OtherStepStutters, BoxesSame, TwoThreads
  <2>6. \A a \in Ranks : /\ CopiedBy(a)' = CopiedBy(a)
                         /\ Accepted(a, Compute)' <=> Accepted(a, Compute)
                         /\ a # p => ServingOf(a)' = ServingOf(a)
    BY <2>3, OthersSeen, TwoThreads
  <2>7. /\ ServingOf(p) = None
        /\ ServingOf(p)' = {[dest |-> m.source_rank, msg |-> Response(p, m)]}
    BY <1>1, <2>3 DEF ServingOf, Moves, Thread
  <2>8. /\ Serving[p] = None
        /\ Serving' = [Serving EXCEPT ![p] = {[dest |-> m.source_rank, msg |-> Response(p, m)]}]
    BY <2>6, <2>7 DEF Serving
  <2>9. SentTo' = SentTo /\ Waiting' = Waiting /\ Gotten' = Gotten
    BY <2>2, <2>6 DEF SentTo, Waiting, Gotten
  <2>10. P!TakeRequest(p)
    BY <2>1, <2>2, <2>5, <2>8, <2>9, SameFields, SameMessages
       DEF P!TakeRequest, P!computeVars, P!receiverVars
  <2> QED
    BY <2>10, SameFields DEF P!Next, P!HandlerThread
<1>3. CASE Sending(p, Handler)
  <2>1. CASE PostRequest(p, Handler)
    <3>1. UNCHANGED clientVars
      <4>1. pc[p][Handler] = "post"
        BY <2>1 DEF PostRequest, At
      <4> QED
        BY <1>3, <4>1 DEF Sending, WriteMessage, SendMessage, Fill, Send, At
    <3> QED
      BY <2>1, <3>1, HandlerPosts
  <2> QED
    BY <1>3, <2>1, SendingUnseen, TwoThreads
<1>4. CASE RequestHandled(p)
  <2>1. /\ out[p][Handler] = None /\ FinishBuffer(p, Handler) /\ UNCHANGED out
        /\ UNCHANGED <<sent, awaiting, slot, queue, closed, handled, got, stops, local_done>>
    BY <1>4 DEF RequestHandled, FinishSend, clientVars, computeVars, receiverVars
  <2>2. Moves(p, Handler, "ready", "idle") /\ UNCHANGED <<segment, pending_acks>>
    BY <1>1, <2>1, FinishEffect, TwoThreads
  <2>3. UNCHANGED PO!poVars
    BY <2>1, OtherStepStutters, TwoThreads
  <2>4. SameSeen(p, Handler)
    BY <2>1, <2>2, TwoThreads DEF SameSeen, Moves, ServingOf
  <2> QED
    BY <2>1, <2>2, <2>3, <2>4, MoveUnseen, TwoThreads
<1>5. CASE HandlerReturns(p)
  <2>1. /\ pc[p][Handler] = "idle" /\ ~handled[p] /\ closed[p] /\ queue[p] = <<>>
        /\ handled' = [handled EXCEPT ![p] = TRUE]
        /\ UNCHANGED <<comVars, out, sent, awaiting, slot, queue, closed, got, stops, local_done>>
    BY <1>5 DEF HandlerReturns, At, computeVars, receiverVars
  <2>2. /\ Boxes' = Boxes
        /\ \A a \in Ranks : /\ CopiedBy(a)' = CopiedBy(a) /\ ServingOf(a)' = ServingOf(a)
                            /\ Accepted(a, Compute)' <=> Accepted(a, Compute)
    BY <2>1, OutsideSeen
  <2>3. Serving[p] = None
    BY <1>1, <2>1 DEF Serving, ServingOf, Thread
  <2>4. SentTo' = SentTo /\ Waiting' = Waiting /\ Serving' = Serving /\ Gotten' = Gotten
    BY <2>1, <2>2 DEF SentTo, Waiting, Serving, Gotten
  <2>5. P!HandlerReturns(p)
    BY <2>1, <2>2, <2>3, <2>4, SameFields DEF P!HandlerReturns, P!computeVars, P!receiverVars
  <2> QED
    BY <2>5, SameFields DEF P!Next, P!HandlerThread
<1> QED
  BY <1>2, <1>3, <1>4, <1>5 DEF HandlerThread

(* The receiver's steps: the protocol receives when com_recv has copied    *)
(* the message.                                                            *)
LEMMA ReceiverRefines ==
  ASSUME IInv, ClientInv, P!ProtocolInv, NEW p \in Ranks, ReceiverThread(p)
  PROVE  P!Next \/ UNCHANGED P!vars
<1>1. TypeOK /\ ClientTypes /\ OthersScript(p)
  BY DEF IInv, TypeInv, ClientInv
<1>2. UNCHANGED <<pc, call, out, segment, alive, sent, awaiting, handled>>
  BY DEF ReceiverThread, Receive, Received, Dispatch, ReceiverReturns, AwaitMessage,
     CopyPayload, ClearInbox, PostAck, clientVars, computeVars, comVars, threadVars, segVars
<1>3. /\ \A a \in Ranks : /\ Accepted(a, Compute)' <=> Accepted(a, Compute)
                          /\ ServingOf(a)' = ServingOf(a)
      /\ SentTo' = SentTo /\ Waiting' = Waiting /\ Serving' = Serving
  BY <1>2 DEF Accepted, At, ServingOf, SentTo, Waiting, Serving
<1>4. CASE Receive(p)
  <2>1. UNCHANGED PO!poVars
    BY <1>4, AwaitMessageStutters DEF Receive
  <2>2. \A a \in Ranks : CopiedBy(a)' = CopiedBy(a)
    BY <1>1, <1>4 DEF Receive, AwaitMessage, RecvAt, CopiedBy, TypeOK
  <2>3. UNCHANGED <<slot, queue, closed, got, stops, local_done>>
    BY <1>4 DEF Receive, clientVars, receiverVars
  <2> QED
    BY <1>2, <1>3, <2>1, <2>2, <2>3, Unseen
<1>5. CASE CopyPayload(p) /\ UNCHANGED clientVars
  <2>1. PICK m : m = [src |-> inbox[p].src_rank, payload |-> Content(inbox[p])]
    OBVIOUS
  <2>2. /\ BoxLetters(p) # <<>> /\ Head(BoxLetters(p)) = m
        /\ BoxLetters(p)' = Tail(BoxLetters(p))
        /\ \A r \in Ranks \ {p} : BoxLetters(r)' = BoxLetters(r)
    BY <1>5, <2>1, LetterCopied
  <2>3. /\ Boxes' = [Boxes EXCEPT ![p] = Tail(@)]
        /\ Boxes[p] # <<>> /\ Head(Boxes[p]) = Content(inbox[p])
    BY <2>1, <2>2, BoxDropped
  <2>4. /\ rpc[p] = "copy" /\ rpc' = [rpc EXCEPT ![p] = "clear"]
        /\ rcv' = [rcv EXCEPT ![p] = [sender_rank |-> rcv[p].sender_rank,
                                      sender_msg_id |-> rcv[p].sender_msg_id, size |-> rcv[p].size,
                                      msg |-> Content(inbox[p])]]
        /\ UNCHANGED <<slot, queue, closed, got, stops, local_done>>
    BY <1>5 DEF CopyPayload, RecvAt, Content, clientVars, receiverVars
  <2>5. /\ rpc'[p] = "clear" /\ rcv'[p].msg = Content(inbox[p])
        /\ \A a \in Ranks \ {p} : rpc'[a] = rpc[a] /\ rcv'[a] = rcv[a]
    BY <1>1, <2>4 DEF TypeOK
  <2>6. got[p] = None /\ ~AllStopped(p)
    BY <1>1, <2>4 DEF OthersScript
  <2>7. Gotten[p] = None
    BY <2>4, <2>6 DEF Gotten, CopiedBy, None
  <2>8. Gotten' = [Gotten EXCEPT ![p] = {Head(Boxes[p])}]
    <3>1. got'[p] \cup CopiedBy(p)' = {Head(Boxes[p])}
      BY <2>3, <2>4, <2>5, <2>6 DEF CopiedBy, None
    <3>2. \A a \in Ranks \ {p} : got'[a] \cup CopiedBy(a)' = got[a] \cup CopiedBy(a)
      BY <2>4, <2>5 DEF CopiedBy
    <3> QED
      BY <3>1, <3>2 DEF Gotten
  <2>9. ~P!AllStopped(p)
    BY <2>6 DEF P!AllStopped, AllStopped
  <2>10. P!Receive(p)
    BY <1>2, <1>3, <2>3, <2>4, <2>7, <2>8, <2>9, SameFields
       DEF P!Receive, P!computeVars, P!handlerVars
  <2> QED
    BY <2>10, SameFields DEF P!Next, P!ReceiverThread
<1>6. CASE ClearInbox(p) /\ UNCHANGED clientVars
  <2>1. UNCHANGED PO!poVars
    BY <1>6, ClearStutters
  <2>2. \A a \in Ranks : CopiedBy(a)' = CopiedBy(a)
    BY <1>1, <1>6 DEF ClearInbox, RecvAt, CopiedBy, TypeOK
  <2>3. UNCHANGED <<slot, queue, closed, got, stops, local_done>>
    BY <1>6 DEF clientVars, receiverVars
  <2> QED
    BY <1>2, <1>3, <2>1, <2>2, <2>3, Unseen
<1>7. CASE Received(p)
  <2>1. /\ rpc[p] = "ack" /\ rpc' = [rpc EXCEPT ![p] = "idle"]
        /\ rcv' = [rcv EXCEPT ![p] = NoMessage]
        /\ got' = [got EXCEPT ![p] = {rcv[p].msg}]
        /\ UNCHANGED <<inbox, server_box, box_full, router_pc, slot, queue, closed, stops, local_done>>
    BY <1>7 DEF Received, PostAck, RecvAt, boxVars, inboxVars, routerVars
  <2>2. \A a \in Ranks : BoxOf(a)' = BoxOf(a)
    <3> TAKE a \in Ranks
    <3>1. rpc'[a] = "clear" <=> rpc[a] = "clear"
      BY <1>1, <2>1 DEF TypeOK
    <3>2. InboxLetters(a)' = InboxLetters(a) /\ MailboxLetters(a)' = MailboxLetters(a)
      BY <1>2, <2>1, <3>1 DEF InboxLetters, MailboxLetters, InTransit, Letter, Content
    <3> QED
      BY <3>2 DEF BoxOf
  <2>3. Boxes' = Boxes
    BY <2>2 DEF Boxes
  <2>4. got[p] = None
    BY <1>1, <2>1 DEF OthersScript
  <2>5. Gotten' = Gotten
    <3>1. got'[p] \cup CopiedBy(p)' = {rcv[p].msg} /\ got[p] \cup CopiedBy(p) = {rcv[p].msg}
      BY <1>1, <2>1, <2>4 DEF CopiedBy, None, TypeOK, ClientTypes
    <3>2. \A a \in Ranks \ {p} : got'[a] \cup CopiedBy(a)' = got[a] \cup CopiedBy(a)
      BY <1>1, <2>1 DEF CopiedBy, TypeOK, ClientTypes
    <3> QED
      BY <3>1, <3>2 DEF Gotten
  <2> QED
    BY <1>2, <1>3, <2>1, <2>3, <2>5 DEF P!vars, P!computeVars, P!handlerVars, P!receiverVars
<1>8. CASE Dispatch(p)
  <2>1. PICK m \in got[p] :
          PushRequest(p, m) \/ SetResponse(p, m) \/ CountStop(p, m) \/ NoteLocalDone(p, m)
    BY <1>8 DEF Dispatch
  <2>2. /\ got' = [got EXCEPT ![p] = None] /\ UNCHANGED <<comVars, closed>>
    BY <1>8 DEF Dispatch
  <2>3. rpc[p] = "idle"
    BY <1>1, <2>1 DEF OthersScript, None
  <2>4. Boxes' = Boxes /\ \A a \in Ranks : CopiedBy(a)' = CopiedBy(a)
    BY <1>2, <2>2, OutsideSeen
  <2>5. CopiedBy(p) = None /\ Gotten[p] = got[p]
    BY <2>3 DEF CopiedBy, Gotten, None
  <2>6. Gotten' = [Gotten EXCEPT ![p] = None]
    <3>1. got'[p] \cup CopiedBy(p)' = None
      BY <1>1, <2>2, <2>4, <2>5 DEF None, ClientTypes
    <3>2. \A a \in Ranks \ {p} : got'[a] \cup CopiedBy(a)' = got[a] \cup CopiedBy(a)
      BY <1>1, <2>2, <2>4 DEF ClientTypes
    <3> QED
      BY <3>1, <3>2 DEF Gotten
  <2>7. /\ PushRequest(p, m) => P!PushRequest(p, m)
        /\ SetResponse(p, m) => P!SetResponse(p, m)
        /\ CountStop(p, m) => P!CountStop(p, m)
        /\ NoteLocalDone(p, m) => P!NoteLocalDone(p, m)
    BY SameFields DEF PushRequest, P!PushRequest, SetResponse, P!SetResponse, CountStop,
       P!CountStop, NoteLocalDone, P!NoteLocalDone
  <2>8. P!Dispatch(p)
    BY <1>2, <1>3, <2>1, <2>2, <2>4, <2>5, <2>6, <2>7, SameFields
       DEF P!Dispatch, P!computeVars, P!handlerVars
  <2> QED
    BY <2>8, SameFields DEF P!Next, P!ReceiverThread
<1>9. CASE ReceiverReturns(p)
  <2>1. /\ rpc[p] = "idle" /\ got[p] = None /\ AllStopped(p) /\ ~closed[p]
        /\ closed' = [closed EXCEPT ![p] = TRUE]
        /\ UNCHANGED <<comVars, slot, queue, got, stops, local_done>>
    BY <1>9 DEF ReceiverReturns
  <2>2. Boxes' = Boxes /\ \A a \in Ranks : CopiedBy(a)' = CopiedBy(a)
    BY <1>2, <2>1, OutsideSeen
  <2>3. Gotten[p] = None /\ Gotten' = Gotten
    BY <2>1, <2>2 DEF CopiedBy, Gotten, None
  <2>4. P!AllStopped(p)
    BY <2>1 DEF P!AllStopped, AllStopped
  <2>5. P!ReceiverReturns(p)
    BY <1>2, <1>3, <2>1, <2>2, <2>3, <2>4, SameFields
       DEF P!ReceiverReturns, P!computeVars, P!handlerVars, P!receiverVars
  <2> QED
    BY <2>5, SameFields DEF P!Next, P!ReceiverThread
<1> QED
  BY <1>4, <1>5, <1>6, <1>7, <1>8, <1>9 DEF ReceiverThread

(* com_finalize and the router are below the protocol. *)
LEMMA RestRefines ==
  ASSUME IInv, ClientInv
  PROVE  /\ \A p \in Ranks : MainThread(p) => UNCHANGED P!vars
         /\ Router => UNCHANGED P!vars
<1>1. TypeOK /\ ClientTypes
  BY DEF IInv, TypeInv, ClientInv
<1>2. ASSUME NEW p \in Ranks, MainThread(p)  PROVE UNCHANGED P!vars
  <2>1. UNCHANGED PO!poVars
    BY <1>2, OtherStepStutters, SentinelStutters DEF MainThread, FinalizeStep
  <2>2. UNCHANGED <<out, sent, awaiting, slot, queue, closed, handled, got, stops, local_done>>
    BY <1>2 DEF MainThread, clientVars, computeVars, receiverVars
  <2>3. UNCHANGED <<rpc, rcv, alive, segment>>
    BY <1>2 DEF MainThread, BeginFinalize, FinalizeStep, FinalizeAwaitAck, FinalizeLock,
       FinalizeCount, StopAcquireBox, PostSentinel, recvVars, segVars
  <2>4. CASE Joined(p) /\ BeginFinalize(p)
    <3>1. pc[p][Compute] = "idle"
      <4>1. LastMessage \in Nat /\ sent[p] \in 0 .. LastMessage + 1
        BY <1>1, Constants DEF LastMessage, ClientTypes
      <4> QED
        BY <2>4, <4>1 DEF Joined, ComputeDone, ClientInv, ComputeScript
    <3>2. pc[p][Handler] = "idle"
      BY <2>4 DEF Joined, ClientInv, OthersScript
    <3>3. /\ pc' = [pc EXCEPT ![p] = [w \in Workers |-> "idle"]]
          /\ call' = [call EXCEPT ![p] = [w \in Workers |-> NoCall]]
      BY <2>4 DEF BeginFinalize
    <3>4. /\ \A a \in Ranks, w \in Workers : pc'[a][w] = pc[a][w]
          /\ \A a \in Ranks \ {p}, w \in Workers : call'[a][w] = call[a][w]
      BY <1>1, <3>1, <3>2, <3>3, DistDbAssumption DEF TypeOK
    <3>5. \A a \in Ranks : /\ CopiedBy(a)' = CopiedBy(a)
                           /\ Accepted(a, Compute)' <=> Accepted(a, Compute)
      BY <2>2, <2>3, <3>4, TwoThreads DEF CopiedBy, Accepted, At
    <3>6. \A a \in Ranks : ServingOf(a)' = ServingOf(a)
      <4> TAKE a \in Ranks
      <4>1. CASE a = p
        BY <2>2, <3>2, <3>4, <4>1, TwoThreads DEF ServingOf
      <4>2. CASE a # p
        BY <2>2, <2>3, <3>4, <4>2, TwoThreads DEF ServingOf
      <4> QED
        BY <4>1, <4>2
    <3> QED
      BY <2>1, <2>2, <3>5, <3>6, Unseen
  <2>5. CASE FinalizeStep(p)
    <3>1. UNCHANGED <<pc, call>>
      BY <2>5 DEF FinalizeStep, FinalizeAwaitAck, FinalizeLock, FinalizeCount, StopAcquireBox,
         PostSentinel, threadVars
    <3>2. \A a \in Ranks : /\ CopiedBy(a)' = CopiedBy(a)
                           /\ Accepted(a, Compute)' <=> Accepted(a, Compute)
                           /\ ServingOf(a)' = ServingOf(a)
      BY <2>2, <2>3, <3>1 DEF CopiedBy, Accepted, At, ServingOf
    <3> QED
      BY <2>1, <2>2, <3>2, Unseen
  <2> QED
    BY <1>2, <2>4, <2>5 DEF MainThread
<1>3. ASSUME Router  PROVE UNCHANGED P!vars
  <2>1. UNCHANGED PO!poVars
    BY SMTT(40), <1>3, TakeStutters, ForwardStutters, RouterStutters DEF Router, RouterStep
  <2>2. UNCHANGED <<pc, call, rpc, rcv, alive, segment>>
    BY <1>3 DEF Router, RouterStep, RouterTake, RouterReserve, RouterForward, RouterConfirm,
       threadVars, recvVars, segVars
  <2>3. UNCHANGED <<out, sent, awaiting, slot, queue, closed, handled, got, stops, local_done>>
    BY <1>3 DEF Router, clientVars, computeVars, receiverVars
  <2>4. \A a \in Ranks : /\ CopiedBy(a)' = CopiedBy(a)
                         /\ Accepted(a, Compute)' <=> Accepted(a, Compute)
                         /\ ServingOf(a)' = ServingOf(a)
    BY <2>2, <2>3 DEF CopiedBy, Accepted, At, ServingOf
  <2> QED
    BY <2>1, <2>3, <2>4, Unseen
<1> QED
  BY <1>2, <1>3

(* Every step of rpBenchmark2 is a step of its protocol or unseen there. *)
LEMMA ProtocolRefined ==
  ASSUME IInv, ClientInv, P!ProtocolInv, [Next]_vars
  PROVE  [P!Next]_P!vars
<1>1. CASE UNCHANGED vars
  <2>1. UNCHANGED <<comVars, out, sent, awaiting, slot, queue, closed, handled, got, stops, local_done>>
    BY <1>1 DEF vars, clientVars, computeVars, receiverVars
  <2>2. /\ Boxes' = Boxes
        /\ \A a \in Ranks : /\ CopiedBy(a)' = CopiedBy(a) /\ ServingOf(a)' = ServingOf(a)
                            /\ Accepted(a, Compute)' <=> Accepted(a, Compute)
    BY <2>1, OutsideSeen
  <2>3. SentTo' = SentTo /\ Waiting' = Waiting /\ Serving' = Serving /\ Gotten' = Gotten
    BY <2>1, <2>2 DEF SentTo, Waiting, Serving, Gotten
  <2> QED
    BY <2>1, <2>2, <2>3 DEF P!vars, P!computeVars, P!handlerVars, P!receiverVars
<1> QED
  BY <1>1, ComputeRefines, HandlerRefines, ReceiverRefines, RestRefines DEF Next, Terminated
-----------------------------------------------------------------------------
(* The induction. *)

(* At the beginning. *)
LEMMA ClientInvInit == Init => ClientInv
<1> SUFFICES ASSUME Init  PROVE ClientInv
  OBVIOUS
<1>1. /\ alive = Ranks
      /\ pc = [p \in Ranks |-> [w \in Workers |-> "idle"]]
      /\ inbox = [q \in Ranks |-> EmptyInbox] /\ rpc = [q \in Ranks |-> "idle"]
      /\ out = [p \in Ranks |-> [w \in Workers |-> None]]
      /\ sent = [p \in Ranks |-> 0] /\ awaiting = [p \in Ranks |-> FALSE]
      /\ handled = [p \in Ranks |-> FALSE] /\ got = [p \in Ranks |-> None]
  BY DEF Init, ComInit
<1>2. ClientTypes
  <2>1. 0 \in 0 .. LastMessage + 1
    BY Constants DEF LastMessage
  <2>2. None \in SUBSET DbMessage /\ None \in SUBSET [dest: Ranks, msg: DbMessage]
    BY DEF None
  <2> QED
    BY <1>1, <2>1, <2>2 DEF ClientTypes
<1>3. Threads
  BY <1>1 DEF Threads, Thread, None
<1>4. ASSUME NEW p \in Ranks  PROVE ComputeScript(p) /\ OthersScript(p)
  BY <1>1, TwoThreads DEF ComputeScript, OthersScript, None
<1>5. ASSUME NEW q \in Ranks  PROVE Arrived(q)
  <2>1. inbox[q].src_rank = NoRank
    BY <1>1 DEF EmptyInbox
  <2> QED
    BY <1>1, <2>1, NoRankNotRank DEF Arrived
<1> QED
  BY <1>2, <1>3, <1>4, <1>5 DEF ClientInv

(* The protocol begins where rpBenchmark2 begins. *)
LEMMA ProtocolBegins == Init => P!Init
<1> SUFFICES ASSUME Init  PROVE P!Init
  OBVIOUS
<1>1. /\ pc = [p \in Ranks |-> [w \in Workers |-> "idle"]]
      /\ inbox = [q \in Ranks |-> EmptyInbox] /\ rpc = [q \in Ranks |-> "idle"]
      /\ box_full = 0 /\ router_pc = "wait"
      /\ out = [p \in Ranks |-> [w \in Workers |-> None]]
      /\ sent = [p \in Ranks |-> 0] /\ awaiting = [p \in Ranks |-> FALSE]
      /\ got = [p \in Ranks |-> None]
  BY DEF Init, ComInit
<1>2. \A q \in Ranks : BoxOf(q) = <<>>
  <2> TAKE q \in Ranks
  <2>1. InboxLetters(q) = <<>> /\ MailboxLetters(q) = <<>>
    BY <1>1 DEF InboxLetters, MailboxLetters, InTransit
  <2>2. BoxLetters(q) = <<>>
    BY <2>1, ConcatShort DEF BoxLetters
  <2> QED
    BY <2>2, BoxShape DEF PayloadsOf
<1>3. \A p \in Ranks : /\ ~Accepted(p, Compute) /\ ServingOf(p) = None
                       /\ CopiedBy(p) = None
  BY <1>1, TwoThreads DEF Accepted, At, ServingOf, CopiedBy
<1>4. /\ Boxes = [q \in Ranks |-> <<>>] /\ SentTo = [p \in Ranks |-> 0]
      /\ Serving = [p \in Ranks |-> None] /\ Gotten = [p \in Ranks |-> None]
  BY <1>1, <1>2, <1>3 DEF Boxes, SentTo, Serving, Gotten, None
<1>5. Waiting = [p \in Ranks |-> FALSE]
  BY <1>1, <1>3 DEF Waiting
<1> QED
  BY <1>4, <1>5, SameFields DEF Init, P!Init

(* The invariant of the whole holds at the beginning, *)
LEMMA DInit == Init => DInv
<1>1. Init => IInv
  BY InitInv DEF Init
<1> QED
  BY <1>1, ClientInvInit, ProtocolBegins, ProtocolKept DEF DInv

(* and every step keeps it: a step of rpBenchmark2 is one of com.c, of its *)
(* clients and of their protocol.                                          *)
LEMMA DStep == DInv /\ [Next]_vars => DInv'
<1> SUFFICES ASSUME DInv, [Next]_vars  PROVE DInv'
  OBVIOUS
<1>1. IInv /\ ClientInv /\ P!ProtocolInv /\ P!RightInv
  BY DEF DInv
<1>2. [ComNext]_comVars
  BY <1>1, ClientStep DEF ClientInv
<1>3. IInv'
  BY <1>1, <1>2, StepInv
<1>4. ClientInv'
  BY <1>1, ClientInvStep
<1>5. [P!Next]_P!vars
  BY <1>1, ProtocolRefined
<1>6. P!ProtocolInv' /\ P!RightInv'
  BY <1>1, <1>5, ProtocolKept
<1> QED
  BY <1>3, <1>4, <1>6 DEF DInv

(* The invariant of com.c, of its clients and of the protocol: it is       *)
(* inductive for all three together, and for none of them alone.           *)
THEOREM WholeInvariant == Spec => []DInv
BY DInit, DStep, PTL DEF Spec

(* rpBenchmark2 is a legal client of com.h: it prepares, fills, sends and  *)
(* finishes as com.h demands, calls com_finalize once its threads are      *)
(* done, and so has everything ComProofs proves.                           *)
THEOREM LegalClient == Spec => ComSpec
<1>1. Init => ComInit
  BY DEF Init
<1>2. DInv /\ [Next]_vars => [ComNext]_comVars
  BY ClientStep DEF DInv, ClientInv
<1> QED
  BY <1>1, <1>2, WholeInvariant, PTL DEF Spec, ComSpec
-----------------------------------------------------------------------------
(* What rpBenchmark2 promises, from the invariant of the protocol. *)

(* A process whose request or answer is under way has sent that request,   *)
(* and waits for the answer or is on its way out of com_send.              *)
LEMMA LastRequest ==
  ASSUME IInv, ClientInv, NEW p \in Ranks, Waiting[p]
  PROVE  /\ SentTo[p] - 1 = IF awaiting[p] THEN sent[p] - 1 ELSE sent[p]
         /\ ~awaiting[p] => pc[p][Compute] \in {"deliver", "release", "ready"}
<1>1. sent[p] \in Int /\ SentTo[p] = sent[p] + IF Accepted(p, Compute) THEN 1 ELSE 0
  <2>1. sent[p] \in 0 .. LastMessage + 1 /\ LastMessage + 1 \in Nat
    BY Constants DEF ClientInv, ClientTypes, LastMessage
  <2> QED
    BY <2>1 DEF SentTo
<1>2. CASE awaiting[p]
  <2>1. pc[p][Compute] = "idle"
    BY <1>2 DEF ClientInv, ComputeScript
  <2>2. ~Accepted(p, Compute)
    BY <2>1 DEF Accepted, At
  <2> QED
    BY <1>1, <1>2, <2>2
<1>3. CASE ~awaiting[p]
  <2>1. Accepted(p, Compute)
    BY <1>3, Zenon DEF Waiting
  <2>2. pc[p][Compute] \in {"deliver", "release", "ready"}
    BY <2>1 DEF Accepted, At
  <2> QED
    BY <1>1, <1>3, <2>1, <2>2
<1> QED
  BY <1>2, <1>3

(* A response in the slot answers the request its compute thread waits for *)
(* (response_slot_wait, rpBenchmark2/main.c:425-464).                      *)
LEMMA SlotRight == DInv => RightResponse
<1> SUFFICES ASSUME DInv, NEW p \in Ranks, NEW r \in slot[p]
             PROVE  /\ r.request_id = IF awaiting[p] THEN sent[p] - 1 ELSE sent[p]
                    /\ ~awaiting[p] => pc[p][Compute] \in {"deliver", "release", "ready"}
  BY DEF RightResponse
<1>1. r.request_id = SentTo[p] - 1
  BY SameFields DEF DInv, P!RightInv
<1>2. Waiting[p]
  <2>1. ~Waiting[p] => P!Nowhere(p)
    BY SameFields DEF DInv, P!ProtocolInv, P!PlaceInv
  <2> QED
    BY <2>1 DEF P!Nowhere, P!InSlot
<1> QED
  BY <1>1, <1>2, LastRequest DEF DInv

(* What com_recv has copied is whole and meant for its receiver.           *)
LEMMA CopiedRight == DInv => ReceivedWhole
<1> SUFFICES ASSUME DInv, NEW p \in Ranks, rpc[p] \in {"clear", "ack"},
                    NEW m, m = rcv[p].msg, NEW q, q = rcv[p].sender_rank
             PROVE  /\ m \in DbMessage /\ m.source_rank = q
                    /\ rcv[p].size = SizeOf(m)
                    /\ m.type = "REQUEST" =>
                         /\ m.request_id = sent[q] - (IF awaiting[q] THEN 1 ELSE 0)
                         /\ Target(q, m.request_id) = p
                    /\ m.type = "RESPONSE" =>
                         Target(p, m.request_id) = q /\ m.key = Key(p, m.request_id)
                    /\ m.type = "LOCAL_DONE" <=> p = q
  BY DEF ReceivedWhole
<1>1. m \in DbMessage /\ m.source_rank = q /\ rcv[p].size = SizeOf(m)
  BY DEF DInv, ClientInv, Arrived
<1>2. q \in Ranks /\ m.type \in {"REQUEST", "RESPONSE", "STOP", "LOCAL_DONE"}
  BY <1>1, Kinds
<1>3. m \in Gotten[p]
  BY DEF Gotten, CopiedBy
<1>4. P!Right(m, p, SentTo)
  BY <1>3, SameFields DEF DInv, P!RightInv
<1>5. ASSUME m.type = "REQUEST"
      PROVE  /\ m.request_id = sent[q] - (IF awaiting[q] THEN 1 ELSE 0)
             /\ Target(q, m.request_id) = p
  <2>1. m.request_id = SentTo[q] - 1 /\ Target(q, m.request_id) = p
    BY <1>1, <1>4, <1>5, SameFields DEF P!Right
  <2>2. p \in P!InDispatch(q)
    BY <1>1, <1>3, <1>5, SameFields DEF P!InDispatch, P!Concerns
  <2>3. Waiting[q]
    <3>1. ~Waiting[q] => P!Nowhere(q)
      BY <1>2, SameFields DEF DInv, P!ProtocolInv, P!PlaceInv
    <3> QED
      BY <2>2, <3>1 DEF P!Nowhere
  <2>4. sent[q] \in Int
    <3>1. sent[q] \in 0 .. LastMessage + 1 /\ LastMessage + 1 \in Nat
      BY <1>2, Constants DEF DInv, ClientInv, ClientTypes, LastMessage
    <3> QED
      BY <3>1
  <2> QED
    BY <1>2, <2>1, <2>3, <2>4, LastRequest DEF DInv
<1>6. ASSUME m.type = "RESPONSE"
      PROVE  Target(p, m.request_id) = q /\ m.key = Key(p, m.request_id)
  BY <1>1, <1>4, <1>6, SameFields DEF P!Right
<1>7. ASSUME m.type = "RESPONSE"  PROVE p # q
  <2>1. \A n \in P!DbMessage : n.type = "RESPONSE" => n.request_id \in 0 .. Requests - 1
    BY P!Kinds, Constants
  <2>2. m.request_id \in Nat
    BY <1>1, <1>7, <2>1, SameScript, Constants
  <2>3. \A a \in P!Ranks : \A n \in Nat : P!Target(a, n) # a
    BY P!TargetIsOther, Constants
  <2> QED
    BY <1>6, <1>7, <2>2, <2>3, SameFields
<1>8. ASSUME m.type = "REQUEST"  PROVE p # q
  BY <1>1, <1>3, <1>8, SameFields DEF DInv, P!ProtocolInv, P!ContentInv
<1>9. ASSUME m.type \in {"STOP", "LOCAL_DONE"}  PROVE m.type = "LOCAL_DONE" <=> p = q
  BY <1>1, <1>3, <1>9, SameFields DEF DInv, P!ProtocolInv, P!FinalInv, P!IsControl
<1> QED
  BY <1>1, <1>2, <1>5, <1>6, <1>7, <1>8, <1>9

(* The compute thread never takes the response to another request from the *)
(* slot ("expected request_id", rpBenchmark2/main.c:457-463).              *)
THEOREM ResponseIsRight == Spec => []RightResponse
BY WholeInvariant, SlotRight, PTL

(* com_recv returns whole messages of two sizes from a segment two threads *)
(* share, each meant for the process that receives it (the checks of       *)
(* receiver_thread_main, rpBenchmark2/main.c:706-784).                     *)
THEOREM ReceivedIsWhole == Spec => []ReceivedWhole
BY WholeInvariant, CopiedRight, PTL
-----------------------------------------------------------------------------
(* DistDb implements DbProtocol: the instance of the proofs and the one    *)
(* DistDb states its refinement with are the same specification.           *)

(* Their messages. *)
LEMMA SameWords ==
  /\ P!LastMessage = Protocol!LastMessage /\ P!Ranks = Protocol!Ranks /\ P!None = Protocol!None
  /\ \A p, n : P!Message(p, n) = Protocol!Message(p, n)
  /\ \A p, n : P!Dest(p, n) = Protocol!Dest(p, n)
  /\ \A p, m : P!Response(p, m) = Protocol!Response(p, m)
  /\ \A s, b : P!ChecksumValid(s, b) <=> Protocol!ChecksumValid(s, b)
<1>1. P!LastMessage = Protocol!LastMessage /\ P!Ranks = Protocol!Ranks /\ P!None = Protocol!None
  BY DEF P!LastMessage, Protocol!LastMessage, P!Ranks, Protocol!Ranks, P!None, Protocol!None
<1>2. \A p, m : P!Response(p, m) = Protocol!Response(p, m)
  BY DEF P!Response, Protocol!Response, P!Header, Protocol!Header,
         P!FillResponse, Protocol!FillResponse, P!Byte, Protocol!Byte
<1>3. \A p, n : P!Dest(p, n) = Protocol!Dest(p, n)
  BY <1>1 DEF P!Dest, Protocol!Dest, P!OtherRank, Protocol!OtherRank, P!Target, Protocol!Target
<1>4. \A p, n : P!Message(p, n) = Protocol!Message(p, n)
  <2>1. \A p, n : P!Request(p, n, ResponseSize) = Protocol!Request(p, n, ResponseSize)
    BY DEF P!Request, Protocol!Request, P!Header, Protocol!Header, P!Key, Protocol!Key,
           P!NoBytes, Protocol!NoBytes
  <2>2. \A p, type : P!Control(p, type) = Protocol!Control(p, type)
    BY DEF P!Control, Protocol!Control, P!Header, Protocol!Header, P!NoBytes, Protocol!NoBytes
  <2> QED
    BY <1>1, <2>1, <2>2 DEF P!Message, Protocol!Message
<1>5. \A s, b : P!ChecksumValid(s, b) <=> Protocol!ChecksumValid(s, b)
  BY DEF P!ChecksumValid, Protocol!ChecksumValid, P!ChecksumPayload, Protocol!ChecksumPayload,
         P!MapThenSumSet, Protocol!MapThenSumSet, P!MapThenFoldSet, Protocol!MapThenFoldSet
<1> QED
  BY <1>1, <1>2, <1>3, <1>4, <1>5

(* Their first states. *)
LEMMA SameInit == P!Init => Protocol!Init
BY SameWords DEF P!Init, Protocol!Init, Boxes, SentTo, Waiting, Serving, Gotten

(* What a thread does that sends. *)
LEMMA SamePost == \A p, q, m : P!Post(p, q, m) => Protocol!Post(p, q, m)
BY SameWords DEF P!Post, Protocol!Post, P!MayPost, Protocol!MayPost, P!Uncopied, Protocol!Uncopied,
                 P!MailboxFree, Protocol!MailboxFree, Boxes

(* The steps of a compute thread, *)
LEMMA SameCompute == \A p : P!ComputeThread(p) => Protocol!ComputeThread(p)
<1> USE SameWords DEF P!computeVars, Protocol!computeVars, P!handlerVars, Protocol!handlerVars,
       P!receiverVars, Protocol!receiverVars, Boxes, SentTo, Waiting, Serving, Gotten
<1>1. \A p : P!ComputePost(p) => Protocol!ComputePost(p)
  BY SamePost DEF P!ComputePost, Protocol!ComputePost
<1>2. \A p : P!TakeResponse(p) => Protocol!TakeResponse(p)
  BY DEF P!TakeResponse, Protocol!TakeResponse
<1> QED
  BY <1>1, <1>2 DEF P!ComputeThread, Protocol!ComputeThread

(* of a request handler, *)
LEMMA SameHandler == \A p : P!HandlerThread(p) => Protocol!HandlerThread(p)
<1> USE SameWords DEF P!computeVars, Protocol!computeVars, P!handlerVars, Protocol!handlerVars,
       P!receiverVars, Protocol!receiverVars, Boxes, SentTo, Waiting, Serving, Gotten
<1>1. \A p : P!TakeRequest(p) => Protocol!TakeRequest(p)
  BY DEF P!TakeRequest, Protocol!TakeRequest
<1>2. \A p : P!Reply(p) => Protocol!Reply(p)
  BY SamePost DEF P!Reply, Protocol!Reply
<1>3. \A p : P!HandlerReturns(p) => Protocol!HandlerReturns(p)
  BY SMTT(40) DEF P!HandlerReturns, Protocol!HandlerReturns
<1> QED
  BY SMTT(40), <1>1, <1>2, <1>3 DEF P!HandlerThread, Protocol!HandlerThread

(* and of a receiver. *)
LEMMA SameReceiver == \A p : P!ReceiverThread(p) => Protocol!ReceiverThread(p)
<1> USE SameWords DEF P!computeVars, Protocol!computeVars, P!handlerVars, Protocol!handlerVars,
       P!receiverVars, Protocol!receiverVars, Boxes, SentTo, Waiting, Serving, Gotten
<1>1. \A p : P!Receive(p) => Protocol!Receive(p)
  BY DEF P!Receive, Protocol!Receive, P!AllStopped, Protocol!AllStopped
<1>2. \A p : P!Dispatch(p) => Protocol!Dispatch(p)
  BY ZenonT(40) DEF P!Dispatch, Protocol!Dispatch, P!PushRequest, Protocol!PushRequest,
     P!SetResponse, Protocol!SetResponse, P!CountStop, Protocol!CountStop, P!NoteLocalDone,
     Protocol!NoteLocalDone
<1>3. \A p : P!ReceiverReturns(p) => Protocol!ReceiverReturns(p)
  BY DEF P!ReceiverReturns, Protocol!ReceiverReturns,
     P!AllStopped, Protocol!AllStopped
<1> QED
  BY <1>1, <1>2, <1>3 DEF P!ReceiverThread, Protocol!ReceiverThread

(* Their steps. *)
LEMMA SameSteps == [P!Next]_P!vars => [Protocol!Next]_Protocol!vars
<1>1. UNCHANGED P!vars => UNCHANGED Protocol!vars
  BY DEF P!vars, Protocol!vars, P!computeVars, Protocol!computeVars, P!handlerVars,
         Protocol!handlerVars, P!receiverVars, Protocol!receiverVars,
         Boxes, SentTo, Waiting, Serving, Gotten
<1>2. P!Next => Protocol!Next \/ UNCHANGED P!vars
  BY SameWords, SameCompute, SameHandler, SameReceiver DEF P!Next, Protocol!Next, P!Terminated
<1> QED
  BY <1>1, <1>2

(* The steps of rpBenchmark2 over com.c are those of DbProtocol: the       *)
(* safety part of ImplementsProtocol.                                      *)
THEOREM ProtocolImplemented == Spec => Protocol!Safety
<1>1. Init => Protocol!Init
  BY ProtocolBegins, SameInit
<1>2. DInv /\ [Next]_vars => [Protocol!Next]_Protocol!vars
  BY ProtocolRefined, SameSteps DEF DInv
<1> QED
  BY <1>1, <1>2, WholeInvariant, PTL DEF Spec, Protocol!Safety

(* com.h keeps its promises to rpBenchmark2, where two threads of each     *)
(* process send through one segment: nobody reads it while it is written,  *)
(* acknowledgements balance, and no run-time check of com.c fails.         *)
THEOREM LayerHolds ==
  Spec => [](SegmentQuiet /\ AcksBalance /\ MailboxExclusive /\ ReadsInBounds /\ ChecksNeverFail)
BY LegalClient, SegmentsQuiet, AcksBalanced, MailboxExclusion, ReadsWithinBounds, ChecksHold, PTL

(* The whole program has one answer under way for each process that waits, *)
(* a receiver that finds room for what it has just got, and nothing under  *)
(* way to a process whose receiver has returned.                           *)
THEOREM ProtocolHolds ==
  Spec => [](P!OneAnswerEach /\ P!DispatchNeverBlocks /\ P!NothingAfterClose)
<1>1. P!ProtocolInv => P!OneAnswerEach
  BY P!Answered, Constants
<1>2. P!ProtocolInv => P!DispatchNeverBlocks
  BY P!NeverBlocks, Constants
<1>3. P!ProtocolInv => P!NothingAfterClose
  BY P!Quiet, Constants
<1>4. DInv => P!OneAnswerEach /\ P!DispatchNeverBlocks /\ P!NothingAfterClose
  BY <1>1, <1>2, <1>3 DEF DInv
<1> QED
  BY <1>4, WholeInvariant, PTL
-----------------------------------------------------------------------------
(* Nobody waits for ever: the threads of the program wait for each other   *)
(* no longer than those of the protocol, for com.h keeps none of them      *)
(* waiting when the receivers have nothing to do.                          *)

(* com_finalize is called when the threads are joined, and they stay so. *)
LeftInv == \A p \in Ranks : fpc[p] # "run" => Joined(p)

LEMMA LeftStep ==
  ASSUME DInv, LeftInv, [Next]_vars
  PROVE  LeftInv'
<1>1. /\ LockInv /\ fpc \in [Ranks -> {"run", "drain", "count", "stop", "sentinel", "gone"}]
      /\ sent \in [Ranks -> 0 .. LastMessage + 1]
  BY DEF DInv, IInv, TypeInv, TypeOK, ClientInv, ClientTypes
<1>2. closed \in [Ranks -> BOOLEAN] /\ handled \in [Ranks -> BOOLEAN]
  BY SameFields DEF DInv, P!ProtocolInv, P!TypeInv
<1>3. ASSUME UNCHANGED <<fpc, sent>>, \A r \in Ranks : (closed[r] => closed'[r]) /\ (handled[r] => handled'[r])
      PROVE  LeftInv'
  BY <1>3 DEF LeftInv, Joined, ComputeDone
<1>4. ASSUME NEW p \in Ranks, ComputeSent(p)  PROVE LeftInv'
  <2>1. /\ pc[p][Compute] = "ready" /\ UNCHANGED <<fpc, closed, handled>>
        /\ sent' = [sent EXCEPT ![p] = @ + 1]
    BY <1>4 DEF ComputeSent, FinishSend, FinishBuffer, At, finVars
  <2>2. fpc[p] = "run"
    BY <1>1, <2>1, TwoThreads DEF LockInv
  <2>3. \A r \in Ranks \ {p} : sent'[r] = sent[r]
    BY <1>1, <2>1
  <2> QED
    BY <2>1, <2>2, <2>3 DEF LeftInv, Joined, ComputeDone
<1>5. ASSUME NEW p \in Ranks, HandlerReturns(p)  PROVE LeftInv'
  <2>1. UNCHANGED <<fpc, sent, closed>> /\ handled' = [handled EXCEPT ![p] = TRUE]
    BY <1>5 DEF HandlerReturns, comVars, finVars, computeVars
  <2>2. \A r \in Ranks : handled[r] => handled'[r]
    BY <1>2, <2>1
  <2> QED
    BY <1>3, <2>1, <2>2
<1>6. ASSUME NEW p \in Ranks, ReceiverReturns(p)  PROVE LeftInv'
  <2>1. UNCHANGED <<fpc, sent, handled>> /\ closed' = [closed EXCEPT ![p] = TRUE]
    BY <1>6 DEF ReceiverReturns, comVars, finVars, computeVars
  <2>2. \A r \in Ranks : closed[r] => closed'[r]
    BY <1>2, <2>1
  <2> QED
    BY <1>3, <2>1, <2>2
<1>7. ASSUME NEW p \in Ranks, MainThread(p)  PROVE LeftInv'
  <2>1. /\ Joined(p) \/ fpc[p] # "run"
        /\ \A r \in Ranks \ {p} : fpc'[r] = fpc[r]
        /\ UNCHANGED <<sent, closed, handled>>
    BY <1>1, <1>7 DEF MainThread, BeginFinalize, FinalizeStep, FinalizeAwaitAck, FinalizeLock,
                      FinalizeCount, StopAcquireBox, PostSentinel, FinAt, clientVars, computeVars, finVars
  <2> QED
    BY <2>1 DEF LeftInv, Joined, ComputeDone
<1>8. ASSUME NEW p \in Ranks, NEW w \in Workers, Sending(p, w)  PROVE UNCHANGED <<fpc, sent, closed, handled>>
  BY <1>8 DEF Sending, WriteMessage, SendMessage, Fill, Send, SendStep, LockBuffer, AwaitAck,
              MapBuffer, AcquireBox, PostRequest, AwaitDelivered, ReleaseBox,
              clientVars, computeVars, finVars
<1>9. ASSUME NEW p \in Ranks, \/ ComputeSend(p) \/ TakeResponse(p)
                              \/ HandleRequest(p) \/ RequestHandled(p)
                              \/ Receive(p) \/ Received(p) \/ Dispatch(p)
                              \/ (CopyPayload(p) \/ ClearInbox(p)) /\ UNCHANGED clientVars
      PROVE  UNCHANGED <<fpc, sent, closed, handled>>
  BY <1>9 DEF ComputeSend, StartSend, Prepare, TakeResponse, HandleRequest, RequestHandled, FinishSend,
              FinishBuffer, Receive, Received, Dispatch, AwaitMessage, CopyPayload, ClearInbox, PostAck,
              comVars, clientVars, computeVars, finVars
<1>10. ASSUME Router \/ UNCHANGED vars  PROVE UNCHANGED <<fpc, sent, closed, handled>>
  BY <1>10 DEF Router, RouterStep, RouterTake, RouterReserve, RouterForward, RouterConfirm,
               clientVars, computeVars, finVars, vars, comVars
<1>11. ASSUME UNCHANGED <<fpc, sent, closed, handled>>  PROVE LeftInv'
  BY <1>3, <1>11
<1>12. ASSUME NEW p \in Ranks, ComputeThread(p)  PROVE LeftInv'
  BY <1>4, <1>8, <1>9, <1>11, <1>12, TwoThreads DEF ComputeThread
<1>13. ASSUME NEW p \in Ranks, HandlerThread(p)  PROVE LeftInv'
  BY <1>5, <1>8, <1>9, <1>11, <1>13, TwoThreads DEF HandlerThread
<1>14. ASSUME NEW p \in Ranks, ReceiverThread(p)  PROVE LeftInv'
  <2>1. CASE ReceiverReturns(p)
    BY <1>6, <2>1
  <2>2. CASE \/ Receive(p) \/ Received(p) \/ Dispatch(p)
             \/ (CopyPayload(p) \/ ClearInbox(p)) /\ UNCHANGED clientVars
    <3>1. UNCHANGED <<fpc, sent, closed, handled>>
      BY <1>9, <2>2
    <3> QED
      BY <1>11, <3>1
  <2> QED
    BY <1>14, <2>1, <2>2 DEF ReceiverThread
<1> QED
  BY <1>7, <1>10, <1>11, <1>12, <1>13, <1>14 DEF Next, Terminated

(* A message in an inbox, or in a receiver's hands, is one its receiver    *)
(* still has to pass on, and may.                                          *)
LEMMA ReceiverGoesOn ==
  ASSUME DInv, LeftInv, NEW p \in Ranks, slot_full[p] > 0 \/ got[p] # None
  PROVE  ReceiverReady(p)
<1>1. P!ProtocolInv /\ ClientTypes /\ IInv
  BY DEF DInv, ClientInv
<1>2. CASE got[p] # None
  <2>1. PICK m \in got[p] : m \in DbMessage
    BY <1>1, <1>2 DEF ClientTypes, None
  <2>2. m \in Gotten[p]
    BY DEF Gotten
  <2>3. P!DispatchNeverBlocks
    BY <1>1, P!NeverBlocks, Constants
  <2>4. /\ m.type = "REQUEST" => Len(queue[p]) < Capacity
        /\ m.type = "RESPONSE" => slot[p] = None /\ ChecksumValid(m.response_size, m.bytes)
    BY <2>2, <2>3, SameFields DEF P!DispatchNeverBlocks
  <2>5. MayDispatch(p, m)
    BY Zenon, <2>4 DEF MayDispatch
  <2> QED
    BY <2>5 DEF ReceiverReady
<1>3. CASE got[p] = None /\ slot_full[p] > 0 /\ rpc[p] = "idle"
  <2>1. inbox[p] # EmptyInbox
    <3>1. slot_full[p] = 1
      BY <1>1, <1>3 DEF IInv, SlotInv
    <3>2. inbox[p].src_rank \in Ranks
      BY <1>1, <3>1 DEF IInv, SlotInv, Valid
    <3> QED
      BY <3>2, NoRankNotRank DEF EmptyInbox
  <2>2. Boxes[p] # <<>>
    <3>1. PICK x : InboxLetters(p) = <<x>>
      BY <1>3, <2>1 DEF InboxLetters, Letter
    <3>2. MailboxLetters(p) = <<>> \/ \E y : MailboxLetters(p) = <<y>>
      BY DEF MailboxLetters, Letter
    <3>3. BoxLetters(p) = <<x>> \/ \E y : BoxLetters(p) = <<x, y>>
      BY <3>1, <3>2, ConcatShort DEF BoxLetters
    <3>4. DOMAIN BoxLetters(p) # {}
      BY <3>3
    <3>5. BoxOf(p) = PayloadsOf(BoxLetters(p))
      BY BoxShape
    <3>6. DOMAIN BoxOf(p) # {}
      BY <3>4, <3>5 DEF PayloadsOf
    <3>7. BoxOf(p) # <<>>
      BY <3>6
    <3> QED
      BY <3>7 DEF Boxes
  <2>3. ~AllStopped(p)
    <3>1. P!AllStopped(p) => Boxes[p] = <<>>
      BY <1>1, P!NothingLeft, Constants, SameFields
    <3> QED
      BY <2>2, <3>1 DEF P!AllStopped, AllStopped
  <2>4. fpc[p] = "run"
    <3>1. P!NothingAfterClose
      BY <1>1, P!Quiet, Constants
    <3>2. ~closed[p]
      BY <2>2, <3>1, SameFields DEF P!NothingAfterClose
    <3> QED
      BY <3>2 DEF LeftInv, Joined
  <2> QED
    BY <1>3, <2>3, <2>4 DEF ReceiverReady
<1> QED
  BY <1>2, <1>3 DEF ReceiverReady

(* When no receiver has anything to do, the layer keeps no thread waiting, *)
(* nothing is under way in it, and what the program still waits for its    *)
(* protocol waits for.                                                     *)
LEMMA ProgramGoesOn ==
  ASSUME DInv, LeftInv, PermitsHeld, ~RouterReady,
         \A p \in Ranks : ~ComputeReady(p) /\ ~HandlerReady(p) /\ ~ReceiverReady(p) /\ ~MainReady(p)
  PROVE  AllGone
<1>1. /\ P!ProtocolInv /\ ClientTypes /\ IInv /\ Threads /\ \A w \in Workers : w \in {Compute, Handler}
      /\ \A p \in Ranks : OthersScript(p)
  BY DistDbAssumption DEF DInv, ClientInv
<1>2. \A q \in Ranks : rpc[q] = "idle" /\ slot_full[q] = 0 /\ got[q] = None
  <2> TAKE q \in Ranks
  <2>1. rpc[q] = "idle"
    BY DEF ReceiverReady
  <2>2. slot_full[q] \in {0, 1}
    BY <1>1 DEF IInv, SlotInv
  <2>3. ~(slot_full[q] > 0) /\ got[q] = None
    BY ReceiverGoesOn
  <2> QED
    BY <2>1, <2>2, <2>3
<1>3. \A p \in Ranks : \A w \in Workers : ~SendingReady(p, w)
  BY <1>1 DEF ComputeReady, HandlerReady
<1>4. \A p \in Ranks : ~FinalizeReady(p) /\ \A w \in Workers : ~SendStepReady(p, w)
  BY <1>3 DEF SendingReady, MainReady
<1>5. /\ \A p \in Ranks : fpc[p] \in {"run", "gone"}
      /\ \A p \in Ranks, w \in Workers :
           /\ pc[p][w] \in {"idle", "lock", "fill", "ready"}
           /\ pc[p][w] = "lock" => \E v \in Workers : pc[p][v] \in {"fill", "ready"}
      /\ ~InTransit /\ \A q \in Ranks : inbox[q] = EmptyInbox
      /\ (\A p \in Ranks : fpc[p] = "gone") => router_pc = "stopped"
  BY <1>1, <1>2, <1>4, LayerIdle
<1>6. \A p \in Ranks, w \in Workers : pc[p][w] = "idle" /\ out[p][w] = None
  <2> TAKE p \in Ranks, w \in Workers
  <2>1. \A v \in Workers : pc[p][v] \notin {"fill", "ready"}
    BY <1>3 DEF SendingReady
  <2>2. pc[p][w] = "idle"
    BY <1>5, <2>1
  <2> QED
    BY <1>1, <2>2 DEF Threads, Thread
<1>7. \A p \in Ranks : pc[p][Compute] = "idle" /\ pc[p][Handler] = "idle" /\ out[p][Handler] = None
  BY <1>6, TwoThreads
<1>8. \A p \in Ranks : Joined(p) \/ fpc[p] = "run"
  BY DEF LeftInv
<1>9. \A p \in Ranks : /\ Boxes[p] = <<>> /\ Gotten[p] = None /\ Serving[p] = None
                       /\ SentTo[p] = sent[p] /\ Waiting[p] = awaiting[p]
  <2> TAKE p \in Ranks
  <2>1. Boxes[p] = <<>>
    <3>1. InboxLetters(p) = <<>> /\ MailboxLetters(p) = <<>>
      BY <1>5 DEF InboxLetters, MailboxLetters
    <3>2. BoxLetters(p) = <<>>
      BY <3>1, ConcatShort DEF BoxLetters
    <3>3. BoxOf(p) = PayloadsOf(<<>>)
      BY <3>2, BoxShape
    <3>4. BoxOf(p) = <<>>
      BY <3>3 DEF PayloadsOf
    <3> QED
      BY <3>4 DEF Boxes
  <2>2. Gotten[p] = None
    BY <1>2 DEF Gotten, CopiedBy, None
  <2>3. Serving[p] = None
    BY <1>7 DEF Serving, ServingOf
  <2>4. ~Accepted(p, Compute)
    BY <1>7 DEF Accepted, At
  <2>5. sent[p] \in 0 .. LastMessage + 1 /\ LastMessage \in Nat
    BY <1>1, Constants DEF ClientTypes, LastMessage
  <2>6. SentTo[p] = sent[p]
    BY <2>4, <2>5 DEF SentTo
  <2>7. Waiting[p] = awaiting[p]
    BY <1>1, <2>4 DEF Waiting, ClientTypes
  <2> QED
    BY <2>1, <2>2, <2>3, <2>6, <2>7
<1>10. \A p \in Ranks : ~P!ComputeReady(p)
  <2> SUFFICES ASSUME NEW p \in Ranks, P!ComputeReady(p)  PROVE FALSE
    OBVIOUS
  <2>1. CASE awaiting[p]
    <3>1. slot[p] # None
      BY <1>9, <2>1, SameFields DEF P!ComputeReady
    <3> QED
      BY <2>1, <3>1 DEF ComputeReady
  <2>2. CASE ~awaiting[p]
    <3>1. sent[p] <= LastMessage
      BY <1>9, <2>2, SameFields DEF P!ComputeReady
    <3>2. LastMessage \in Nat /\ sent[p] \in 0 .. LastMessage + 1
      BY <1>1, Constants DEF LastMessage, ClientTypes
    <3>3. fpc[p] = "run"
      BY <1>8, <3>1, <3>2 DEF Joined, ComputeDone
    <3> QED
      BY <1>7, <2>2, <3>1, <3>3 DEF ComputeReady
  <2> QED
    BY <2>1, <2>2
<1>11. \A p \in Ranks : ~P!HandlerReady(p)
  <2> SUFFICES ASSUME NEW p \in Ranks, P!HandlerReady(p)  PROVE FALSE
    OBVIOUS
  <2>1. queue[p] # <<>> \/ (closed[p] /\ ~handled[p])
    BY <1>9, SameFields DEF P!HandlerReady
  <2>2. closed[p] => queue[p] = <<>>
    BY <1>1, NothingQueued
  <2>3. queue[p] # <<>> => fpc[p] = "run"
    BY <1>8, <2>2 DEF Joined
  <2> QED
    BY <1>7, <2>1, <2>2, <2>3 DEF HandlerReady
<1>12. \A p \in Ranks : ~P!ReceiverReady(p)
  <2> SUFFICES ASSUME NEW p \in Ranks, P!ReceiverReady(p)  PROVE FALSE
    OBVIOUS
  <2>1. P!AllStopped(p) /\ ~closed[p]
    BY <1>9, SameFields DEF P!ReceiverReady
  <2>2. AllStopped(p)
    BY <2>1 DEF P!AllStopped, AllStopped
  <2> QED
    BY <1>2, <2>1, <2>2 DEF ReceiverReady
<1>13. \A p \in Ranks : Joined(p)
  <2>1. P!AllJoined
    BY <1>1, <1>10, <1>11, <1>12, P!SomebodyGoesOn, Constants, SameFields
  <2> QED
    BY <1>9, <2>1, SameFields DEF P!AllJoined, P!ComputeDone, Joined, ComputeDone
<1>14. \A p \in Ranks : fpc[p] = "gone"
  <2> SUFFICES ASSUME NEW p \in Ranks, fpc[p] = "run"  PROVE FALSE
    BY <1>5
  <2>1. BeginFinalizeReady(p)
    BY <1>2, <1>6 DEF BeginFinalizeReady
  <2> QED
    BY <1>13, <2>1 DEF MainReady
<1> QED
  BY <1>5, <1>14 DEF AllGone

(* Never, for any number of processes and requests, any size of a response *)
(* and any queue of at least NProc - 1 places, do the compute threads, the *)
(* handlers, the receivers, the router and com_finalize all wait for each  *)
(* other (rpBenchmark2/main.c:559-800 over com.c); and a receiver with a   *)
(* message waits for nobody.                                               *)
THEOREM ProgramNeverStuck == Spec => []NeverStuck
<1>1. Init => PermitsHeld /\ LeftInv
  BY PermitsInit DEF Init, ComInit, LeftInv
<1>2. DInv /\ PermitsHeld /\ LeftInv /\ [Next]_vars => PermitsHeld' /\ LeftInv'
  <2> SUFFICES ASSUME DInv, PermitsHeld, LeftInv, [Next]_vars  PROVE PermitsHeld' /\ LeftInv'
    OBVIOUS
  <2>1. [ComNext]_comVars
    BY ClientStep DEF DInv, ClientInv
  <2>2. PermitsHeld'
    BY <2>1, PermitsStep DEF DInv
  <2> QED
    BY <2>2, LeftStep
<1>3. DInv /\ PermitsHeld /\ LeftInv => NeverStuck
  BY ReceiverGoesOn, ProgramGoesOn DEF NeverStuck
<1> QED
  BY <1>1, <1>2, <1>3, WholeInvariant, PTL DEF Spec
=============================================================================
