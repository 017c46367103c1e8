------------------------------- MODULE DistDb -------------------------------
(***************************************************************************)
(* rpBenchmark2: in every process a compute thread sends requests to the   *)
(* other processes and waits for each answer, a request handler answers    *)
(* the requests of others, and a receiver hands what arrives to one or     *)
(* the other.  The compute thread ends with a STOP to everybody else and a *)
(* LOCAL_DONE to its own receiver.                                         *)
(*                                                                         *)
(* Two threads of a process send through one buffer.  Every step of theirs *)
(* inside com.h is a Com action; the request queue is the closable FIFO    *)
(* that RequestQueue implements, the response slot the buffer of one place *)
(* that ResponseSlot implements.                                           *)
(***************************************************************************)
EXTENDS Com

CONSTANTS
  Compute, Handler,   \* the two threads of a process that send
  HeaderSize,         \* sizeof(MessageHeader)
  ResponseSize,       \* response_size
  Requests,           \* requests_per_process
  Capacity            \* REQUEST_QUEUE_CAPACITY

INSTANCE DbScript

ASSUME DistDbAssumption ==
  /\ NProc >= 2
  /\ Compute # Handler /\ Workers = {Compute, Handler}
  /\ HeaderSize \in Nat \ {0}
  /\ Requests \in Nat \ {0}
  /\ ResponseSize \in Nat /\ ResponseSize > 1    \* what happens with 1 is in ComputeLoop
  /\ Sizes = {HeaderSize, HeaderSize + ResponseSize}
  /\ DbMessage \subseteq Data
  /\ Capacity \in Nat /\ Capacity >= NProc - 1    \* 1024, and at most 1024 processes

VARIABLES
  out,           \* out[p][w]: what thread w still has to send, and where to
  sent,          \* sent[p]: messages the compute thread has sent
  awaiting,      \* awaiting[p]: it is in response_slot_wait
  slot,          \* slot[p]: the response slot
  queue, closed, \* the request queue
  handled,       \* handled[p]: the request handler has returned
  got,           \* got[p]: what com_recv returned and the receiver dispatches
  stops,         \* remote_stop_count
  local_done

computeVars  == <<sent, awaiting>>
receiverVars == <<got, stops, local_done>>
clientVars   == <<out, computeVars, slot, queue, closed, handled, receiverVars>>
vars == <<comVars, clientVars>>
-----------------------------------------------------------------------------
None == {}

Init ==
  /\ ComInit
  /\ out = [p \in Ranks |-> [w \in Workers |-> None]]
  /\ sent = [p \in Ranks |-> 0]
  /\ awaiting = [p \in Ranks |-> FALSE]
  /\ slot = [p \in Ranks |-> None]
  /\ queue = [p \in Ranks |-> <<>>]
  /\ closed = [p \in Ranks |-> FALSE]
  /\ handled = [p \in Ranks |-> FALSE]
  /\ got = [p \in Ranks |-> None]
  /\ stops = [p \in Ranks |-> 0]
  /\ local_done = [p \in Ranks |-> FALSE]

(* The bytes a message takes in a segment. *)
SizeOf(m) == HeaderSize + Cardinality(DOMAIN m.bytes)
-----------------------------------------------------------------------------
(* send_raw_message *)

StartSend(p, w, q, m) ==
  /\ Prepare(p, w, SizeOf(m))
  /\ out' = [out EXCEPT ![p][w] = {[dest |-> q, msg |-> m]}]

WriteMessage(p, w) ==
  /\ \E o \in out[p][w] : Fill(p, w, o.msg)
  /\ UNCHANGED clientVars

SendMessage(p, w) ==
  /\ \E o \in out[p][w] : Send(p, w, o.dest)
  /\ out' = [out EXCEPT ![p][w] = None]
  /\ UNCHANGED <<computeVars, slot, queue, closed, handled, receiverVars>>

FinishSend(p, w) == out[p][w] = None /\ FinishBuffer(p, w)

Sending(p, w) ==
  \/ WriteMessage(p, w)
  \/ SendMessage(p, w)
  \/ SendStep(p, w) /\ UNCHANGED clientVars
-----------------------------------------------------------------------------
(* compute_thread_main sends the messages of DbScript. *)

(* Mutant: sends without waiting for the response before. *)
ComputeSendEarly(p) ==
  /\ sent[p] <= LastMessage
  /\ StartSend(p, Compute, Dest(p, sent[p]), Message(p, sent[p]))
  /\ UNCHANGED <<computeVars, slot, queue, closed, handled, receiverVars>>

ComputeSend(p) ==
  /\ ~awaiting[p] /\ sent[p] <= LastMessage
  /\ StartSend(p, Compute, Dest(p, sent[p]), Message(p, sent[p]))
  /\ UNCHANGED <<computeVars, slot, queue, closed, handled, receiverVars>>

ComputeSent(p) ==
  /\ FinishSend(p, Compute)
  /\ sent' = [sent EXCEPT ![p] = @ + 1]
  /\ awaiting' = [awaiting EXCEPT ![p] = sent[p] < Requests]
  /\ UNCHANGED <<out, slot, queue, closed, handled, receiverVars>>

(* response_slot_wait *)
TakeResponse(p) ==
  /\ awaiting[p] /\ slot[p] # None
  /\ slot' = [slot EXCEPT ![p] = None]
  /\ awaiting' = [awaiting EXCEPT ![p] = FALSE]
  /\ UNCHANGED <<comVars, out, sent, queue, closed, handled, receiverVars>>

ComputeThread(p) ==
  \/ ComputeSend(p) \/ Sending(p, Compute) \/ ComputeSent(p) \/ TakeResponse(p)

ComputeDone(p) == sent[p] > LastMessage
-----------------------------------------------------------------------------
(* request_handler_thread_main *)

HandleRequest(p) ==
  /\ queue[p] # <<>>
  /\ LET m == Head(queue[p]) IN StartSend(p, Handler, m.source_rank, Response(p, m))
  /\ queue' = [queue EXCEPT ![p] = Tail(@)]
  /\ UNCHANGED <<computeVars, slot, closed, handled, receiverVars>>

RequestHandled(p) == FinishSend(p, Handler) /\ UNCHANGED clientVars

(* request_queue_pop returns 0. *)
HandlerReturns(p) ==
  /\ At(p, Handler, "idle") /\ ~handled[p]
  /\ closed[p] /\ queue[p] = <<>>
  /\ handled' = [handled EXCEPT ![p] = TRUE]
  /\ UNCHANGED <<comVars, out, computeVars, slot, queue, closed, receiverVars>>

HandlerThread(p) ==
  \/ HandleRequest(p) \/ Sending(p, Handler) \/ RequestHandled(p) \/ HandlerReturns(p)
-----------------------------------------------------------------------------
(* receiver_thread_main *)

(* Mutant: does not wait for the process's own compute thread. *)
AllStoppedRemote(p) == stops[p] = NProc - 1

(* The condition of its loop. *)
AllStopped(p) == stops[p] = NProc - 1 /\ local_done[p]

Receive(p) ==
  /\ got[p] = None /\ ~AllStopped(p)
  /\ AwaitMessage(p)
  /\ UNCHANGED clientVars

Received(p) ==
  /\ PostAck(p)
  /\ got' = [got EXCEPT ![p] = {rcv[p].msg}]
  /\ UNCHANGED <<out, computeVars, slot, queue, closed, handled, stops, local_done>>

PushRequest(p, m) ==
  /\ m.type = "REQUEST"
  /\ Len(queue[p]) < Capacity
  /\ queue' = [queue EXCEPT ![p] = Append(@, m)]
  /\ UNCHANGED <<slot, stops, local_done>>

SetResponse(p, m) ==
  /\ m.type = "RESPONSE" /\ ChecksumValid(m.response_size, m.bytes)
  /\ slot[p] = None
  /\ slot' = [slot EXCEPT ![p] = {[request_id |-> m.request_id, size |-> m.response_size]}]
  /\ UNCHANGED <<queue, stops, local_done>>

CountStop(p, m) ==
  /\ m.type = "STOP"
  /\ stops' = [stops EXCEPT ![p] = @ + 1]
  /\ UNCHANGED <<slot, queue, local_done>>

NoteLocalDone(p, m) ==
  /\ m.type = "LOCAL_DONE"
  /\ local_done' = [local_done EXCEPT ![p] = TRUE]
  /\ UNCHANGED <<slot, queue, stops>>

Dispatch(p) ==
  /\ \E m \in got[p] :
       PushRequest(p, m) \/ SetResponse(p, m) \/ CountStop(p, m) \/ NoteLocalDone(p, m)
  /\ got' = [got EXCEPT ![p] = None]
  /\ UNCHANGED <<comVars, out, computeVars, closed, handled>>

(* request_queue_close is the last thing the receiver does. *)
ReceiverReturns(p) ==
  /\ rpc[p] = "idle" /\ got[p] = None /\ AllStopped(p) /\ ~closed[p]
  /\ closed' = [closed EXCEPT ![p] = TRUE]
  /\ UNCHANGED <<comVars, out, computeVars, slot, queue, handled, got, stops, local_done>>

ReceiverThread(p) ==
  \/ Receive(p)
  \/ (CopyPayload(p) \/ ClearInbox(p)) /\ UNCHANGED clientVars
  \/ Received(p)
  \/ Dispatch(p)
  \/ ReceiverReturns(p)
-----------------------------------------------------------------------------
(* main: the three threads are joined, then com_finalize. *)
Joined(p) == ComputeDone(p) /\ closed[p] /\ handled[p]

MainThread(p) ==
  /\ \/ Joined(p) /\ BeginFinalize(p)
     \/ FinalizeStep(p)
  /\ UNCHANGED clientVars

Router == RouterStep /\ UNCHANGED clientVars

AllGone == router_pc = "stopped" /\ \A p \in Ranks : fpc[p] = "gone"

Terminated == AllGone /\ UNCHANGED vars

Next ==
  \/ \E p \in Ranks :
       ComputeThread(p) \/ HandlerThread(p) \/ ReceiverThread(p) \/ MainThread(p)
  \/ Router
  \/ Terminated

(* The kernel runs a thread that can run. *)
Fairness ==
  /\ \A p \in Ranks : /\ WF_vars(ComputeThread(p))
                      /\ WF_vars(HandlerThread(p))
                      /\ WF_vars(ReceiverThread(p))
                      /\ WF_vars(MainThread(p))
  /\ WF_vars(Router)

Spec == Init /\ [][Next]_vars /\ Fairness
-----------------------------------------------------------------------------
(* A response in the slot answers the request the compute thread waits     *)
(* for, or is just about to wait for: it can come before com_send of the   *)
(* request has returned.  "expected request_id" is never printed.          *)
RightResponse ==
  \A p \in Ranks : \A r \in slot[p] :
    /\ r.request_id = IF awaiting[p] THEN sent[p] - 1 ELSE sent[p]
    /\ ~awaiting[p] => pc[p][Compute] \in {"deliver", "release", "ready"}

(* A received message is whole and what its sender meant for this process, *)
(* although the two threads of the sender share one segment and messages   *)
(* of two sizes: "too small message", "response message size mismatch" and *)
(* "unknown message type" are never printed.                               *)
ReceivedWhole ==
  \A p \in Ranks : rpc[p] \in {"clear", "ack"} =>
    LET m == rcv[p].msg
        q == rcv[p].sender_rank
    IN /\ m \in DbMessage /\ m.source_rank = q
       /\ rcv[p].size = SizeOf(m)
       /\ m.type = "REQUEST"  => m.request_id = sent[q] - (IF awaiting[q] THEN 1 ELSE 0)
                                 /\ Target(q, m.request_id) = p
       /\ m.type = "RESPONSE" => Target(p, m.request_id) = q /\ m.key = Key(p, m.request_id)
       /\ m.type = "LOCAL_DONE" <=> p = q

(* What each thread waits for at the point it has come to.  The bound on   *)
(* message numbers is no wait of com_send.                                 *)
SendingReady(p, w) == pc[p][w] \in {"fill", "ready"} \/ SendStepReady(p, w)

ComputeReady(p) ==
  \/ awaiting[p] /\ slot[p] # None
  \/ ~awaiting[p] /\ sent[p] <= LastMessage /\ pc[p][Compute] = "idle" /\ fpc[p] = "run"
  \/ SendingReady(p, Compute)

HandlerReady(p) ==
  \/ pc[p][Handler] = "idle" /\ queue[p] # <<>> /\ fpc[p] = "run"
  \/ pc[p][Handler] = "idle" /\ queue[p] = <<>> /\ closed[p] /\ ~handled[p]
  \/ SendingReady(p, Handler)

MayDispatch(p, m) ==
  CASE m.type = "REQUEST"  -> Len(queue[p]) < Capacity
    [] m.type = "RESPONSE" -> slot[p] = None /\ ChecksumValid(m.response_size, m.bytes)
    [] OTHER               -> TRUE

ReceiverReady(p) ==
  \/ rpc[p] # "idle"
  \/ \E m \in got[p] : MayDispatch(p, m)
  \/ got[p] = None /\ IF AllStopped(p) THEN ~closed[p] ELSE slot_full[p] > 0 /\ fpc[p] = "run"

MainReady(p) == (Joined(p) /\ BeginFinalizeReady(p)) \/ FinalizeReady(p)

(* A receiver that has a message, in its inbox or in its hands, waits for  *)
(* nobody: not for the handler, nor for the compute thread of its process. *)
(* So the router and the senders it waits for go on, and until everything  *)
(* has ended there is a thread that can: two threads behind one send       *)
(* buffer, the queue, the slot and the mailbox never wait in a circle.     *)
NeverStuck ==
  /\ \A p \in Ranks : slot_full[p] > 0 \/ got[p] # None => ReceiverReady(p)
  /\ \/ AllGone \/ RouterReady
     \/ \E p \in Ranks :
          ComputeReady(p) \/ HandlerReady(p) \/ ReceiverReady(p) \/ MainReady(p)
-----------------------------------------------------------------------------
(* DistDb implements DbProtocol.  A message counts as sent once it is in   *)
(* the mailbox, although its thread is still in com_send; the response the *)
(* handler has to send is in `out` until com_send is called, then in the   *)
(* segment; a message is received once it is copied.                       *)

Accepted(p, w) == pc[p][w] \in {"deliver", "release"} \/ (At(p, w, "ready") /\ out[p][w] = None)

BoxOf(q) ==
  LET letters == InboxLetters(q) \o MailboxLetters(q)
  IN [k \in DOMAIN letters |-> letters[k].payload]

ServingOf(p) ==
  IF pc[p][Handler] \in {"box", "post"}
    THEN {[dest |-> call[p][Handler].dest, msg |-> segment[p]]}
    ELSE out[p][Handler]

CopiedBy(p) == IF rpc[p] \in {"clear", "ack"} THEN {rcv[p].msg} ELSE None

Protocol == INSTANCE DbProtocol WITH
  box      <- [q \in Ranks |-> BoxOf(q)],
  sent     <- [p \in Ranks |-> sent[p] + IF Accepted(p, Compute) THEN 1 ELSE 0],
  awaiting <- [p \in Ranks |-> awaiting[p] \/ (Accepted(p, Compute) /\ sent[p] < Requests)],
  serving  <- [p \in Ranks |-> ServingOf(p)],
  got      <- [p \in Ranks |-> got[p] \cup CopiedBy(p)]

(* rpBenchmark2 over com.c does only what its protocol allows, and all of  *)
(* what its protocol does comes about.                                     *)
ImplementsProtocol == Protocol!Spec
=============================================================================
