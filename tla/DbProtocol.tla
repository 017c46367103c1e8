----------------------------- MODULE DbProtocol -----------------------------
(***************************************************************************)
(* The protocol of rpBenchmark2 between the three threads of each process, *)
(* with com.h reduced to what it does to its clients: a message waits in   *)
(* the box of its destination, and com_prepare_send_buffer and the central *)
(* mailbox keep a thread waiting.  DistDb, with every step of com.c,       *)
(* implements it.                                                          *)
(***************************************************************************)
EXTENDS DbScript, Sequences

CONSTANT Capacity    \* REQUEST_QUEUE_CAPACITY

ASSUME DbProtocolAssumption ==
  /\ NProc \in Nat /\ NProc >= 2
  /\ Requests \in Nat \ {0}
  /\ ResponseSize \in Nat /\ ResponseSize > 1
  /\ Capacity \in Nat /\ Capacity >= NProc - 1    \* 1024, and at most 1024 processes

Ranks == 0 .. NProc - 1

VARIABLES
  box,         \* box[q]: the messages accepted for q that it has not copied
  sent,        \* sent[p]: messages the compute thread has sent
  awaiting,    \* awaiting[p]: it waits for a response
  slot,        \* slot[p]: the response slot
  queue,       \* queue[p]: the request queue
  closed,      \* closed[p]: the receiver has closed it and returned
  serving,     \* serving[p]: the response the request handler has to send
  handled,     \* handled[p]: the request handler has returned
  got,         \* got[p]: what com_recv returned and the receiver dispatches
  stops,       \* remote_stop_count
  local_done

computeVars  == <<sent, awaiting>>
handlerVars  == <<serving, handled>>
receiverVars == <<got, stops, local_done>>
vars == <<box, computeVars, slot, queue, closed, handlerVars, receiverVars>>
-----------------------------------------------------------------------------
None == {}

Init ==
  /\ box = [q \in Ranks |-> <<>>]
  /\ sent = [p \in Ranks |-> 0]
  /\ awaiting = [p \in Ranks |-> FALSE]
  /\ slot = [p \in Ranks |-> None]
  /\ queue = [p \in Ranks |-> <<>>]
  /\ closed = [p \in Ranks |-> FALSE]
  /\ serving = [p \in Ranks |-> None]
  /\ handled = [p \in Ranks |-> FALSE]
  /\ got = [p \in Ranks |-> None]
  /\ stops = [p \in Ranks |-> 0]
  /\ local_done = [p \in Ranks |-> FALSE]

(* A message of p that its receiver has not copied. *)
Uncopied(p) == \E q \in Ranks : \E k \in DOMAIN box[q] : box[q][k].source_rank = p

(* No message waits in the central mailbox behind a full inbox. *)
MailboxFree == \A q \in Ranks : Len(box[q]) <= 1

MayPost(p) == ~Uncopied(p) /\ MailboxFree

(* com_send accepts a message: the thread has waited for the              *)
(* acknowledgements of its process and for the mailbox.                    *)
Post(p, q, m) ==
  /\ MayPost(p)
  /\ box' = [box EXCEPT ![q] = Append(@, m)]
-----------------------------------------------------------------------------
(* compute_thread_main *)

(* Mutant: sends without waiting for the response before. *)
ComputePostEarly(p) ==
  /\ sent[p] <= LastMessage
  /\ Post(p, Dest(p, sent[p]), Message(p, sent[p]))
  /\ sent' = [sent EXCEPT ![p] = @ + 1]
  /\ awaiting' = [awaiting EXCEPT ![p] = sent[p] < Requests]
  /\ UNCHANGED <<slot, queue, closed, handlerVars, receiverVars>>

ComputePost(p) ==
  /\ ~awaiting[p] /\ sent[p] <= LastMessage
  /\ Post(p, Dest(p, sent[p]), Message(p, sent[p]))
  /\ sent' = [sent EXCEPT ![p] = @ + 1]
  /\ awaiting' = [awaiting EXCEPT ![p] = sent[p] < Requests]
  /\ UNCHANGED <<slot, queue, closed, handlerVars, receiverVars>>

TakeResponse(p) ==
  /\ awaiting[p] /\ slot[p] # None
  /\ slot' = [slot EXCEPT ![p] = None]
  /\ awaiting' = [awaiting EXCEPT ![p] = FALSE]
  /\ UNCHANGED <<box, sent, queue, closed, handlerVars, receiverVars>>

ComputeThread(p) == ComputePost(p) \/ TakeResponse(p)
-----------------------------------------------------------------------------
(* request_handler_thread_main *)

TakeRequest(p) ==
  /\ serving[p] = None /\ queue[p] # <<>>
  /\ LET m == Head(queue[p])
     IN serving' = [serving EXCEPT ![p] = {[dest |-> m.source_rank, msg |-> Response(p, m)]}]
  /\ queue' = [queue EXCEPT ![p] = Tail(@)]
  /\ UNCHANGED <<box, computeVars, slot, closed, handled, receiverVars>>

(* Mutant: keeps the response and sends it again. *)
ReplyAgain(p) ==
  /\ \E r \in serving[p] : Post(p, r.dest, r.msg)
  /\ UNCHANGED <<serving, computeVars, slot, queue, closed, handled, receiverVars>>

Reply(p) ==
  /\ \E r \in serving[p] : Post(p, r.dest, r.msg)
  /\ serving' = [serving EXCEPT ![p] = None]
  /\ UNCHANGED <<computeVars, slot, queue, closed, handled, receiverVars>>

HandlerReturns(p) ==
  /\ ~handled[p]
  /\ serving[p] = None /\ closed[p] /\ queue[p] = <<>>
  /\ handled' = [handled EXCEPT ![p] = TRUE]
  /\ UNCHANGED <<box, computeVars, slot, queue, closed, serving, receiverVars>>

HandlerThread(p) == TakeRequest(p) \/ Reply(p) \/ HandlerReturns(p)
-----------------------------------------------------------------------------
(* receiver_thread_main *)

(* Mutant: does not wait for the process's own compute thread. *)
AllStoppedRemote(p) == stops[p] = NProc - 1

(* Mutant: waits for a STOP of its own process too. *)
AllStoppedAndOwn(p) == stops[p] = NProc /\ local_done[p]

(* Mutant: one STOP short. *)
AllStoppedButOne(p) == stops[p] >= NProc - 2 /\ local_done[p]

AllStopped(p) == stops[p] = NProc - 1 /\ local_done[p]

Receive(p) ==
  /\ got[p] = None /\ ~AllStopped(p)
  /\ box[p] # <<>>
  /\ got' = [got EXCEPT ![p] = {Head(box[p])}]
  /\ box' = [box EXCEPT ![p] = Tail(@)]
  /\ UNCHANGED <<computeVars, slot, queue, closed, handlerVars, stops, local_done>>

PushRequest(p, m) ==
  /\ m.type = "REQUEST"
  /\ Len(queue[p]) < Capacity
  /\ queue' = [queue EXCEPT ![p] = Append(@, m)]
  /\ UNCHANGED <<slot, stops, local_done>>

SetResponse(p, m) ==
  /\ m.type = "RESPONSE" /\ ChecksumValid(m.response_size, m.bytes)
  /\ slot[p] = None
  /\ slot' = [slot EXCEPT ![p] = {[request_id |-> m.request_id, size |-> m.response_size]}]
  /\ UNCHANGED <<queue, stops, local_done>>

CountStop(p, m) ==
  /\ m.type = "STOP"
  /\ stops' = [stops EXCEPT ![p] = @ + 1]
  /\ UNCHANGED <<slot, queue, local_done>>

NoteLocalDone(p, m) ==
  /\ m.type = "LOCAL_DONE"
  /\ local_done' = [local_done EXCEPT ![p] = TRUE]
  /\ UNCHANGED <<slot, queue, stops>>

Dispatch(p) ==
  /\ \E m \in got[p] :
       PushRequest(p, m) \/ SetResponse(p, m) \/ CountStop(p, m) \/ NoteLocalDone(p, m)
  /\ got' = [got EXCEPT ![p] = None]
  /\ UNCHANGED <<box, computeVars, closed, handlerVars>>

ReceiverReturns(p) ==
  /\ got[p] = None /\ AllStopped(p) /\ ~closed[p]
  /\ closed' = [closed EXCEPT ![p] = TRUE]
  /\ UNCHANGED <<box, computeVars, slot, queue, handlerVars, receiverVars>>

ReceiverThread(p) == Receive(p) \/ Dispatch(p) \/ ReceiverReturns(p)
-----------------------------------------------------------------------------
ComputeDone(p) == sent[p] > LastMessage

(* The threads of every process can be joined. *)
AllJoined == \A p \in Ranks : ComputeDone(p) /\ closed[p] /\ handled[p]

Terminated == AllJoined /\ UNCHANGED vars

Next ==
  \/ \E p \in Ranks : ComputeThread(p) \/ HandlerThread(p) \/ ReceiverThread(p)
  \/ Terminated

(* The kernel runs a thread that can run. *)
Fairness ==
  \A p \in Ranks : /\ WF_vars(ComputeThread(p))
                   /\ WF_vars(HandlerThread(p))
                   /\ WF_vars(ReceiverThread(p))

Safety == Init /\ [][Next]_vars

Spec == Safety /\ Fairness
-----------------------------------------------------------------------------
(* The counters stay in their ranges and the buffers hold messages. *)
TypeOK ==
  /\ \A q \in Ranks : \A k \in DOMAIN box[q] : box[q][k] \in DbMessage
  /\ sent \in [Ranks -> 0 .. LastMessage + 1]
  /\ awaiting \in [Ranks -> BOOLEAN]
  /\ slot \in [Ranks -> SUBSET [request_id: 0 .. Requests - 1, size: {ResponseSize}]]
  /\ \A p \in Ranks : \A k \in DOMAIN queue[p] : queue[p][k] \in DbMessage
  /\ serving \in [Ranks -> SUBSET [dest: Ranks, msg: DbMessage]]
  /\ closed \in [Ranks -> BOOLEAN] /\ handled \in [Ranks -> BOOLEAN]
  /\ got \in [Ranks -> SUBSET DbMessage]
  /\ stops \in [Ranks -> 0 .. NProc - 1]
  /\ local_done \in [Ranks -> BOOLEAN]

(* Message m at rank q is the outstanding request of p or its answer. *)
Concerns(m, q, p) ==
  \/ m.type = "REQUEST" /\ m.source_rank = p
  \/ m.type = "RESPONSE" /\ q = p

(* Where the outstanding request of p, or its answer, is. *)
InBox(p)      == {x \in Ranks \X (1 .. 2) :
                    x[2] \in DOMAIN box[x[1]] /\ Concerns(box[x[1]][x[2]], x[1], p)}
InDispatch(p) == {q \in Ranks : \E m \in got[q] : Concerns(m, q, p)}
InQueue(p)    == {x \in Ranks \X (1 .. Capacity) :
                    x[2] \in DOMAIN queue[x[1]] /\ queue[x[1]][x[2]].source_rank = p}
InService(p)  == {q \in Ranks : \E r \in serving[q] : r.dest = p}
InSlot(p)     == slot[p]

(* A process that waits for an answer has its request, or the answer to    *)
(* it, in exactly one place: nothing is lost or answered twice on the way  *)
(* from thread to thread and process to process, and nothing is under way  *)
(* for a process that does not wait.                                       *)
OneAnswerEach ==
  \A p \in Ranks :
    Cardinality(InBox(p)) + Cardinality(InDispatch(p)) + Cardinality(InQueue(p))
      + Cardinality(InService(p)) + Cardinality(InSlot(p))
    = IF awaiting[p] THEN 1 ELSE 0

(* The receiver never waits for the request queue or for the response      *)
(* slot, never finds the queue closed and never rejects a checksum: one    *)
(* outstanding request per process fills no queue of NProc - 1 places.     *)
DispatchNeverBlocks ==
  \A p \in Ranks : \A m \in got[p] :
    /\ m.type = "REQUEST" => Len(queue[p]) < Capacity /\ ~closed[p]
    /\ m.type = "RESPONSE" => slot[p] = None /\ ChecksumValid(m.response_size, m.bytes)

(* "At this point no new REQUEST messages should arrive": when a receiver  *)
(* returns, no message for its process is in the layer, still to be sent,  *)
(* or still to be made of a request, and its handler has nothing to do.    *)
NothingAfterClose ==
  \A p \in Ranks : closed[p] =>
    /\ box[p] = <<>> /\ queue[p] = <<>> /\ serving[p] = None
    /\ \A q \in Ranks :
         /\ \A r \in serving[q] : r.dest # p
         /\ \A n \in sent[q] .. LastMessage : Dest(q, n) # p
         /\ \A k \in DOMAIN queue[q] : queue[q][k].source_rank # p

(* What each thread waits for at the point it has come to. *)
ComputeReady(p) ==
  IF awaiting[p] THEN slot[p] # None ELSE sent[p] <= LastMessage /\ MayPost(p)

HandlerReady(p) ==
  IF serving[p] # None THEN MayPost(p) ELSE queue[p] # <<>> \/ (closed[p] /\ ~handled[p])

MayDispatch(p, m) ==
  CASE m.type = "REQUEST"  -> Len(queue[p]) < Capacity
    [] m.type = "RESPONSE" -> slot[p] = None /\ ChecksumValid(m.response_size, m.bytes)
    [] OTHER               -> TRUE

ReceiverReady(p) ==
  IF got[p] # None THEN \E m \in got[p] : MayDispatch(p, m)
  ELSE IF AllStopped(p) THEN ~closed[p] ELSE box[p] # <<>>

(* A receiver that holds a message, or has one in its box, waits for no    *)
(* other thread, so every wait for the mailbox and for an acknowledgement  *)
(* ends; and until all threads can be joined one of them can go on: the    *)
(* waits for the mailbox, for answers, for requests and for the STOPs of   *)
(* the others never close to a circle.                                     *)
NeverStuck ==
  /\ \A p \in Ranks : box[p] # <<>> \/ got[p] # None => ReceiverReady(p)
  /\ AllJoined \/ \E p \in Ranks : ComputeReady(p) \/ HandlerReady(p) \/ ReceiverReady(p)

(* Every thread returns: no two threads wait for each other through full   *)
(* queues, uncopied messages and the mailbox.                              *)
Termination == <>AllJoined
=============================================================================
