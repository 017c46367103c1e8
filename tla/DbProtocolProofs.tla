-------------------------- MODULE DbProtocolProofs --------------------------
(***************************************************************************)
(* The protocol of rpBenchmark2, for every number of processes and of      *)
(* requests: one answer to each request, a receiver that never waits, and  *)
(* nothing under way to a process whose receiver has returned.             *)
(***************************************************************************)
EXTENDS DbProtocol, FiniteSetTheorems, SequenceTheorems, TLAPS

(* Numbers of processes and messages. *)
LEMMA Sizes ==
  /\ NProc \in Nat /\ NProc >= 2 /\ Requests \in Nat /\ Requests >= 1
  /\ Capacity \in Nat /\ Capacity >= NProc - 1
  /\ LastMessage \in Nat /\ LastMessage = Requests + NProc - 1 /\ LastMessage > Requests
BY DbProtocolAssumption DEF LastMessage

(* A request goes to another process. *)
LEMMA TargetIsOther ==
  ASSUME NEW p \in Ranks, NEW n \in Nat
  PROVE  Target(p, n) \in Ranks /\ Target(p, n) # p
<1>1. PICK j \in 0 .. NProc - 2 : j = n % (NProc - 1)
  BY Sizes
<1>2. PICK x \in Nat : x = p + 1 + j
  BY Sizes, <1>1 DEF Ranks
<1>3. p \in 0 .. NProc - 1 /\ x < 2 * NProc /\ x # p /\ x # p + NProc
  BY Sizes, <1>1, <1>2 DEF Ranks
<1>4. x % NProc = IF x < NProc THEN x ELSE x - NProc
  BY Sizes, <1>3
<1>5. Target(p, n) = x % NProc
  BY <1>1, <1>2 DEF Target
<1> QED
  BY Sizes, <1>2, <1>3, <1>4, <1>5 DEF Ranks

(* Which message of q is its STOP for p. *)
StopIndex(q, p) == Requests + (IF p < q THEN p ELSE p - 1)

(* A STOP for each other process, and LOCAL_DONE for its own. *)
LEMMA Destinations ==
  ASSUME NEW q \in Ranks, NEW n \in 0 .. LastMessage
  PROVE  /\ Dest(q, n) \in Ranks
         /\ n < LastMessage <=> Dest(q, n) # q
         /\ \A p \in Ranks \ {q} : n >= Requests => (Dest(q, n) = p <=> n = StopIndex(q, p))
<1>1. q \in 0 .. NProc - 1
  BY DEF Ranks
<1>2. CASE n < Requests
  BY <1>2, Sizes, TargetIsOther DEF Dest
<1>3. CASE n >= Requests /\ n < LastMessage
  <2>1. Dest(q, n) = IF n - Requests < q THEN n - Requests ELSE n - Requests + 1
    BY <1>3, Sizes DEF Dest, OtherRank
  <2> QED
    BY <1>1, <1>3, <2>1, Sizes DEF Ranks, StopIndex
<1>4. CASE n = LastMessage
  <2>1. Dest(q, n) = q
    BY <1>4, Sizes DEF Dest
  <2> QED
    BY <1>1, <1>4, <2>1, Sizes DEF Ranks, StopIndex
<1> QED
  BY <1>2, <1>3, <1>4, Sizes

(* What the threads look at in a message. *)
LEMMA Kinds ==
  ASSUME NEW m \in DbMessage
  PROVE  /\ m.type \in {"REQUEST", "RESPONSE", "STOP", "LOCAL_DONE"}
         /\ m.source_rank \in Ranks
         /\ m.type = "RESPONSE" => m.request_id \in 0 .. Requests - 1
                                   /\ m.response_size = ResponseSize
         /\ m.type = "REQUEST" =>
              \A p \in Ranks : Response(p, m) \in DbMessage /\ Response(p, m).type = "RESPONSE"
<1>1. ASSUME NEW p \in Ranks, NEW n \in 0 .. Requests - 1, m = Request(p, n, ResponseSize)
      PROVE  /\ m.type = "REQUEST" /\ m.source_rank = p
             /\ \A q \in Ranks : Response(q, m) \in DbMessage /\ Response(q, m).type = "RESPONSE"
  BY <1>1 DEF Request, Header, DbMessage, Response, Ranks
<1>2. ASSUME NEW p \in Ranks, NEW q \in Ranks, NEW n \in 0 .. Requests - 1,
             m = Response(q, Request(p, n, ResponseSize))
      PROVE  /\ m.type = "RESPONSE" /\ m.source_rank = q /\ m.request_id = n
             /\ m.response_size = ResponseSize
  BY <1>2 DEF Request, Header, Response
<1>3. ASSUME NEW p \in Ranks, NEW type \in {"STOP", "LOCAL_DONE"}, m = Control(p, type)
      PROVE  m.type = type /\ m.source_rank = p
  BY <1>3 DEF Control, Header
<1> QED
  BY <1>1, <1>2, <1>3 DEF DbMessage, Ranks

(* What a compute thread sends. *)
LEMMA Sends ==
  ASSUME NEW p \in Ranks, NEW n \in 0 .. LastMessage
  PROVE  /\ Message(p, n) \in DbMessage /\ Message(p, n).source_rank = p
         /\ Message(p, n).type = IF n < Requests THEN "REQUEST"
                                 ELSE IF n < LastMessage THEN "STOP" ELSE "LOCAL_DONE"
<1>1. CASE n < Requests
  <2>1. Message(p, n) = Request(p, n, ResponseSize) /\ n \in 0 .. Requests - 1
    BY <1>1, Sizes DEF Message
  <2> QED
    BY <1>1, <2>1 DEF Request, Header, DbMessage, Ranks
<1>2. CASE n >= Requests
  <2>1. PICK type \in {"STOP", "LOCAL_DONE"} :
          Message(p, n) = Control(p, type) /\ type = IF n < LastMessage THEN "STOP" ELSE "LOCAL_DONE"
    BY <1>2, Sizes DEF Message
  <2> QED
    BY <1>2, <2>1, Sizes DEF Control, Header, DbMessage, Ranks
<1> QED
  BY <1>1, <1>2, Sizes
-----------------------------------------------------------------------------
(* The inductive invariant. *)

IsControl(m) == m.type \in {"STOP", "LOCAL_DONE"}

(* The buffers are sequences of messages: the mailbox holds one message    *)
(* behind a full inbox, the queue holds requests, and a thread holds one   *)
(* message at a time.                                                      *)
TypeInv ==
  /\ box \in [Ranks -> Seq(DbMessage)] /\ \A q \in Ranks : Len(box[q]) <= 2
  /\ sent \in [Ranks -> 0 .. LastMessage + 1]
  /\ awaiting \in [Ranks -> BOOLEAN]
  /\ slot \in [Ranks -> SUBSET [request_id: 0 .. Requests - 1, size: {ResponseSize}]]
  /\ queue \in [Ranks -> Seq(DbMessage)] /\ \A q \in Ranks : Len(queue[q]) <= Capacity
  /\ closed \in [Ranks -> BOOLEAN] /\ handled \in [Ranks -> BOOLEAN]
  /\ serving \in [Ranks -> SUBSET [dest: Ranks, msg: DbMessage]]
  /\ got \in [Ranks -> SUBSET DbMessage]
  /\ stops \in [Ranks -> Nat]
  /\ local_done \in [Ranks -> BOOLEAN]

(* What can be where. *)
ContentInv ==
  \A q \in Ranks :
    /\ \A k \in DOMAIN queue[q] : queue[q][k].type = "REQUEST" /\ queue[q][k].source_rank # q
    /\ \A k \in DOMAIN box[q] : box[q][k].type = "REQUEST" => box[q][k].source_rank # q
    /\ \A m \in got[q] : m.type = "REQUEST" => m.source_rank # q
    /\ \A m, n \in got[q] : m = n
    /\ \A r \in serving[q] : r.msg.type = "RESPONSE"
    /\ \A r, s \in serving[q] : r = s

(* The request of p that has no answer yet, or its answer, is in one place. *)
One(S) == \E x \in S : S = {x}

Nowhere(p) ==
  InBox(p) = {} /\ InDispatch(p) = {} /\ InQueue(p) = {} /\ InService(p) = {} /\ InSlot(p) = {}

Somewhere(p) ==
  \/ One(InBox(p)) /\ InDispatch(p) = {} /\ InQueue(p) = {} /\ InService(p) = {} /\ InSlot(p) = {}
  \/ InBox(p) = {} /\ One(InDispatch(p)) /\ InQueue(p) = {} /\ InService(p) = {} /\ InSlot(p) = {}
  \/ InBox(p) = {} /\ InDispatch(p) = {} /\ One(InQueue(p)) /\ InService(p) = {} /\ InSlot(p) = {}
  \/ InBox(p) = {} /\ InDispatch(p) = {} /\ InQueue(p) = {} /\ One(InService(p)) /\ InSlot(p) = {}
  \/ InBox(p) = {} /\ InDispatch(p) = {} /\ InQueue(p) = {} /\ InService(p) = {} /\ One(InSlot(p))

PlaceInv ==
  \A p \in Ranks : /\ awaiting[p] => sent[p] <= Requests /\ Somewhere(p)
                   /\ ~awaiting[p] => Nowhere(p)

(* Which message of q is its last to p: a STOP, or LOCAL_DONE to itself. *)
Final(q, p) == IF q = p THEN LastMessage ELSE StopIndex(q, p)

(* The last message of q to p is under way. *)
InBoxFinal(q, p) == \E k \in DOMAIN box[p] : IsControl(box[p][k]) /\ box[p][k].source_rank = q
InGotFinal(q, p) == \E m \in got[p] : IsControl(m) /\ m.source_rank = q

(* The processes whose last message the receiver of p has dispatched. *)
Noted(p) ==
  {q \in Ranks : sent[q] > Final(q, p) /\ ~InBoxFinal(q, p) /\ ~InGotFinal(q, p)}

(* Each process sends one last message to each receiver, *)
FinalInv ==
  \A p \in Ranks :
    /\ \A k \in DOMAIN box[p] : IsControl(box[p][k]) =>
         (box[p][k].type = "LOCAL_DONE" <=> box[p][k].source_rank = p)
    /\ \A m \in got[p] : IsControl(m) => (m.type = "LOCAL_DONE" <=> m.source_rank = p)
    /\ \A k, l \in DOMAIN box[p] :
         IsControl(box[p][k]) /\ IsControl(box[p][l])
           /\ box[p][k].source_rank = box[p][l].source_rank => k = l
    /\ \A q \in Ranks : /\ InBoxFinal(q, p) \/ InGotFinal(q, p) => sent[q] > Final(q, p)
                        /\ ~(InBoxFinal(q, p) /\ InGotFinal(q, p))

(* which counts it, and returns when all have come. *)
CountInv ==
  \A p \in Ranks :
    /\ stops[p] = Cardinality(Noted(p) \ {p})
    /\ local_done[p] <=> p \in Noted(p)
    /\ closed[p] => AllStopped(p)

ProtocolInv == TypeInv /\ ContentInv /\ PlaceInv /\ FinalInv /\ CountInv
-----------------------------------------------------------------------------
(* Sequences of messages by process, one of which grows or shrinks. *)

(* One sequence of the family gets a message at its end. *)
LEMMA Appended ==
  ASSUME NEW f \in [Ranks -> Seq(DbMessage)], NEW q \in Ranks, NEW m \in DbMessage,
         NEW g, g = [f EXCEPT ![q] = Append(@, m)]
  PROVE  /\ g \in [Ranks -> Seq(DbMessage)]
         /\ \A a \in Ranks : Len(f[a]) \in Nat /\ DOMAIN f[a] = 1 .. Len(f[a])
         /\ \A a \in Ranks : Len(g[a]) = IF a = q THEN Len(f[a]) + 1 ELSE Len(f[a])
         /\ \A a \in Ranks : DOMAIN g[a] = 1 .. Len(g[a])
         /\ \A a \in Ranks : \A k \in DOMAIN f[a] : g[a][k] = f[a][k]
         /\ g[q][Len(f[q]) + 1] = m
<1>1. /\ Append(f[q], m) \in Seq(DbMessage) /\ Len(Append(f[q], m)) = Len(f[q]) + 1
      /\ \A k \in 1 .. Len(f[q]) : Append(f[q], m)[k] = f[q][k]
      /\ Append(f[q], m)[Len(f[q]) + 1] = m
  BY AppendProperties
<1>2. \A s \in Seq(DbMessage) : Len(s) \in Nat /\ DOMAIN s = 1 .. Len(s)
  BY LenProperties
<1> QED
  BY <1>1, <1>2

(* One sequence of the family loses its first message. *)
LEMMA Dropped ==
  ASSUME NEW f \in [Ranks -> Seq(DbMessage)], NEW q \in Ranks, f[q] # <<>>,
         NEW g, g = [f EXCEPT ![q] = Tail(@)]
  PROVE  /\ g \in [Ranks -> Seq(DbMessage)]
         /\ \A a \in Ranks : Len(f[a]) \in Nat /\ DOMAIN f[a] = 1 .. Len(f[a])
         /\ \A a \in Ranks : Len(g[a]) = IF a = q THEN Len(f[a]) - 1 ELSE Len(f[a])
         /\ \A a \in Ranks : DOMAIN g[a] = 1 .. Len(g[a])
         /\ \A a \in Ranks : \A k \in DOMAIN g[a] : g[a][k] = IF a = q THEN f[a][k + 1] ELSE f[a][k]
         /\ Head(f[q]) = f[q][1] /\ 1 \in DOMAIN f[q] /\ Head(f[q]) \in DbMessage
<1>1. /\ Head(f[q]) \in DbMessage
      /\ Tail(f[q]) \in Seq(DbMessage) /\ Len(Tail(f[q])) = Len(f[q]) - 1
      /\ \A k \in 1 .. Len(Tail(f[q])) : Tail(f[q])[k] = f[q][k + 1]
  BY HeadTailProperties
<1>2. \A s \in Seq(DbMessage) : Len(s) \in Nat /\ DOMAIN s = 1 .. Len(s)
  BY LenProperties
<1>3. Len(f[q]) # 0
  BY EmptySeq
<1>4. Head(f[q]) = f[q][1]
  BY <1>3
<1> QED
  BY <1>1, <1>2, <1>3, <1>4

(* Places in sequences whose first element is taken from one of them. *)
LEMMA Shifted ==
  ASSUME NEW S \in SUBSET (Ranks \X (Nat \ {0})), NEW T \in SUBSET (Ranks \X (Nat \ {0})),
         NEW q \in Ranks,
         \A a \in Ranks : \A b \in Nat \ {0} :
           <<a, b>> \in T <=> IF a = q THEN <<a, b + 1>> \in S ELSE <<a, b>> \in S
  PROVE  /\ S = {} => T = {}
         /\ One(S) /\ <<q, 1>> \notin S => One(T)
         /\ One(S) /\ <<q, 1>> \in S => T = {}
<1>1. S = {} => T = {}
  OBVIOUS
<1>2. ASSUME One(S), <<q, 1>> \notin S  PROVE One(T)
  <2>1. PICK a \in Ranks, b \in Nat \ {0} : S = {<<a, b>>}
    BY <1>2 DEF One
  <2>2. PICK c \in Nat \ {0} : c = IF a = q THEN b - 1 ELSE b
    BY <1>2, <2>1
  <2>3. <<a, c>> \in T
    BY <2>1, <2>2
  <2>4. ASSUME NEW x \in Ranks, NEW y \in Nat \ {0}, <<x, y>> \in T  PROVE x = a /\ y = c
    BY <2>1, <2>2, <2>4
  <2> QED
    BY <2>3, <2>4 DEF One
<1>3. ASSUME One(S), <<q, 1>> \in S  PROVE T = {}
  <2>1. S = {<<q, 1>>}
    BY <1>3 DEF One
  <2>2. ASSUME NEW x \in Ranks, NEW y \in Nat \ {0}, <<x, y>> \in T  PROVE FALSE
    BY <2>1, <2>2
  <2> QED
    BY <2>2
<1> QED
  BY <1>1, <1>2, <1>3
-----------------------------------------------------------------------------
(* Where the requests and answers are when one buffer changes. *)

(* A message that is sent joins the box of its destination. *)
LEMMA InBoxAppended ==
  ASSUME TypeInv, NEW p \in Ranks, NEW q \in Ranks, NEW m \in DbMessage, Post(p, q, m)
  PROVE  /\ box' \in [Ranks -> Seq(DbMessage)]
         /\ \A a \in Ranks : Len(box'[a]) <= 2
         /\ \A r \in Ranks : ~Concerns(m, q, r) => InBox(r)' = InBox(r)
         /\ \A r \in Ranks : Concerns(m, q, r) /\ InBox(r) = {} => One(InBox(r)')
<1>1. /\ box \in [Ranks -> Seq(DbMessage)] /\ \A a \in Ranks : Len(box[a]) <= 1
      /\ box' = [box EXCEPT ![q] = Append(@, m)]
  BY DEF TypeInv, Post, MayPost, MailboxFree
<1>2. /\ box' \in [Ranks -> Seq(DbMessage)]
      /\ \A a \in Ranks : Len(box[a]) \in Nat /\ DOMAIN box[a] = 1 .. Len(box[a])
      /\ \A a \in Ranks : Len(box'[a]) = IF a = q THEN Len(box[a]) + 1 ELSE Len(box[a])
      /\ \A a \in Ranks : DOMAIN box'[a] = 1 .. Len(box'[a])
      /\ \A a \in Ranks : \A k \in DOMAIN box[a] : box'[a][k] = box[a][k]
      /\ box'[q][Len(box[q]) + 1] = m
  BY <1>1, Appended
<1>3. PICK new \in 1 .. 2 : new = Len(box[q]) + 1
  BY <1>1, <1>2
<1>4. \A a \in Ranks : \A k \in 1 .. 2 :
        k \in DOMAIN box'[a] <=> k \in DOMAIN box[a] \/ (a = q /\ k = new)
  BY <1>1, <1>2, <1>3
<1>5. \A a \in Ranks : \A k \in 1 .. 2 : a = q /\ k = new => k \notin DOMAIN box[a] /\ box'[a][k] = m
  BY <1>2, <1>3
<1>6. ASSUME NEW r \in Ranks, ~Concerns(m, q, r)  PROVE InBox(r)' = InBox(r)
  BY SMTT(40), <1>2, <1>4, <1>5, <1>6 DEF InBox
<1>7. ASSUME NEW r \in Ranks, Concerns(m, q, r), InBox(r) = {}  PROVE One(InBox(r)')
  <2>1. <<q, new>> \in InBox(r)'
    BY <1>4, <1>5, <1>7 DEF InBox
  <2>2. ASSUME NEW a \in Ranks, NEW k \in 1 .. 2, <<a, k>> \in InBox(r)'  PROVE a = q /\ k = new
    <3>1. SUFFICES ASSUME ~(a = q /\ k = new)  PROVE <<a, k>> \in InBox(r)
      BY <1>7
    <3> QED
      BY <1>2, <1>4, <2>2, <3>1 DEF InBox
  <2>3. InBox(r)' \subseteq Ranks \X (1 .. 2)
    BY DEF InBox
  <2>4. InBox(r)' = {<<q, new>>}
    <3>1. ASSUME NEW x \in InBox(r)'  PROVE x = <<q, new>>
      <4>1. PICK a \in Ranks, k \in 1 .. 2 : x = <<a, k>>
        BY <2>3
      <4> QED
        BY <2>2, <4>1
    <3> QED
      BY <2>1, <3>1
  <2> QED
    BY <2>4 DEF One
<1>8. \A a \in Ranks : Len(box'[a]) <= 2
  BY <1>1, <1>2
<1> QED
  BY <1>2, <1>6, <1>7, <1>8

(* A message that is received leaves the box. *)
LEMMA InBoxDropped ==
  ASSUME TypeInv, NEW p \in Ranks, box[p] # <<>>, box' = [box EXCEPT ![p] = Tail(@)]
  PROVE  /\ box' \in [Ranks -> Seq(DbMessage)]
         /\ \A a \in Ranks : Len(box'[a]) <= 2
         /\ \A r \in Ranks : InBox(r) = {} => InBox(r)' = {}
         /\ \A r \in Ranks : ~Concerns(Head(box[p]), p, r) /\ One(InBox(r)) => One(InBox(r)')
         /\ \A r \in Ranks : Concerns(Head(box[p]), p, r) => InBox(r) # {}
         /\ \A r \in Ranks : Concerns(Head(box[p]), p, r) /\ One(InBox(r)) => InBox(r)' = {}
<1>1. /\ box \in [Ranks -> Seq(DbMessage)] /\ \A a \in Ranks : Len(box[a]) <= 2
  BY DEF TypeInv
<1>2. /\ box' \in [Ranks -> Seq(DbMessage)]
      /\ \A a \in Ranks : Len(box[a]) \in Nat /\ DOMAIN box[a] = 1 .. Len(box[a])
      /\ \A a \in Ranks : Len(box'[a]) = IF a = p THEN Len(box[a]) - 1 ELSE Len(box[a])
      /\ \A a \in Ranks : DOMAIN box'[a] = 1 .. Len(box'[a])
      /\ \A a \in Ranks : \A k \in DOMAIN box'[a] :
           box'[a][k] = IF a = p THEN box[a][k + 1] ELSE box[a][k]
      /\ Head(box[p]) = box[p][1] /\ 1 \in DOMAIN box[p]
  BY <1>1, Dropped
<1>3. \A a \in Ranks : Len(box'[a]) <= 2
  BY <1>1, <1>2
<1>4. ASSUME NEW r \in Ranks
      PROVE  /\ InBox(r) \in SUBSET (Ranks \X (Nat \ {0}))
             /\ InBox(r)' \in SUBSET (Ranks \X (Nat \ {0}))
             /\ \A a \in Ranks : \A b \in Nat \ {0} :
                  <<a, b>> \in InBox(r)' <=>
                    IF a = p THEN <<a, b + 1>> \in InBox(r) ELSE <<a, b>> \in InBox(r)
             /\ Concerns(Head(box[p]), p, r) <=> <<p, 1>> \in InBox(r)
  <2>1. \A a \in Ranks : \A b \in Nat \ {0} :
          /\ b \in DOMAIN box'[a] => b \in 1 .. 2
          /\ b \in DOMAIN box[a] => b \in 1 .. 2
          /\ b \in DOMAIN box'[a] <=> IF a = p THEN b + 1 \in DOMAIN box[a] ELSE b \in DOMAIN box[a]
    BY <1>1, <1>2, <1>3
  <2>2. /\ InBox(r) \subseteq Ranks \X (1 .. 2) /\ InBox(r)' \subseteq Ranks \X (1 .. 2)
        /\ \A a \in Ranks : \A b \in Nat \ {0} :
             <<a, b>> \in InBox(r) <=> b \in DOMAIN box[a] /\ Concerns(box[a][b], a, r)
        /\ \A a \in Ranks : \A b \in Nat \ {0} :
             <<a, b>> \in InBox(r)' <=> b \in DOMAIN box'[a] /\ Concerns(box'[a][b], a, r)
    BY <2>1 DEF InBox
  <2>3. InBox(r) \in SUBSET (Ranks \X (Nat \ {0})) /\ InBox(r)' \in SUBSET (Ranks \X (Nat \ {0}))
    BY <2>2
  <2>4. ASSUME NEW a \in Ranks, NEW b \in Nat \ {0}
        PROVE  <<a, b>> \in InBox(r)' <=>
                 IF a = p THEN <<a, b + 1>> \in InBox(r) ELSE <<a, b>> \in InBox(r)
    <3>1. b + 1 \in Nat \ {0}
      OBVIOUS
    <3>2. b \in DOMAIN box'[a] => box'[a][b] = IF a = p THEN box[a][b + 1] ELSE box[a][b]
      BY <1>2
    <3>3. CASE a = p
      BY <2>1, <2>2, <3>1, <3>2, <3>3
    <3>4. CASE a # p
      BY <2>1, <2>2, <3>2, <3>4
    <3> QED
      BY <3>3, <3>4
  <2>5. Concerns(Head(box[p]), p, r) <=> <<p, 1>> \in InBox(r)
    BY <1>2, <2>2
  <2> QED
    BY <2>3, <2>4, <2>5
<1>5. \A r \in Ranks : /\ InBox(r) = {} => InBox(r)' = {}
                       /\ One(InBox(r)) /\ <<p, 1>> \notin InBox(r) => One(InBox(r)')
                       /\ One(InBox(r)) /\ <<p, 1>> \in InBox(r) => InBox(r)' = {}
  <2> TAKE r \in Ranks
  <2>1. PICK S \in SUBSET (Ranks \X (Nat \ {0})) : S = InBox(r)
    BY <1>4
  <2>2. PICK T \in SUBSET (Ranks \X (Nat \ {0})) : T = InBox(r)'
    BY <1>4
  <2>3. \A a \in Ranks : \A b \in Nat \ {0} :
           <<a, b>> \in T <=> IF a = p THEN <<a, b + 1>> \in S ELSE <<a, b>> \in S
    BY <1>4, <2>1, <2>2
  <2> QED
    BY <2>1, <2>2, <2>3, Shifted
<1> QED
  BY <1>2, <1>3, <1>4, <1>5

(* A request that is pushed joins the queue. *)
LEMMA InQueueAppended ==
  ASSUME TypeInv, NEW p \in Ranks, NEW m \in DbMessage, Len(queue[p]) < Capacity,
         queue' = [queue EXCEPT ![p] = Append(@, m)]
  PROVE  /\ queue' \in [Ranks -> Seq(DbMessage)]
         /\ \A a \in Ranks : Len(queue'[a]) <= Capacity
         /\ \A r \in Ranks : m.source_rank # r => InQueue(r)' = InQueue(r)
         /\ \A r \in Ranks : m.source_rank = r /\ InQueue(r) = {} => One(InQueue(r)')
<1>1. queue \in [Ranks -> Seq(DbMessage)] /\ \A a \in Ranks : Len(queue[a]) <= Capacity
  BY DEF TypeInv
<1>2. /\ queue' \in [Ranks -> Seq(DbMessage)]
      /\ \A a \in Ranks : Len(queue[a]) \in Nat /\ DOMAIN queue[a] = 1 .. Len(queue[a])
      /\ \A a \in Ranks : Len(queue'[a]) = IF a = p THEN Len(queue[a]) + 1 ELSE Len(queue[a])
      /\ \A a \in Ranks : DOMAIN queue'[a] = 1 .. Len(queue'[a])
      /\ \A a \in Ranks : \A k \in DOMAIN queue[a] : queue'[a][k] = queue[a][k]
      /\ queue'[p][Len(queue[p]) + 1] = m
  BY <1>1, Appended
<1>3. PICK new \in 1 .. Capacity : new = Len(queue[p]) + 1
  BY <1>1, <1>2, Sizes
<1>4. \A a \in Ranks : \A k \in 1 .. Capacity :
        k \in DOMAIN queue'[a] <=> k \in DOMAIN queue[a] \/ (a = p /\ k = new)
  BY <1>1, <1>2, <1>3, Sizes
<1>5. \A a \in Ranks : \A k \in 1 .. Capacity :
        a = p /\ k = new => k \notin DOMAIN queue[a] /\ queue'[a][k] = m
  BY <1>2, <1>3
<1>6. ASSUME NEW r \in Ranks, m.source_rank # r  PROVE InQueue(r)' = InQueue(r)
  BY <1>2, <1>4, <1>5, <1>6 DEF InQueue
<1>7. ASSUME NEW r \in Ranks, m.source_rank = r, InQueue(r) = {}  PROVE One(InQueue(r)')
  <2>1. <<p, new>> \in InQueue(r)'
    BY <1>4, <1>5, <1>7 DEF InQueue
  <2>2. ASSUME NEW a \in Ranks, NEW k \in 1 .. Capacity, <<a, k>> \in InQueue(r)'
        PROVE  a = p /\ k = new
    <3>1. SUFFICES ASSUME ~(a = p /\ k = new)  PROVE <<a, k>> \in InQueue(r)
      BY <1>7
    <3> QED
      BY <1>2, <1>4, <2>2, <3>1 DEF InQueue
  <2>3. InQueue(r)' \subseteq Ranks \X (1 .. Capacity)
    BY DEF InQueue
  <2>4. InQueue(r)' = {<<p, new>>}
    <3>1. ASSUME NEW x \in InQueue(r)'  PROVE x = <<p, new>>
      <4>1. PICK a \in Ranks, k \in 1 .. Capacity : x = <<a, k>>
        BY <2>3
      <4> QED
        BY <2>2, <4>1
    <3> QED
      BY <2>1, <3>1
  <2> QED
    BY <2>4 DEF One
<1>8. \A a \in Ranks : Len(queue'[a]) <= Capacity
  BY <1>1, <1>2, Sizes
<1> QED
  BY <1>2, <1>6, <1>7, <1>8

(* A request that is popped leaves the queue. *)
LEMMA InQueueDropped ==
  ASSUME TypeInv, NEW p \in Ranks, queue[p] # <<>>, queue' = [queue EXCEPT ![p] = Tail(@)]
  PROVE  /\ queue' \in [Ranks -> Seq(DbMessage)]
         /\ \A a \in Ranks : Len(queue'[a]) <= Capacity
         /\ \A r \in Ranks : InQueue(r) = {} => InQueue(r)' = {}
         /\ \A r \in Ranks : Head(queue[p]).source_rank # r /\ One(InQueue(r)) => One(InQueue(r)')
         /\ \A r \in Ranks : Head(queue[p]).source_rank = r => InQueue(r) # {}
         /\ \A r \in Ranks : Head(queue[p]).source_rank = r /\ One(InQueue(r)) => InQueue(r)' = {}
<1>1. queue \in [Ranks -> Seq(DbMessage)] /\ \A a \in Ranks : Len(queue[a]) <= Capacity
  BY DEF TypeInv
<1>2. /\ queue' \in [Ranks -> Seq(DbMessage)]
      /\ \A a \in Ranks : Len(queue[a]) \in Nat /\ DOMAIN queue[a] = 1 .. Len(queue[a])
      /\ \A a \in Ranks : Len(queue'[a]) = IF a = p THEN Len(queue[a]) - 1 ELSE Len(queue[a])
      /\ \A a \in Ranks : DOMAIN queue'[a] = 1 .. Len(queue'[a])
      /\ \A a \in Ranks : \A k \in DOMAIN queue'[a] :
           queue'[a][k] = IF a = p THEN queue[a][k + 1] ELSE queue[a][k]
      /\ Head(queue[p]) = queue[p][1] /\ 1 \in DOMAIN queue[p]
  BY <1>1, Dropped
<1>3. \A a \in Ranks : Len(queue'[a]) <= Capacity
  BY <1>1, <1>2, Sizes
<1>4. ASSUME NEW r \in Ranks
      PROVE  /\ InQueue(r) \in SUBSET (Ranks \X (Nat \ {0}))
             /\ InQueue(r)' \in SUBSET (Ranks \X (Nat \ {0}))
             /\ \A a \in Ranks : \A b \in Nat \ {0} :
                  <<a, b>> \in InQueue(r)' <=>
                    IF a = p THEN <<a, b + 1>> \in InQueue(r) ELSE <<a, b>> \in InQueue(r)
             /\ Head(queue[p]).source_rank = r <=> <<p, 1>> \in InQueue(r)
  <2>1. \A a \in Ranks : \A b \in Nat \ {0} :
          /\ b \in DOMAIN queue'[a] => b \in 1 .. Capacity
          /\ b \in DOMAIN queue[a] => b \in 1 .. Capacity
          /\ b \in DOMAIN queue'[a] <=> IF a = p THEN b + 1 \in DOMAIN queue[a]
                                        ELSE b \in DOMAIN queue[a]
    BY <1>1, <1>2, <1>3, Sizes
  <2>2. /\ InQueue(r) \subseteq Ranks \X (1 .. Capacity)
        /\ InQueue(r)' \subseteq Ranks \X (1 .. Capacity)
        /\ \A a \in Ranks : \A b \in Nat \ {0} :
             <<a, b>> \in InQueue(r) <=> b \in DOMAIN queue[a] /\ queue[a][b].source_rank = r
        /\ \A a \in Ranks : \A b \in Nat \ {0} :
             <<a, b>> \in InQueue(r)' <=> b \in DOMAIN queue'[a] /\ queue'[a][b].source_rank = r
    BY <2>1 DEF InQueue
  <2>3. InQueue(r) \in SUBSET (Ranks \X (Nat \ {0})) /\ InQueue(r)' \in SUBSET (Ranks \X (Nat \ {0}))
    BY <2>2, Sizes
  <2>4. ASSUME NEW a \in Ranks, NEW b \in Nat \ {0}
        PROVE  <<a, b>> \in InQueue(r)' <=>
                 IF a = p THEN <<a, b + 1>> \in InQueue(r) ELSE <<a, b>> \in InQueue(r)
    <3>1. b + 1 \in Nat \ {0}
      OBVIOUS
    <3>2. b \in DOMAIN queue'[a] => queue'[a][b] = IF a = p THEN queue[a][b + 1] ELSE queue[a][b]
      BY <1>2
    <3>3. /\ <<a, b>> \in InQueue(r) <=> b \in DOMAIN queue[a] /\ queue[a][b].source_rank = r
          /\ <<a, b>> \in InQueue(r)' <=> b \in DOMAIN queue'[a] /\ queue'[a][b].source_rank = r
          /\ <<a, b + 1>> \in InQueue(r) <=>
               b + 1 \in DOMAIN queue[a] /\ queue[a][b + 1].source_rank = r
      BY <2>2, <3>1
    <3>4. b \in DOMAIN queue'[a] <=> IF a = p THEN b + 1 \in DOMAIN queue[a]
                                     ELSE b \in DOMAIN queue[a]
      BY <2>1
    <3>5. CASE a = p
      BY <3>2, <3>3, <3>4, <3>5
    <3>6. CASE a # p
      BY <3>2, <3>3, <3>4, <3>6
    <3> QED
      BY <3>5, <3>6
  <2>5. Head(queue[p]).source_rank = r <=> <<p, 1>> \in InQueue(r)
    BY <1>2, <2>2
  <2> QED
    BY <2>3, <2>4, <2>5
<1>5. \A r \in Ranks : /\ InQueue(r) = {} => InQueue(r)' = {}
                       /\ One(InQueue(r)) /\ <<p, 1>> \notin InQueue(r) => One(InQueue(r)')
                       /\ One(InQueue(r)) /\ <<p, 1>> \in InQueue(r) => InQueue(r)' = {}
  <2> TAKE r \in Ranks
  <2>1. PICK S \in SUBSET (Ranks \X (Nat \ {0})) : S = InQueue(r)
    BY <1>4
  <2>2. PICK T \in SUBSET (Ranks \X (Nat \ {0})) : T = InQueue(r)'
    BY <1>4
  <2>3. \A a \in Ranks : \A b \in Nat \ {0} :
           <<a, b>> \in T <=> IF a = p THEN <<a, b + 1>> \in S ELSE <<a, b>> \in S
    BY <1>4, <2>1, <2>2
  <2> QED
    BY <2>1, <2>2, <2>3, Shifted
<1> QED
  BY <1>2, <1>3, <1>4, <1>5

(* What an action leaves alone. *)
LEMMA PlacesKept ==
  /\ UNCHANGED box => \A r \in Ranks : InBox(r)' = InBox(r)
  /\ UNCHANGED got => \A r \in Ranks : InDispatch(r)' = InDispatch(r)
  /\ UNCHANGED queue => \A r \in Ranks : InQueue(r)' = InQueue(r)
  /\ UNCHANGED serving => \A r \in Ranks : InService(r)' = InService(r)
  /\ UNCHANGED slot => \A r \in Ranks : InSlot(r)' = InSlot(r)
BY DEF InBox, InDispatch, InQueue, InService, InSlot
-----------------------------------------------------------------------------
(* The last messages of the processes to each other. *)

(* The only message from Requests on that a process sends to p. *)
LEMMA FinalIndex ==
  ASSUME NEW q \in Ranks, NEW p \in Ranks
  PROVE  /\ Final(q, p) \in Requests .. LastMessage
         /\ \A n \in 0 .. LastMessage :
              /\ IsControl(Message(q, n)) <=> n >= Requests
              /\ n >= Requests /\ Dest(q, n) = p <=> n = Final(q, p)
              /\ IsControl(Message(q, n)) => (Message(q, n).type = "LOCAL_DONE" <=> Dest(q, n) = q)
<1>1. Final(q, p) \in Requests .. LastMessage
  <2>1. q \in 0 .. NProc - 1 /\ p \in 0 .. NProc - 1
    BY DEF Ranks
  <2> QED
    BY <2>1, Sizes DEF Final, StopIndex
<1>2. ASSUME NEW n \in 0 .. LastMessage
      PROVE  /\ IsControl(Message(q, n)) <=> n >= Requests
             /\ n >= Requests /\ Dest(q, n) = p <=> n = Final(q, p)
             /\ IsControl(Message(q, n)) => (Message(q, n).type = "LOCAL_DONE" <=> Dest(q, n) = q)
  <2>1. IsControl(Message(q, n)) <=> n >= Requests
    BY Sends, Sizes DEF IsControl
  <2>2. Message(q, n).type = "LOCAL_DONE" <=> n = LastMessage
    BY Sends, Sizes
  <2>3. n = LastMessage <=> Dest(q, n) = q
    BY Destinations, Sizes
  <2>4. n >= Requests /\ Dest(q, n) = p <=> n = Final(q, p)
    BY SMTT(40), <1>1, <2>3, Destinations, Sizes DEF Final
  <2> QED
    BY <2>1, <2>2, <2>3, <2>4
<1> QED
  BY <1>1, <1>2

(* A message is sent. *)
LEMMA FinalPosted ==
  ASSUME TypeInv, FinalInv, NEW p \in Ranks, NEW q \in Ranks, NEW m \in DbMessage,
         Post(p, q, m), UNCHANGED got,
         sent' \in [Ranks -> 0 .. LastMessage + 1], \A a \in Ranks : sent'[a] >= sent[a],
         IsControl(m) => /\ m.type = "LOCAL_DONE" <=> m.source_rank = q
                         /\ sent[m.source_rank] <= Final(m.source_rank, q)
                         /\ sent'[m.source_rank] > Final(m.source_rank, q)
  PROVE  /\ FinalInv'
         /\ \A a, b \in Ranks :
              InBoxFinal(a, b)' <=>
                InBoxFinal(a, b) \/ (b = q /\ IsControl(m) /\ m.source_rank = a)
         /\ \A a, b \in Ranks : InGotFinal(a, b)' <=> InGotFinal(a, b)
<1>1. /\ box \in [Ranks -> Seq(DbMessage)]
      /\ box' = [box EXCEPT ![q] = Append(@, m)]
  BY DEF TypeInv, Post
<1>2. /\ \A a \in Ranks : Len(box[a]) \in Nat /\ DOMAIN box[a] = 1 .. Len(box[a])
      /\ \A a \in Ranks : Len(box'[a]) = IF a = q THEN Len(box[a]) + 1 ELSE Len(box[a])
      /\ \A a \in Ranks : DOMAIN box'[a] = 1 .. Len(box'[a])
      /\ \A a \in Ranks : \A k \in DOMAIN box[a] : box'[a][k] = box[a][k]
      /\ box'[q][Len(box[q]) + 1] = m
  BY <1>1, Appended
<1>3. PICK new \in Nat : new = Len(box[q]) + 1
  BY <1>2
<1>4. /\ \A b \in Ranks : DOMAIN box'[b] = IF b = q THEN DOMAIN box[b] \cup {new} ELSE DOMAIN box[b]
      /\ new \notin DOMAIN box[q] /\ box'[q][new] = m
      /\ \A b \in Ranks : \A k \in DOMAIN box[b] : box'[b][k] = box[b][k]
  <2>1. ASSUME NEW b \in Ranks
        PROVE  DOMAIN box'[b] = IF b = q THEN DOMAIN box[b] \cup {new} ELSE DOMAIN box[b]
    <3>1. CASE b = q
      <4>1. \A n \in Nat : 1 .. n + 1 = (1 .. n) \cup {n + 1}
        OBVIOUS
      <4> QED
        BY <1>2, <1>3, <3>1, <4>1
    <3>2. CASE b # q
      BY <1>2, <3>2
    <3> QED
      BY <3>1, <3>2
  <2>2. new \notin DOMAIN box[q] /\ box'[q][new] = m
    BY <1>2, <1>3
  <2> QED
    BY <1>2, <2>1, <2>2
<1>5. m.source_rank \in Ranks
  BY Kinds
<1>6. ASSUME NEW a \in Ranks, NEW b \in Ranks
      PROVE  /\ InBoxFinal(a, b)' <=>
                  InBoxFinal(a, b) \/ (b = q /\ IsControl(m) /\ m.source_rank = a)
             /\ InGotFinal(a, b)' <=> InGotFinal(a, b)
  <2>1. InBoxFinal(a, b)' <=> \E k \in DOMAIN box'[b] : IsControl(box'[b][k]) /\ box'[b][k].source_rank = a
    BY DEF InBoxFinal, IsControl
  <2>2. CASE b = q
    <3>1. DOMAIN box'[b] = DOMAIN box[b] \cup {new} /\ box'[b][new] = m
      BY <1>4, <2>2
    <3>2. \A k \in DOMAIN box[b] : box'[b][k] = box[b][k]
      BY <1>4
    <3> QED
      BY <2>1, <2>2, <3>1, <3>2 DEF InBoxFinal, InGotFinal
  <2>3. CASE b # q
    <3>1. DOMAIN box'[b] = DOMAIN box[b]
      BY <1>4, <2>3
    <3>2. \A k \in DOMAIN box[b] : box'[b][k] = box[b][k]
      BY <1>4
    <3> QED
      BY <2>1, <2>3, <3>1, <3>2 DEF InBoxFinal, InGotFinal
  <2> QED
    BY <2>2, <2>3
<1>7. \A a, b \in Ranks : Final(a, b) \in Nat /\ sent[a] \in Nat /\ sent'[a] \in Nat
  <2>1. \A a \in Ranks : sent[a] \in 0 .. LastMessage + 1
    BY DEF TypeInv
  <2>2. \A a \in Ranks : sent'[a] \in 0 .. LastMessage + 1
    OBVIOUS
  <2>3. \A a, b \in Ranks : Final(a, b) \in Requests .. LastMessage
    BY FinalIndex
  <2> QED
    BY <2>1, <2>2, <2>3, Sizes
<1>8. IsControl(m) => ~InBoxFinal(m.source_rank, q) /\ ~InGotFinal(m.source_rank, q)
  BY <1>5, <1>7 DEF FinalInv
<1>9. ASSUME NEW b \in Ranks
      PROVE  /\ \A k \in DOMAIN box'[b] : IsControl(box'[b][k]) =>
                  (box'[b][k].type = "LOCAL_DONE" <=> box'[b][k].source_rank = b)
             /\ \A n \in got'[b] : IsControl(n) => (n.type = "LOCAL_DONE" <=> n.source_rank = b)
  <2>1. \A i \in DOMAIN box'[b] : IF i \in DOMAIN box[b] THEN box'[b][i] = box[b][i]
                                  ELSE b = q /\ box'[b][i] = m
    BY ZenonT(40), <1>4
  <2>2. \A k \in DOMAIN box[b] : IsControl(box[b][k]) =>
          (box[b][k].type = "LOCAL_DONE" <=> box[b][k].source_rank = b)
    BY DEF FinalInv
  <2>3. \A n \in got[b] : IsControl(n) => (n.type = "LOCAL_DONE" <=> n.source_rank = b)
    BY DEF FinalInv
  <2> QED
    BY <2>1, <2>2, <2>3
<1>10. ASSUME NEW b \in Ranks, NEW k \in DOMAIN box'[b], NEW l \in DOMAIN box'[b],
              IsControl(box'[b][k]), IsControl(box'[b][l]),
              box'[b][k].source_rank = box'[b][l].source_rank
       PROVE  k = l
  <2>1. \A i \in DOMAIN box'[b] : IF i \in DOMAIN box[b] THEN box'[b][i] = box[b][i]
                                  ELSE b = q /\ i = new /\ box'[b][i] = m
    BY ZenonT(40), <1>4
  <2>2. \A i \in DOMAIN box[b] :
          IsControl(box[b][i]) /\ IsControl(m) /\ b = q => box[b][i].source_rank # m.source_rank
    BY <1>5, <1>8 DEF InBoxFinal
  <2>3. CASE k \in DOMAIN box[b] /\ l \in DOMAIN box[b]
    BY <1>10, <2>1, <2>3 DEF FinalInv
  <2>4. CASE k \in DOMAIN box[b] /\ l \notin DOMAIN box[b]
    BY <1>10, <2>1, <2>2, <2>4
  <2>5. CASE k \notin DOMAIN box[b] /\ l \in DOMAIN box[b]
    BY <1>10, <2>1, <2>2, <2>5
  <2>6. CASE k \notin DOMAIN box[b] /\ l \notin DOMAIN box[b]
    BY <2>1, <2>6
  <2> QED
    BY <2>3, <2>4, <2>5, <2>6
<1>11. ASSUME NEW b \in Ranks, NEW a \in Ranks
       PROVE  /\ InBoxFinal(a, b)' \/ InGotFinal(a, b)' => sent'[a] > Final(a, b)
              /\ ~(InBoxFinal(a, b)' /\ InGotFinal(a, b)')
  <2>1. InBoxFinal(a, b) \/ InGotFinal(a, b) => sent[a] > Final(a, b)
    BY DEF FinalInv
  <2>2. ~(InBoxFinal(a, b) /\ InGotFinal(a, b))
    BY DEF FinalInv
  <2> QED
    BY <1>6, <1>7, <1>8, <2>1, <2>2
<1>12. FinalInv'
  BY <1>9, <1>10, <1>11 DEF FinalInv
<1> QED
  BY <1>6, <1>12

(* A message is received. *)
LEMMA FinalReceived ==
  ASSUME TypeInv, FinalInv, NEW p \in Ranks, got[p] = {}, box[p] # <<>>,
         got' = [got EXCEPT ![p] = {Head(box[p])}], box' = [box EXCEPT ![p] = Tail(@)],
         UNCHANGED sent
  PROVE  /\ FinalInv'
         /\ \A a, b \in Ranks :
              InBoxFinal(a, b)' \/ InGotFinal(a, b)' <=> InBoxFinal(a, b) \/ InGotFinal(a, b)
<1>1. box \in [Ranks -> Seq(DbMessage)] /\ got \in [Ranks -> SUBSET DbMessage]
  BY DEF TypeInv
<1>2. /\ \A a \in Ranks : Len(box[a]) \in Nat /\ DOMAIN box[a] = 1 .. Len(box[a])
      /\ \A a \in Ranks : Len(box'[a]) = IF a = p THEN Len(box[a]) - 1 ELSE Len(box[a])
      /\ \A a \in Ranks : DOMAIN box'[a] = 1 .. Len(box'[a])
      /\ \A a \in Ranks : \A k \in DOMAIN box'[a] :
           box'[a][k] = IF a = p THEN box[a][k + 1] ELSE box[a][k]
      /\ Head(box[p]) = box[p][1] /\ 1 \in DOMAIN box[p]
  BY <1>1, Dropped
<1>3. /\ got'[p] = {box[p][1]} /\ \A b \in Ranks \ {p} : got'[b] = got[b]
      /\ \A b \in Ranks \ {p} : DOMAIN box'[b] = DOMAIN box[b]
      /\ \A b \in Ranks \ {p} : \A k \in DOMAIN box[b] : box'[b][k] = box[b][k]
      /\ \A k \in DOMAIN box'[p] : k + 1 \in DOMAIN box[p] /\ box'[p][k] = box[p][k + 1]
      /\ \A k \in DOMAIN box[p] : k = 1 \/ \E l \in DOMAIN box'[p] : l + 1 = k
  <2>1. got'[p] = {box[p][1]} /\ \A b \in Ranks \ {p} : got'[b] = got[b]
    BY <1>1, <1>2
  <2>2. /\ \A b \in Ranks \ {p} : DOMAIN box'[b] = DOMAIN box[b]
        /\ \A b \in Ranks \ {p} : \A k \in DOMAIN box[b] : box'[b][k] = box[b][k]
    BY <1>2
  <2>3. \A k \in DOMAIN box'[p] : k + 1 \in DOMAIN box[p] /\ box'[p][k] = box[p][k + 1]
    BY <1>2
  <2>4. ASSUME NEW k \in DOMAIN box[p], k # 1  PROVE \E l \in DOMAIN box'[p] : l + 1 = k
    <3>1. k - 1 \in DOMAIN box'[p] /\ (k - 1) + 1 = k
      BY <1>2, <2>4
    <3> QED
      BY <3>1
  <2> QED
    BY <2>1, <2>2, <2>3, <2>4
<1>4. ASSUME NEW a \in Ranks, NEW b \in Ranks \ {p}
      PROVE  (InBoxFinal(a, b)' <=> InBoxFinal(a, b)) /\ (InGotFinal(a, b)' <=> InGotFinal(a, b))
  BY <1>3 DEF InBoxFinal, InGotFinal
<1>5. ASSUME NEW a \in Ranks
      PROVE  /\ InGotFinal(a, p)' <=> IsControl(box[p][1]) /\ box[p][1].source_rank = a
             /\ ~InGotFinal(a, p)
             /\ InBoxFinal(a, p) <=> InBoxFinal(a, p)' \/ InGotFinal(a, p)'
             /\ ~(InBoxFinal(a, p)' /\ InGotFinal(a, p)')
  <2>1. InGotFinal(a, p)' <=> IsControl(box[p][1]) /\ box[p][1].source_rank = a
    BY <1>3 DEF InGotFinal
  <2>2. ~InGotFinal(a, p)
    BY DEF InGotFinal
  <2>3. InBoxFinal(a, p)' => InBoxFinal(a, p)
    BY <1>3 DEF InBoxFinal
  <2>4. InGotFinal(a, p)' => InBoxFinal(a, p)
    BY <1>2, <2>1 DEF InBoxFinal
  <2>5. InBoxFinal(a, p) => InBoxFinal(a, p)' \/ InGotFinal(a, p)'
    <3>1. SUFFICES ASSUME NEW k \in DOMAIN box[p], IsControl(box[p][k]), box[p][k].source_rank = a
                   PROVE  InBoxFinal(a, p)' \/ InGotFinal(a, p)'
      BY DEF InBoxFinal
    <3>2. CASE k = 1
      BY <2>1, <3>1, <3>2
    <3>3. CASE k # 1
      <4>1. PICK l \in DOMAIN box'[p] : l + 1 = k
        BY <1>3, <3>3
      <4>2. box'[p][l] = box[p][k]
        BY <1>3, <4>1
      <4> QED
        BY <3>1, <4>2 DEF InBoxFinal
    <3> QED
      BY <3>2, <3>3
  <2>6. ASSUME InBoxFinal(a, p)', InGotFinal(a, p)'  PROVE FALSE
    <3>1. PICK k \in DOMAIN box'[p] : IsControl(box'[p][k]) /\ box'[p][k].source_rank = a
      BY <2>6 DEF InBoxFinal
    <3>2. k + 1 \in DOMAIN box[p] /\ IsControl(box[p][k + 1]) /\ box[p][k + 1].source_rank = a
      BY <1>3, <3>1
    <3>3. k + 1 = 1
      BY <1>2, <2>1, <2>6, <3>2 DEF FinalInv
    <3> QED
      BY <1>2, <3>1, <3>3
  <2> QED
    BY <2>1, <2>2, <2>3, <2>4, <2>5, <2>6
<1>6. ASSUME NEW b \in Ranks
      PROVE  /\ \A k \in DOMAIN box'[b] : IsControl(box'[b][k]) =>
                  (box'[b][k].type = "LOCAL_DONE" <=> box'[b][k].source_rank = b)
             /\ \A n \in got'[b] : IsControl(n) => (n.type = "LOCAL_DONE" <=> n.source_rank = b)
  <2>1. /\ \A k \in DOMAIN box[b] : IsControl(box[b][k]) =>
             (box[b][k].type = "LOCAL_DONE" <=> box[b][k].source_rank = b)
        /\ \A n \in got[b] : IsControl(n) => (n.type = "LOCAL_DONE" <=> n.source_rank = b)
    BY DEF FinalInv
  <2>2. CASE b = p
    BY <1>2, <1>3, <2>1, <2>2
  <2>3. CASE b # p
    BY <1>3, <2>1, <2>3
  <2> QED
    BY <2>2, <2>3
<1>7. ASSUME NEW b \in Ranks, NEW k \in DOMAIN box'[b], NEW l \in DOMAIN box'[b],
             IsControl(box'[b][k]), IsControl(box'[b][l]),
             box'[b][k].source_rank = box'[b][l].source_rank
      PROVE  k = l
  <2>1. \A i, j \in DOMAIN box[b] :
          IsControl(box[b][i]) /\ IsControl(box[b][j])
            /\ box[b][i].source_rank = box[b][j].source_rank => i = j
    BY DEF FinalInv
  <2>2. CASE b = p
    <3>1. k + 1 = l + 1
      BY SMTT(40), <1>3, <1>7, <2>1, <2>2
    <3>2. k \in Nat /\ l \in Nat
      BY <1>2
    <3> QED
      BY <3>1, <3>2
  <2>3. CASE b # p
    BY <1>3, <1>7, <2>1, <2>3
  <2> QED
    BY <2>2, <2>3
<1>8. ASSUME NEW a \in Ranks, NEW b \in Ranks
      PROVE  /\ InBoxFinal(a, b)' \/ InGotFinal(a, b)' <=> InBoxFinal(a, b) \/ InGotFinal(a, b)
             /\ ~(InBoxFinal(a, b)' /\ InGotFinal(a, b)')
  <2>1. ~(InBoxFinal(a, b) /\ InGotFinal(a, b))
    BY DEF FinalInv
  <2>2. CASE b = p
    BY <1>5, <2>2
  <2>3. CASE b # p
    BY <1>4, <2>1, <2>3
  <2> QED
    BY <2>2, <2>3
<1>9. \A a, b \in Ranks : InBoxFinal(a, b)' \/ InGotFinal(a, b)' => sent'[a] > Final(a, b)
  BY <1>8 DEF FinalInv
<1>10. FinalInv'
  BY SMTT(40), <1>6, <1>7, <1>8, <1>9 DEF FinalInv
<1> QED
  BY <1>8, <1>10

(* A message is dispatched. *)
LEMMA FinalDispatched ==
  ASSUME TypeInv, FinalInv, NEW p \in Ranks, NEW m \in DbMessage, got[p] = {m},
         got' = [got EXCEPT ![p] = {}], UNCHANGED <<box, sent>>
  PROVE  /\ FinalInv'
         /\ \A a, b \in Ranks : InBoxFinal(a, b)' <=> InBoxFinal(a, b)
         /\ \A a, b \in Ranks :
              InGotFinal(a, b) <=>
                InGotFinal(a, b)' \/ (b = p /\ IsControl(m) /\ m.source_rank = a)
         /\ \A a \in Ranks : ~InGotFinal(a, p)'
<1>1. got'[p] = {} /\ \A b \in Ranks \ {p} : got'[b] = got[b]
  BY DEF TypeInv
<1>2. \A a, b \in Ranks : InBoxFinal(a, b)' <=> InBoxFinal(a, b)
  BY DEF InBoxFinal
<1>3. ASSUME NEW a \in Ranks, NEW b \in Ranks
      PROVE  /\ InGotFinal(a, b) <=>
                  InGotFinal(a, b)' \/ (b = p /\ IsControl(m) /\ m.source_rank = a)
             /\ b = p => ~InGotFinal(a, b)'
  BY <1>1 DEF InGotFinal
<1>4. \A b \in Ranks : got'[b] \subseteq got[b]
  BY <1>1
<1>5. FinalInv'
  BY <1>2, <1>3, <1>4 DEF FinalInv
<1> QED
  BY <1>2, <1>3, <1>5

(* Neither is. *)
LEMMA FinalKept ==
  ASSUME UNCHANGED <<box, got, sent>>
  PROVE  /\ FinalInv => FinalInv'
         /\ \A p \in Ranks : Noted(p)' = Noted(p)
<1>1. \A a, b \in Ranks : /\ InBoxFinal(a, b)' <=> InBoxFinal(a, b)
                          /\ InGotFinal(a, b)' <=> InGotFinal(a, b)
  BY DEF InBoxFinal, InGotFinal
<1> QED
  BY <1>1 DEF FinalInv, Noted
-----------------------------------------------------------------------------
(* What the receivers counted. *)

(* There are NProc - 1 other ranks. *)
LEMMA OtherRanks ==
  /\ IsFiniteSet(Ranks)
  /\ \A p \in Ranks : IsFiniteSet(Ranks \ {p}) /\ Cardinality(Ranks \ {p}) = NProc - 1
<1>1. IsFiniteSet(Ranks) /\ Cardinality(Ranks) = NProc
  <2>1. 0 \in Int /\ NProc - 1 \in Int /\ 0 <= NProc - 1
    BY Sizes
  <2>2. IsFiniteSet(0 .. NProc - 1) /\ Cardinality(0 .. NProc - 1) = (NProc - 1) - 0 + 1
    BY <2>1, FS_Interval
  <2> QED
    BY <2>2, Sizes DEF Ranks
<1> QED
  BY <1>1, FS_RemoveElement

(* A step that receives no control message changes no count. *)
LEMMA CountKept ==
  ASSUME CountInv, \A p \in Ranks : Noted(p)' = Noted(p), UNCHANGED <<stops, local_done, closed>>
  PROVE  CountInv'
BY DEF CountInv, AllStopped

(* A receiver that may return has counted every process. *)
LEMMA Drained ==
  ASSUME TypeInv, CountInv, NEW p \in Ranks, AllStopped(p)
  PROVE  Noted(p) = Ranks
<1>1. Cardinality(Noted(p) \ {p}) = NProc - 1 /\ p \in Noted(p)
  BY DEF CountInv, AllStopped
<1>2. Noted(p) \ {p} \subseteq Ranks \ {p}
  BY DEF Noted
<1>3. Noted(p) \ {p} = Ranks \ {p}
  BY <1>1, <1>2, OtherRanks, FS_Subset
<1> QED
  BY <1>1, <1>3

(* What a receiver holds. *)
LEMMA Got ==
  ASSUME NEW p \in Ranks, NEW G, \A q \in Ranks : got'[q] = (IF q = p THEN G ELSE got[q]),
         NEW r \in Ranks
  PROVE  InDispatch(r)' = IF \E m \in G : Concerns(m, p, r) THEN InDispatch(r) \cup {p}
                          ELSE InDispatch(r) \ {p}
BY DEF InDispatch

(* What a request handler holds. *)
LEMMA Served ==
  ASSUME NEW p \in Ranks, NEW G, \A q \in Ranks : serving'[q] = (IF q = p THEN G ELSE serving[q]),
         NEW r \in Ranks
  PROVE  InService(r)' = IF \E a \in G : a.dest = r THEN InService(r) \cup {p}
                         ELSE InService(r) \ {p}
BY DEF InService

(* A set of one element, and how one comes about. *)
LEMMA Singles ==
  /\ \A S, x : One(S) /\ x \in S => S \ {x} = {}
  /\ \A S, x : S = {} => One(S \cup {x})
  /\ \A S : One(S) => S # {}
BY DEF One

(* The messages in the boxes after one was sent. *)
LEMMA ContentPosted ==
  ASSUME TypeInv, ContentInv, NEW p \in Ranks, NEW q \in Ranks, NEW m \in DbMessage, Post(p, q, m),
         m.type = "REQUEST" => m.source_rank # q
  PROVE  \A a \in Ranks : \A k \in DOMAIN box'[a] :
           box'[a][k].type = "REQUEST" => box'[a][k].source_rank # a
<1>1. /\ box \in [Ranks -> Seq(DbMessage)]
      /\ box' = [box EXCEPT ![q] = Append(@, m)]
  BY DEF TypeInv, Post
<1>2. /\ \A a \in Ranks : Len(box[a]) \in Nat /\ DOMAIN box[a] = 1 .. Len(box[a])
      /\ \A a \in Ranks : Len(box'[a]) = IF a = q THEN Len(box[a]) + 1 ELSE Len(box[a])
      /\ \A a \in Ranks : DOMAIN box'[a] = 1 .. Len(box'[a])
      /\ \A a \in Ranks : \A k \in DOMAIN box[a] : box'[a][k] = box[a][k]
      /\ box'[q][Len(box[q]) + 1] = m
  BY <1>1, Appended
<1>3. ASSUME NEW a \in Ranks, NEW k \in DOMAIN box'[a]
      PROVE  (k \in DOMAIN box[a] /\ box'[a][k] = box[a][k]) \/ (a = q /\ box'[a][k] = m)
  BY <1>2
<1>4. \A a \in Ranks : \A k \in DOMAIN box[a] : box[a][k].type = "REQUEST" => box[a][k].source_rank # a
  BY DEF ContentInv
<1> QED
  BY <1>3, <1>4
-----------------------------------------------------------------------------
(* Every action keeps the invariant. *)

(* The compute thread sends its next message. *)
LEMMA ComputePostKeeps ==
  ASSUME ProtocolInv, NEW p \in Ranks, ComputePost(p)
  PROVE  ProtocolInv'
<1>1. TypeInv /\ ContentInv /\ PlaceInv /\ FinalInv /\ CountInv
  BY DEF ProtocolInv
<1>2. PICK n \in 0 .. LastMessage : n = sent[p]
  <2>1. sent[p] \in 0 .. LastMessage + 1 /\ sent[p] <= LastMessage
    BY <1>1 DEF TypeInv, ComputePost
  <2> QED
    BY <2>1, Sizes
<1>3. PICK q \in Ranks : q = Dest(p, n)
  BY Destinations
<1>4. PICK m \in DbMessage : m = Message(p, n)
  BY Sends
<1>5. /\ ~awaiting[p] /\ Post(p, q, m)
      /\ sent' = [sent EXCEPT ![p] = n + 1] /\ awaiting' = [awaiting EXCEPT ![p] = n < Requests]
      /\ UNCHANGED <<slot, queue, closed, serving, handled, got, stops, local_done>>
  BY <1>2, <1>3, <1>4 DEF ComputePost, handlerVars, receiverVars
<1>6. /\ m.source_rank = p
      /\ n < Requests => m.type = "REQUEST" /\ q # p
      /\ n >= Requests => m.type \in {"STOP", "LOCAL_DONE"}
  BY <1>3, <1>4, Sends, Destinations, Sizes
<1>7. TypeInv'
  <2>1. box' \in [Ranks -> Seq(DbMessage)] /\ \A a \in Ranks : Len(box'[a]) <= 2
    BY <1>1, <1>5, InBoxAppended
  <2>2. n + 1 \in 0 .. LastMessage + 1
    BY Sizes
  <2>3. sent' \in [Ranks -> 0 .. LastMessage + 1] /\ awaiting' \in [Ranks -> BOOLEAN]
    BY <1>1, <1>5, <2>2 DEF TypeInv
  <2> QED
    BY <1>1, <1>5, <2>1, <2>3 DEF TypeInv
<1>8. ContentInv'
  <2>1. m.type = "REQUEST" => m.source_rank # q
    BY <1>6, Sizes
  <2>2. \A a \in Ranks : \A k \in DOMAIN box'[a] :
           box'[a][k].type = "REQUEST" => box'[a][k].source_rank # a
    BY <1>1, <1>5, <2>1, ContentPosted
  <2> QED
    BY <1>1, <1>5, <2>2 DEF ContentInv
<1>9. PlaceInv'
  <2> SUFFICES ASSUME NEW r \in Ranks
               PROVE  /\ awaiting'[r] => sent'[r] <= Requests /\ Somewhere(r)'
                      /\ ~awaiting'[r] => Nowhere(r)'
    BY DEF PlaceInv
  <2>1. /\ InDispatch(r)' = InDispatch(r) /\ InQueue(r)' = InQueue(r)
        /\ InService(r)' = InService(r) /\ InSlot(r)' = InSlot(r)
    BY <1>5, PlacesKept
  <2>2. /\ ~Concerns(m, q, r) => InBox(r)' = InBox(r)
        /\ Concerns(m, q, r) /\ InBox(r) = {} => One(InBox(r)')
    BY <1>1, <1>5, InBoxAppended
  <2>3. Concerns(m, q, r) <=> r = p /\ n < Requests
    BY <1>6, Sizes DEF Concerns
  <2>4. CASE r = p
    <3>1. Nowhere(p)
      BY <1>1, <1>5 DEF PlaceInv
    <3>2. awaiting'[p] = (n < Requests) /\ sent'[p] = n + 1
      BY <1>1, <1>5 DEF TypeInv
    <3>3. n < Requests => n + 1 <= Requests
      BY Sizes
    <3> QED
      BY <2>1, <2>2, <2>3, <2>4, <3>1, <3>2, <3>3 DEF Nowhere, Somewhere
  <2>5. CASE r # p
    <3>1. awaiting'[r] = awaiting[r] /\ sent'[r] = sent[r]
      BY <1>1, <1>5, <2>5 DEF TypeInv
    <3> QED
      BY <1>1, <2>1, <2>2, <2>3, <2>5, <3>1 DEF PlaceInv, Nowhere, Somewhere
  <2> QED
    BY <2>4, <2>5
<1>10. /\ IsControl(m) => (m.type = "LOCAL_DONE" <=> m.source_rank = q)
       /\ IsControl(m) => n = Final(p, q)
       /\ \A b \in Ranks : n = Final(p, b) => IsControl(m) /\ b = q
  BY <1>3, <1>4, <1>6, FinalIndex
<1>11. /\ \A a \in Ranks : sent[a] \in Nat /\ sent'[a] = IF a = p THEN n + 1 ELSE sent[a]
       /\ \A a \in Ranks : sent'[a] >= sent[a]
       /\ \A a, b \in Ranks : Final(a, b) \in Nat
  <2>1. \A a, b \in Ranks : Final(a, b) \in Requests .. LastMessage
    BY FinalIndex
  <2>2. \A a \in Ranks : sent[a] \in 0 .. LastMessage + 1 /\ sent'[a] = IF a = p THEN n + 1 ELSE sent[a]
    BY <1>1, <1>5 DEF TypeInv
  <2>3. \A a \in Ranks : sent[a] \in Nat
    BY <2>2, Sizes
  <2>4. \A a, b \in Ranks : Final(a, b) \in Nat
    BY <2>1, Sizes
  <2> QED
    BY <1>2, <2>2, <2>3, <2>4
<1>12. /\ FinalInv'
       /\ \A a, b \in Ranks :
            InBoxFinal(a, b)' <=> InBoxFinal(a, b) \/ (b = q /\ IsControl(m) /\ m.source_rank = a)
       /\ \A a, b \in Ranks : InGotFinal(a, b)' <=> InGotFinal(a, b)
  <2>1. IsControl(m) => /\ m.type = "LOCAL_DONE" <=> m.source_rank = q
                        /\ sent[m.source_rank] <= Final(m.source_rank, q)
                        /\ sent'[m.source_rank] > Final(m.source_rank, q)
    BY <1>2, <1>6, <1>10, <1>11
  <2>2. sent' \in [Ranks -> 0 .. LastMessage + 1]
    BY <1>7 DEF TypeInv
  <2> QED
    BY <1>1, <1>5, <1>11, <2>1, <2>2, FinalPosted
<1>13. ASSUME NEW b \in Ranks  PROVE Noted(b)' = Noted(b)
  <2>1. ASSUME NEW a \in Ranks
        PROVE  /\ sent'[a] > Final(a, b) /\ ~InBoxFinal(a, b)' /\ ~InGotFinal(a, b)'
                  <=> sent[a] > Final(a, b) /\ ~InBoxFinal(a, b) /\ ~InGotFinal(a, b)
    <3>1. CASE a = p /\ n = Final(p, b)
      BY <1>2, <1>6, <1>10, <1>11, <1>12, <3>1
    <3>2. CASE a = p /\ n # Final(p, b)
      <4>1. n + 1 > Final(p, b) <=> n > Final(p, b)
        BY <1>11, <3>2
      <4> QED
        BY <1>2, <1>6, <1>10, <1>11, <1>12, <3>2, <4>1
    <3>3. CASE a # p
      BY <1>6, <1>11, <1>12, <3>3
    <3> QED
      BY <3>1, <3>2, <3>3
  <2> QED
    BY <2>1 DEF Noted
<1>14. CountInv'
  BY <1>1, <1>5, <1>13, CountKept
<1> QED
  BY <1>7, <1>8, <1>9, <1>12, <1>14 DEF ProtocolInv

(* The compute thread takes the response from the slot. *)
LEMMA TakeResponseKeeps ==
  ASSUME ProtocolInv, NEW p \in Ranks, TakeResponse(p)
  PROVE  ProtocolInv'
<1>1. TypeInv /\ ContentInv /\ PlaceInv /\ FinalInv /\ CountInv
  BY DEF ProtocolInv
<1>2. /\ awaiting[p] /\ slot[p] # {}
      /\ slot' = [slot EXCEPT ![p] = {}] /\ awaiting' = [awaiting EXCEPT ![p] = FALSE]
      /\ UNCHANGED <<box, sent, queue, closed, serving, handled, got, stops, local_done>>
  BY DEF TakeResponse, None, handlerVars, receiverVars
<1>3. TypeInv'
  <2>1. /\ slot' \in [Ranks -> SUBSET [request_id: 0 .. Requests - 1, size: {ResponseSize}]]
        /\ awaiting' \in [Ranks -> BOOLEAN]
    BY <1>1, <1>2 DEF TypeInv
  <2> QED
    BY <1>1, <1>2, <2>1 DEF TypeInv
<1>4. ContentInv'
  BY <1>1, <1>2 DEF ContentInv
<1>5. PlaceInv'
  <2> SUFFICES ASSUME NEW r \in Ranks
               PROVE  /\ awaiting'[r] => sent'[r] <= Requests /\ Somewhere(r)'
                      /\ ~awaiting'[r] => Nowhere(r)'
    BY DEF PlaceInv
  <2>1. /\ InBox(r)' = InBox(r) /\ InDispatch(r)' = InDispatch(r) /\ InQueue(r)' = InQueue(r)
        /\ InService(r)' = InService(r)
    BY <1>2, PlacesKept
  <2>2. /\ InSlot(r)' = IF r = p THEN {} ELSE InSlot(r)
        /\ awaiting'[r] = IF r = p THEN FALSE ELSE awaiting[r]
    BY <1>1, <1>2 DEF TypeInv, InSlot
  <2>3. r = p => InSlot(r) # {} /\ awaiting[r]
    BY <1>2 DEF InSlot
  <2> QED
    BY <1>1, <1>2, <2>1, <2>2, <2>3 DEF PlaceInv, Nowhere, Somewhere
<1>6. FinalInv' /\ CountInv'
  BY <1>1, <1>2, FinalKept, CountKept
<1> QED
  BY <1>3, <1>4, <1>5, <1>6 DEF ProtocolInv

(* The request handler pops a request and makes the response. *)
LEMMA TakeRequestKeeps ==
  ASSUME ProtocolInv, NEW p \in Ranks, TakeRequest(p)
  PROVE  ProtocolInv'
<1>1. TypeInv /\ ContentInv /\ PlaceInv /\ FinalInv /\ CountInv
  BY DEF ProtocolInv
<1>2. queue[p] # <<>> /\ queue' = [queue EXCEPT ![p] = Tail(@)] /\ serving[p] = {}
  BY DEF TakeRequest, None
<1>3. /\ \A a \in Ranks : DOMAIN queue[a] = 1 .. Len(queue[a]) /\ Len(queue[a]) \in Nat
      /\ \A a \in Ranks : Len(queue'[a]) = IF a = p THEN Len(queue[a]) - 1 ELSE Len(queue[a])
      /\ \A a \in Ranks : DOMAIN queue'[a] = 1 .. Len(queue'[a])
      /\ \A a \in Ranks : \A k \in DOMAIN queue'[a] :
           queue'[a][k] = IF a = p THEN queue[a][k + 1] ELSE queue[a][k]
      /\ Head(queue[p]) = queue[p][1] /\ 1 \in DOMAIN queue[p] /\ Head(queue[p]) \in DbMessage
  BY <1>1, <1>2, Dropped DEF TypeInv
<1>4. PICK m \in DbMessage : m = Head(queue[p])
  BY <1>3
<1>5. m.type = "REQUEST" /\ m.source_rank # p
  BY <1>1, <1>3, <1>4 DEF ContentInv
<1>6. m.source_rank \in Ranks /\ Response(p, m) \in DbMessage /\ Response(p, m).type = "RESPONSE"
  BY <1>5, Kinds
<1>7. PICK s \in [dest: Ranks, msg: DbMessage] :
        s = [dest |-> m.source_rank, msg |-> Response(p, m)]
  BY <1>6
<1>8. s.dest = m.source_rank /\ s.msg.type = "RESPONSE"
  BY <1>6, <1>7
<1>9. /\ serving' = [serving EXCEPT ![p] = {s}]
      /\ UNCHANGED <<box, sent, awaiting, slot, closed, handled, got, stops, local_done>>
  BY <1>4, <1>7 DEF TakeRequest, computeVars, receiverVars
<1>10. TypeInv'
  <2>1. queue' \in [Ranks -> Seq(DbMessage)] /\ \A a \in Ranks : Len(queue'[a]) <= Capacity
    BY <1>1, <1>2, InQueueDropped
  <2>2. serving' \in [Ranks -> SUBSET [dest: Ranks, msg: DbMessage]]
    BY <1>1, <1>9 DEF TypeInv
  <2> QED
    BY <1>1, <1>9, <2>1, <2>2 DEF TypeInv
<1>11. ContentInv'
  <2>1. ASSUME NEW a \in Ranks, NEW k \in DOMAIN queue'[a]
        PROVE  queue'[a][k].type = "REQUEST" /\ queue'[a][k].source_rank # a
    <3>1. \E l \in DOMAIN queue[a] : queue'[a][k] = queue[a][l]
      BY <1>3
    <3> QED
      BY <1>1, <3>1 DEF ContentInv
  <2>2. \A a \in Ranks : serving'[a] = IF a = p THEN {s} ELSE serving[a]
    BY <1>1, <1>9 DEF TypeInv
  <2>3. \A a \in Ranks : /\ \A r \in serving'[a] : r.msg.type = "RESPONSE"
                         /\ \A r, u \in serving'[a] : r = u
    BY <1>1, <1>8, <2>2 DEF ContentInv
  <2> QED
    BY <1>1, <1>9, <2>1, <2>3 DEF ContentInv
<1>12. PlaceInv'
  <2> SUFFICES ASSUME NEW r \in Ranks
               PROVE  /\ awaiting'[r] => sent'[r] <= Requests /\ Somewhere(r)'
                      /\ ~awaiting'[r] => Nowhere(r)'
    BY DEF PlaceInv
  <2>1. InBox(r)' = InBox(r) /\ InDispatch(r)' = InDispatch(r) /\ InSlot(r)' = InSlot(r)
    BY <1>9, PlacesKept
  <2>2. p \notin InService(r)
    BY <1>2 DEF InService
  <2>3. InService(r)' = IF r = m.source_rank THEN InService(r) \cup {p} ELSE InService(r)
    <3>1. PICK G : G = {s}
      OBVIOUS
    <3>2. \A a \in Ranks : serving'[a] = IF a = p THEN G ELSE serving[a]
      BY <1>1, <1>9, <3>1 DEF TypeInv
    <3>3. (\E a \in G : a.dest = r) <=> r = m.source_rank
      BY <1>8, <3>1
    <3>4. InService(r)' = IF \E a \in G : a.dest = r THEN InService(r) \cup {p}
                          ELSE InService(r) \ {p}
      BY <3>2, Served
    <3> QED
      BY <2>2, <3>3, <3>4
  <2>4. /\ InQueue(r) = {} => InQueue(r)' = {}
        /\ m.source_rank # r /\ One(InQueue(r)) => One(InQueue(r)')
        /\ m.source_rank = r => InQueue(r) # {}
        /\ m.source_rank = r /\ One(InQueue(r)) => InQueue(r)' = {}
    BY <1>1, <1>2, <1>4, InQueueDropped
  <2>5. InService(r) = {} => One(InService(r) \cup {p})
    BY Singles
  <2> QED
    BY <1>1, <1>9, <2>1, <2>3, <2>4, <2>5 DEF PlaceInv, Nowhere, Somewhere
<1>13. FinalInv' /\ CountInv'
  BY <1>1, <1>9, FinalKept, CountKept
<1> QED
  BY <1>10, <1>11, <1>12, <1>13 DEF ProtocolInv

(* The request handler sends the response. *)
LEMMA ReplyKeeps ==
  ASSUME ProtocolInv, NEW p \in Ranks, Reply(p)
  PROVE  ProtocolInv'
<1>1. TypeInv /\ ContentInv /\ PlaceInv /\ FinalInv /\ CountInv
  BY DEF ProtocolInv
<1>2. PICK s \in serving[p] : Post(p, s.dest, s.msg)
  BY DEF Reply
<1>3. s \in [dest: Ranks, msg: DbMessage]
  BY <1>1, <1>2 DEF TypeInv
<1>4. PICK q \in Ranks, m \in DbMessage : q = s.dest /\ m = s.msg
  BY <1>3
<1>5. Post(p, q, m) /\ m.type = "RESPONSE" /\ serving[p] = {s} /\ ~IsControl(m)
  <2>1. m.type = "RESPONSE" /\ serving[p] = {s}
    BY <1>1, <1>2, <1>4 DEF ContentInv
  <2> QED
    BY <1>2, <1>4, <2>1 DEF IsControl
<1>6. /\ serving' = [serving EXCEPT ![p] = {}]
      /\ UNCHANGED <<sent, awaiting, slot, queue, closed, handled, got, stops, local_done>>
  BY DEF Reply, None, computeVars, receiverVars
<1>7. TypeInv'
  <2>1. box' \in [Ranks -> Seq(DbMessage)] /\ \A a \in Ranks : Len(box'[a]) <= 2
    BY <1>1, <1>5, InBoxAppended
  <2>2. serving' \in [Ranks -> SUBSET [dest: Ranks, msg: DbMessage]]
    BY <1>1, <1>6 DEF TypeInv
  <2> QED
    BY <1>1, <1>6, <2>1, <2>2 DEF TypeInv
<1>8. ContentInv'
  <2>1. \A a \in Ranks : \A k \in DOMAIN box'[a] :
           box'[a][k].type = "REQUEST" => box'[a][k].source_rank # a
    BY <1>1, <1>5, ContentPosted
  <2>2. \A a \in Ranks : serving'[a] \subseteq serving[a]
    BY <1>1, <1>6 DEF TypeInv
  <2> QED
    BY <1>1, <1>6, <2>1, <2>2 DEF ContentInv
<1>9. PlaceInv'
  <2> SUFFICES ASSUME NEW r \in Ranks
               PROVE  /\ awaiting'[r] => sent'[r] <= Requests /\ Somewhere(r)'
                      /\ ~awaiting'[r] => Nowhere(r)'
    BY DEF PlaceInv
  <2>1. InDispatch(r)' = InDispatch(r) /\ InQueue(r)' = InQueue(r) /\ InSlot(r)' = InSlot(r)
    BY <1>6, PlacesKept
  <2>2. Concerns(m, q, r) <=> r = q
    BY <1>5 DEF Concerns
  <2>3. /\ ~Concerns(m, q, r) => InBox(r)' = InBox(r)
        /\ Concerns(m, q, r) /\ InBox(r) = {} => One(InBox(r)')
    BY <1>1, <1>5, InBoxAppended
  <2>4. p \in InService(r) <=> r = q
    BY <1>4, <1>5 DEF InService
  <2>5. InService(r)' = InService(r) \ {p}
    <3>1. PICK G : G = {}
      OBVIOUS
    <3>2. \A a \in Ranks : serving'[a] = IF a = p THEN G ELSE serving[a]
      BY <1>1, <1>6, <3>1 DEF TypeInv
    <3> QED
      BY <3>1, <3>2, Served
  <2>6. r = q => InService(r) # {} /\ (One(InService(r)) => InService(r)' = {})
    BY <2>4, <2>5, Singles
  <2>7. r # q => InService(r)' = InService(r)
    BY <2>4, <2>5
  <2> QED
    BY <1>1, <1>6, <2>1, <2>2, <2>3, <2>6, <2>7 DEF PlaceInv, Nowhere, Somewhere
<1>10. /\ FinalInv'
       /\ \A a, b \in Ranks : InBoxFinal(a, b)' <=> InBoxFinal(a, b)
       /\ \A a, b \in Ranks : InGotFinal(a, b)' <=> InGotFinal(a, b)
  <2>1. sent' \in [Ranks -> 0 .. LastMessage + 1]
    BY <1>1, <1>6 DEF TypeInv
  <2>2. \A a \in Ranks : sent'[a] >= sent[a]
    <3>1. \A a \in Ranks : sent[a] \in 0 .. LastMessage + 1 /\ sent'[a] = sent[a]
      BY <1>1, <1>6 DEF TypeInv
    <3> QED
      BY <3>1, Sizes
  <2> QED
    BY <1>1, <1>5, <1>6, <2>1, <2>2, FinalPosted
<1>11. \A b \in Ranks : Noted(b)' = Noted(b)
  BY <1>6, <1>10 DEF Noted
<1>12. CountInv'
  BY <1>1, <1>6, <1>11, CountKept
<1> QED
  BY <1>7, <1>8, <1>9, <1>10, <1>12 DEF ProtocolInv

(* The request handler finds the queue closed and empty. *)
LEMMA HandlerReturnsKeeps ==
  ASSUME ProtocolInv, NEW p \in Ranks, HandlerReturns(p)
  PROVE  ProtocolInv'
<1>1. TypeInv /\ ContentInv /\ PlaceInv /\ FinalInv /\ CountInv
  BY DEF ProtocolInv
<1>2. /\ handled' = [handled EXCEPT ![p] = TRUE]
      /\ UNCHANGED <<box, sent, awaiting, slot, queue, closed, serving, got, stops, local_done>>
  BY DEF HandlerReturns, computeVars, receiverVars
<1>3. TypeInv'
  BY <1>1, <1>2 DEF TypeInv
<1>4. ContentInv'
  BY <1>1, <1>2 DEF ContentInv
<1>5. PlaceInv'
  BY <1>1, <1>2, PlacesKept DEF PlaceInv, Nowhere, Somewhere
<1>6. FinalInv' /\ CountInv'
  BY <1>1, <1>2, FinalKept, CountKept
<1> QED
  BY <1>3, <1>4, <1>5, <1>6 DEF ProtocolInv

(* The receiver copies the first message of its box. *)
LEMMA ReceiveKeeps ==
  ASSUME ProtocolInv, NEW p \in Ranks, Receive(p)
  PROVE  ProtocolInv'
<1>1. TypeInv /\ ContentInv /\ PlaceInv /\ FinalInv /\ CountInv
  BY DEF ProtocolInv
<1>2. /\ got[p] = {} /\ box[p] # <<>> /\ got' = [got EXCEPT ![p] = {Head(box[p])}]
      /\ box' = [box EXCEPT ![p] = Tail(@)]
      /\ UNCHANGED <<sent, awaiting, slot, queue, closed, serving, handled, stops, local_done>>
  BY DEF Receive, None, computeVars, handlerVars
<1>3. /\ \A a \in Ranks : DOMAIN box[a] = 1 .. Len(box[a]) /\ Len(box[a]) \in Nat
      /\ \A a \in Ranks : Len(box'[a]) = IF a = p THEN Len(box[a]) - 1 ELSE Len(box[a])
      /\ \A a \in Ranks : DOMAIN box'[a] = 1 .. Len(box'[a])
      /\ \A a \in Ranks : \A k \in DOMAIN box'[a] :
           box'[a][k] = IF a = p THEN box[a][k + 1] ELSE box[a][k]
      /\ Head(box[p]) = box[p][1] /\ 1 \in DOMAIN box[p] /\ Head(box[p]) \in DbMessage
  BY <1>1, <1>2, Dropped DEF TypeInv
<1>4. PICK m \in DbMessage : m = Head(box[p])
  BY <1>3
<1>5. \A a \in Ranks : got'[a] = IF a = p THEN {m} ELSE got[a]
  BY <1>1, <1>2, <1>4 DEF TypeInv
<1>6. TypeInv'
  <2>1. box' \in [Ranks -> Seq(DbMessage)] /\ \A a \in Ranks : Len(box'[a]) <= 2
    BY <1>1, <1>2, InBoxDropped
  <2>2. got' \in [Ranks -> SUBSET DbMessage]
    BY <1>1, <1>2, <1>3 DEF TypeInv
  <2> QED
    BY <1>1, <1>2, <2>1, <2>2 DEF TypeInv
<1>7. ContentInv'
  <2>1. ASSUME NEW a \in Ranks, NEW k \in DOMAIN box'[a]
        PROVE  box'[a][k].type = "REQUEST" => box'[a][k].source_rank # a
    <3>1. \E l \in DOMAIN box[a] : box'[a][k] = box[a][l]
      BY <1>3
    <3> QED
      BY <1>1, <3>1 DEF ContentInv
  <2>2. m.type = "REQUEST" => m.source_rank # p
    BY <1>1, <1>3, <1>4 DEF ContentInv
  <2>3. \A a \in Ranks : /\ \A n \in got'[a] : n.type = "REQUEST" => n.source_rank # a
                         /\ \A n, l \in got'[a] : n = l
    BY <1>1, <1>5, <2>2 DEF ContentInv
  <2> QED
    BY <1>1, <1>2, <2>1, <2>3 DEF ContentInv
<1>8. PlaceInv'
  <2> SUFFICES ASSUME NEW r \in Ranks
               PROVE  /\ awaiting'[r] => sent'[r] <= Requests /\ Somewhere(r)'
                      /\ ~awaiting'[r] => Nowhere(r)'
    BY DEF PlaceInv
  <2>1. InQueue(r)' = InQueue(r) /\ InService(r)' = InService(r) /\ InSlot(r)' = InSlot(r)
    BY <1>2, PlacesKept
  <2>2. p \notin InDispatch(r)
    BY <1>2 DEF InDispatch
  <2>3. InDispatch(r)' = IF Concerns(m, p, r) THEN InDispatch(r) \cup {p} ELSE InDispatch(r)
    <3>1. PICK G : G = {m}
      OBVIOUS
    <3>2. \A a \in Ranks : got'[a] = IF a = p THEN G ELSE got[a]
      BY <1>5, <3>1
    <3>3. InDispatch(r)' = IF \E n \in G : Concerns(n, p, r) THEN InDispatch(r) \cup {p}
                           ELSE InDispatch(r) \ {p}
      BY <3>2, Got
    <3> QED
      BY <2>2, <3>1, <3>3
  <2>4. /\ InBox(r) = {} => InBox(r)' = {}
        /\ ~Concerns(m, p, r) /\ One(InBox(r)) => One(InBox(r)')
        /\ Concerns(m, p, r) => InBox(r) # {}
        /\ Concerns(m, p, r) /\ One(InBox(r)) => InBox(r)' = {}
    BY <1>1, <1>2, <1>4, InBoxDropped
  <2>5. InDispatch(r) = {} => One(InDispatch(r) \cup {p})
    BY Singles
  <2> QED
    BY <1>1, <1>2, <2>1, <2>3, <2>4, <2>5 DEF PlaceInv, Nowhere, Somewhere
<1>9. /\ FinalInv'
      /\ \A a, b \in Ranks :
           InBoxFinal(a, b)' \/ InGotFinal(a, b)' <=> InBoxFinal(a, b) \/ InGotFinal(a, b)
  BY <1>1, <1>2, FinalReceived
<1>10. \A b \in Ranks : Noted(b)' = Noted(b)
  BY <1>2, <1>9 DEF Noted
<1>11. CountInv'
  BY <1>1, <1>2, <1>10, CountKept
<1> QED
  BY <1>6, <1>7, <1>8, <1>9, <1>11 DEF ProtocolInv

(* The receiver has counted everybody and closes the queue. *)
LEMMA ReceiverReturnsKeeps ==
  ASSUME ProtocolInv, NEW p \in Ranks, ReceiverReturns(p)
  PROVE  ProtocolInv'
<1>1. TypeInv /\ ContentInv /\ PlaceInv /\ FinalInv /\ CountInv
  BY DEF ProtocolInv
<1>2. /\ AllStopped(p) /\ closed' = [closed EXCEPT ![p] = TRUE]
      /\ UNCHANGED <<box, sent, awaiting, slot, queue, serving, handled, got, stops, local_done>>
  BY DEF ReceiverReturns, computeVars, handlerVars, receiverVars
<1>3. TypeInv'
  BY <1>1, <1>2 DEF TypeInv
<1>4. ContentInv'
  BY <1>1, <1>2 DEF ContentInv
<1>5. PlaceInv'
  BY <1>1, <1>2, PlacesKept DEF PlaceInv, Nowhere, Somewhere
<1>6. FinalInv' /\ \A b \in Ranks : Noted(b)' = Noted(b)
  BY <1>1, <1>2, FinalKept
<1>7. CountInv'
  <2>1. \A b \in Ranks : closed'[b] => closed[b] \/ b = p
    BY <1>1, <1>2 DEF TypeInv
  <2> QED
    BY <1>1, <1>2, <1>6, <2>1 DEF CountInv, AllStopped
<1> QED
  BY <1>3, <1>4, <1>5, <1>6, <1>7 DEF ProtocolInv

(* A receiver dispatches the message m it holds: what all kinds have in    *)
(* common.                                                                 *)
LEMMA Dispatching ==
  ASSUME ProtocolInv, NEW p \in Ranks, NEW m \in got[p],
         got' = [got EXCEPT ![p] = {}], UNCHANGED <<box, sent>>
  PROVE  /\ m \in DbMessage /\ m.source_rank \in Ranks /\ got[p] = {m}
         /\ got' \in [Ranks -> SUBSET DbMessage] /\ \A a \in Ranks : got'[a] \subseteq got[a]
         /\ FinalInv'
         /\ \A r \in Ranks : Concerns(m, p, r) <=> p \in InDispatch(r)
         /\ \A r \in Ranks : ~Concerns(m, p, r) => InDispatch(r)' = InDispatch(r)
         /\ \A r \in Ranks : Concerns(m, p, r) /\ One(InDispatch(r)) => InDispatch(r)' = {}
         /\ \A b \in Ranks :
              Noted(b)' = IF b = p /\ IsControl(m) THEN Noted(b) \cup {m.source_rank} ELSE Noted(b)
         /\ IsControl(m) => m.source_rank \notin Noted(p)
         /\ IsControl(m) => (m.type = "LOCAL_DONE" <=> m.source_rank = p)
<1>1. TypeInv /\ ContentInv /\ FinalInv
  BY DEF ProtocolInv
<1>2. m \in DbMessage /\ m.source_rank \in Ranks
  BY <1>1, Kinds DEF TypeInv
<1>3. got[p] = {m} /\ \A a \in Ranks : got'[a] = IF a = p THEN {} ELSE got[a]
  BY <1>1 DEF ContentInv, TypeInv
<1>4. got' \in [Ranks -> SUBSET DbMessage] /\ \A a \in Ranks : got'[a] \subseteq got[a]
  BY <1>1, <1>3 DEF TypeInv
<1>5. /\ FinalInv'
      /\ \A a, b \in Ranks : InBoxFinal(a, b)' <=> InBoxFinal(a, b)
      /\ \A a, b \in Ranks :
           InGotFinal(a, b) <=> InGotFinal(a, b)' \/ (b = p /\ IsControl(m) /\ m.source_rank = a)
      /\ \A a \in Ranks : ~InGotFinal(a, p)'
  BY <1>1, <1>2, <1>3, FinalDispatched
<1>6. ASSUME NEW r \in Ranks
      PROVE  /\ Concerns(m, p, r) <=> p \in InDispatch(r)
             /\ ~Concerns(m, p, r) => InDispatch(r)' = InDispatch(r)
             /\ Concerns(m, p, r) /\ One(InDispatch(r)) => InDispatch(r)' = {}
  <2>1. Concerns(m, p, r) <=> p \in InDispatch(r)
    BY <1>3 DEF InDispatch
  <2>2. InDispatch(r)' = InDispatch(r) \ {p}
    <3>1. PICK G : G = {}
      OBVIOUS
    <3>2. InDispatch(r)' = IF \E n \in G : Concerns(n, p, r) THEN InDispatch(r) \cup {p}
                           ELSE InDispatch(r) \ {p}
      BY <1>3, <3>1, Got
    <3> QED
      BY <3>1, <3>2
  <2> QED
    BY <2>1, <2>2, Singles
<1>7. IsControl(m) => /\ m.source_rank \notin Noted(p) /\ sent[m.source_rank] > Final(m.source_rank, p)
                      /\ ~InBoxFinal(m.source_rank, p)
                      /\ m.type = "LOCAL_DONE" <=> m.source_rank = p
  <2>1. IsControl(m) => InGotFinal(m.source_rank, p)
    BY DEF InGotFinal
  <2> QED
    BY <1>1, <1>2, <2>1 DEF FinalInv, Noted
<1>8. ASSUME NEW b \in Ranks
      PROVE  Noted(b)' = IF b = p /\ IsControl(m) THEN Noted(b) \cup {m.source_rank} ELSE Noted(b)
  <2>1. CASE b = p /\ IsControl(m)
    BY <1>2, <1>5, <1>7, <2>1 DEF Noted
  <2>2. CASE ~(b = p /\ IsControl(m))
    BY <1>5, <2>2 DEF Noted
  <2> QED
    BY <2>1, <2>2
<1> QED
  BY <1>2, <1>3, <1>4, <1>5, <1>6, <1>7, <1>8

(* The receiver hands a message to one of the other threads or counts it. *)
LEMMA DispatchKeeps ==
  ASSUME ProtocolInv, NEW p \in Ranks, Dispatch(p)
  PROVE  ProtocolInv'
<1>1. TypeInv /\ ContentInv /\ PlaceInv /\ FinalInv /\ CountInv
  BY DEF ProtocolInv
<1>2. PICK m \in got[p] : PushRequest(p, m) \/ SetResponse(p, m) \/ CountStop(p, m) \/ NoteLocalDone(p, m)
  BY DEF Dispatch
<1>3. /\ got' = [got EXCEPT ![p] = {}]
      /\ UNCHANGED <<box, sent, awaiting, closed, serving, handled>>
  BY DEF Dispatch, None, computeVars, handlerVars
<1>4. /\ m \in DbMessage /\ m.source_rank \in Ranks /\ got[p] = {m}
      /\ got' \in [Ranks -> SUBSET DbMessage] /\ \A a \in Ranks : got'[a] \subseteq got[a]
      /\ FinalInv'
      /\ \A r \in Ranks : Concerns(m, p, r) <=> p \in InDispatch(r)
      /\ \A r \in Ranks : ~Concerns(m, p, r) => InDispatch(r)' = InDispatch(r)
      /\ \A r \in Ranks : Concerns(m, p, r) /\ One(InDispatch(r)) => InDispatch(r)' = {}
      /\ \A b \in Ranks :
           Noted(b)' = IF b = p /\ IsControl(m) THEN Noted(b) \cup {m.source_rank} ELSE Noted(b)
      /\ IsControl(m) => m.source_rank \notin Noted(p)
      /\ IsControl(m) => (m.type = "LOCAL_DONE" <=> m.source_rank = p)
  BY <1>3, Dispatching
<1>5. CASE PushRequest(p, m)
  <2>1. /\ m.type = "REQUEST" /\ Len(queue[p]) < Capacity /\ queue' = [queue EXCEPT ![p] = Append(@, m)]
        /\ UNCHANGED <<slot, stops, local_done>> /\ ~IsControl(m)
    BY <1>5 DEF PushRequest, IsControl
  <2>2. /\ queue' \in [Ranks -> Seq(DbMessage)] /\ \A a \in Ranks : Len(queue'[a]) <= Capacity
        /\ \A r \in Ranks : m.source_rank # r => InQueue(r)' = InQueue(r)
        /\ \A r \in Ranks : m.source_rank = r /\ InQueue(r) = {} => One(InQueue(r)')
    BY <1>1, <1>4, <2>1, InQueueAppended
  <2>3. TypeInv'
    BY <1>1, <1>3, <1>4, <2>1, <2>2 DEF TypeInv
  <2>4. ContentInv'
    <3>1. m.source_rank # p
      BY <1>1, <2>1 DEF ContentInv
    <3>2. /\ \A a \in Ranks : Len(queue[a]) \in Nat /\ DOMAIN queue[a] = 1 .. Len(queue[a])
          /\ \A a \in Ranks : Len(queue'[a]) = IF a = p THEN Len(queue[a]) + 1 ELSE Len(queue[a])
          /\ \A a \in Ranks : DOMAIN queue'[a] = 1 .. Len(queue'[a])
          /\ \A a \in Ranks : \A k \in DOMAIN queue[a] : queue'[a][k] = queue[a][k]
          /\ queue'[p][Len(queue[p]) + 1] = m
      BY SMTT(40), <1>1, <1>4, <2>1, Appended DEF TypeInv
    <3>3. ASSUME NEW a \in Ranks, NEW k \in DOMAIN queue'[a]
          PROVE  queue'[a][k].type = "REQUEST" /\ queue'[a][k].source_rank # a
      <4>1. (k \in DOMAIN queue[a] /\ queue'[a][k] = queue[a][k]) \/ (a = p /\ queue'[a][k] = m)
        BY <3>2
      <4> QED
        BY <1>1, <2>1, <3>1, <4>1 DEF ContentInv
    <3> QED
      BY <1>1, <1>3, <1>4, <3>3 DEF ContentInv
  <2>5. PlaceInv'
    <3> SUFFICES ASSUME NEW r \in Ranks
                 PROVE  /\ awaiting'[r] => sent'[r] <= Requests /\ Somewhere(r)'
                        /\ ~awaiting'[r] => Nowhere(r)'
      BY DEF PlaceInv
    <3>1. InBox(r)' = InBox(r) /\ InService(r)' = InService(r) /\ InSlot(r)' = InSlot(r)
      BY <1>3, <2>1, PlacesKept
    <3>2. Concerns(m, p, r) <=> m.source_rank = r
      BY <2>1 DEF Concerns
    <3> QED
      BY <1>1, <1>3, <1>4, <2>2, <3>1, <3>2 DEF PlaceInv, Nowhere, Somewhere
  <2>6. CountInv'
    BY <1>1, <1>3, <1>4, <2>1, CountKept
  <2> QED
    BY <1>4, <2>3, <2>4, <2>5, <2>6 DEF ProtocolInv
<1>6. CASE SetResponse(p, m)
  <2>1. /\ m.type = "RESPONSE" /\ slot[p] = {}
        /\ slot' = [slot EXCEPT ![p] = {[request_id |-> m.request_id, size |-> m.response_size]}]
        /\ UNCHANGED <<queue, stops, local_done>> /\ ~IsControl(m)
    BY <1>6 DEF SetResponse, None, IsControl
  <2>2. TypeInv'
    <3>1. [request_id |-> m.request_id, size |-> m.response_size]
            \in [request_id: 0 .. Requests - 1, size: {ResponseSize}]
      BY <1>4, <2>1, Kinds
    <3>2. slot' \in [Ranks -> SUBSET [request_id: 0 .. Requests - 1, size: {ResponseSize}]]
      BY <1>1, <2>1, <3>1 DEF TypeInv
    <3> QED
      BY <1>1, <1>3, <1>4, <2>1, <3>2 DEF TypeInv
  <2>3. ContentInv'
    BY <1>1, <1>3, <1>4, <2>1 DEF ContentInv
  <2>4. PlaceInv'
    <3> SUFFICES ASSUME NEW r \in Ranks
                 PROVE  /\ awaiting'[r] => sent'[r] <= Requests /\ Somewhere(r)'
                        /\ ~awaiting'[r] => Nowhere(r)'
      BY DEF PlaceInv
    <3>1. InBox(r)' = InBox(r) /\ InService(r)' = InService(r) /\ InQueue(r)' = InQueue(r)
      BY <1>3, <2>1, PlacesKept
    <3>2. Concerns(m, p, r) <=> r = p
      BY <2>1 DEF Concerns
    <3>3. PICK a : a = [request_id |-> m.request_id, size |-> m.response_size]
      OBVIOUS
    <3>4. InSlot(r)' = IF r = p THEN {a} ELSE InSlot(r)
      BY <1>1, <2>1, <3>3 DEF TypeInv, InSlot
    <3>5. One({a})
      BY DEF One
    <3> QED
      BY <1>1, <1>3, <1>4, <3>1, <3>2, <3>4, <3>5 DEF PlaceInv, Nowhere, Somewhere
  <2>5. CountInv'
    BY <1>1, <1>3, <1>4, <2>1, CountKept
  <2> QED
    BY <1>4, <2>2, <2>3, <2>4, <2>5 DEF ProtocolInv
<1>7. CASE CountStop(p, m) \/ NoteLocalDone(p, m)
  <2>1. /\ IsControl(m) /\ UNCHANGED <<slot, queue>>
        /\ \/ /\ m.type = "STOP" /\ stops' = [stops EXCEPT ![p] = @ + 1] /\ UNCHANGED local_done
           \/ /\ m.type = "LOCAL_DONE" /\ local_done' = [local_done EXCEPT ![p] = TRUE]
              /\ UNCHANGED stops
    BY <1>7 DEF CountStop, NoteLocalDone, IsControl
  <2>2. \A a \in Ranks : /\ stops[a] \in Nat
                         /\ stops'[a] = IF a = p /\ m.type = "STOP" THEN stops[a] + 1 ELSE stops[a]
                         /\ local_done'[a] <=> local_done[a] \/ (a = p /\ m.type = "LOCAL_DONE")
    <3>1. \A a \in Ranks : stops[a] \in Nat
      BY <1>1 DEF TypeInv
    <3>2. stops \in [Ranks -> Nat] /\ local_done \in [Ranks -> BOOLEAN]
      BY <1>1 DEF TypeInv
    <3>3. CASE m.type = "STOP"
      BY <2>1, <3>1, <3>2, <3>3
    <3>4. CASE m.type = "LOCAL_DONE"
      BY <2>1, <3>1, <3>2, <3>4
    <3> QED
      BY <2>1, <3>3, <3>4
  <2>3. TypeInv'
    <3>1. stops[p] + 1 \in Nat
      <4>1. stops[p] \in Nat
        BY <2>2
      <4> QED
        BY <4>1
    <3>2. stops' \in [Ranks -> Nat] /\ local_done' \in [Ranks -> BOOLEAN]
      BY ZenonT(40), <1>1, <2>1, <3>1 DEF TypeInv
    <3> QED
      BY <1>1, <1>3, <1>4, <2>1, <3>2 DEF TypeInv
  <2>4. ContentInv'
    BY <1>1, <1>3, <1>4, <2>1 DEF ContentInv
  <2>5. PlaceInv'
    <3> SUFFICES ASSUME NEW r \in Ranks
                 PROVE  /\ awaiting'[r] => sent'[r] <= Requests /\ Somewhere(r)'
                        /\ ~awaiting'[r] => Nowhere(r)'
      BY DEF PlaceInv
    <3>1. /\ InBox(r)' = InBox(r) /\ InService(r)' = InService(r) /\ InQueue(r)' = InQueue(r)
          /\ InSlot(r)' = InSlot(r)
      BY <1>3, <2>1, PlacesKept
    <3>2. ~Concerns(m, p, r)
      BY <2>1 DEF Concerns, IsControl
    <3> QED
      BY <1>1, <1>3, <1>4, <3>1, <3>2 DEF PlaceInv, Nowhere, Somewhere
  <2>6. CountInv'
    <3> SUFFICES ASSUME NEW b \in Ranks
                 PROVE  /\ stops'[b] = Cardinality(Noted(b)' \ {b})
                        /\ local_done'[b] <=> b \in Noted(b)'
                        /\ closed'[b] => AllStopped(b)'
      BY DEF CountInv
    <3>1. /\ stops[b] = Cardinality(Noted(b) \ {b}) /\ (local_done[b] <=> b \in Noted(b))
          /\ closed[b] => AllStopped(b)
          /\ closed'[b] <=> closed[b]
      BY <1>1, <1>3 DEF CountInv
    <3>2. CASE b # p
      <4>1. Noted(b)' = Noted(b)
        BY <1>4, <3>2
      <4>2. stops'[b] = stops[b] /\ (local_done'[b] <=> local_done[b])
        BY <2>2, <3>2
      <4>3. AllStopped(b)' <=> AllStopped(b)
        BY <4>2 DEF AllStopped
      <4> QED
        BY <3>1, <4>1, <4>2, <4>3
    <3>3. CASE b = p
      <4>1. Noted(p)' = Noted(p) \cup {m.source_rank} /\ m.source_rank \notin Noted(p)
        BY <1>4, <2>1
      <4>2. ~AllStopped(p)
        BY <1>1, <1>4, <4>1, Drained
      <4>3. IsFiniteSet(Noted(p) \ {p})
        <5>1. Noted(p) \ {p} \subseteq Ranks
          BY DEF Noted
        <5> QED
          BY <5>1, OtherRanks, FS_Subset
      <4>4. CASE m.type = "STOP"
        <5>1. m.source_rank # p
          BY <1>4, <2>1, <4>4
        <5>2. Noted(p)' \ {p} = (Noted(p) \ {p}) \cup {m.source_rank}
          BY <4>1, <5>1
        <5>3. Cardinality(Noted(p)' \ {p}) = Cardinality(Noted(p) \ {p}) + 1
          BY <4>1, <4>3, <5>2, FS_AddElement
        <5>4. stops'[p] = stops[p] + 1 /\ (local_done'[p] <=> local_done[p])
          BY <2>2, <4>4
        <5> QED
          BY <3>1, <3>3, <4>1, <4>2, <5>1, <5>3, <5>4
      <4>5. CASE m.type = "LOCAL_DONE"
        <5>1. m.source_rank = p
          BY <1>4, <2>1, <4>5
        <5>2. Noted(p)' \ {p} = Noted(p) \ {p}
          BY <4>1, <5>1
        <5>3. stops'[p] = stops[p] /\ local_done'[p]
          BY <2>2, <4>5
        <5> QED
          BY <3>1, <3>3, <4>1, <4>2, <5>1, <5>2, <5>3
      <4> QED
        BY <2>1, <4>4, <4>5
    <3> QED
      BY <3>2, <3>3
  <2> QED
    BY <1>4, <2>3, <2>4, <2>5, <2>6 DEF ProtocolInv
<1> QED
  BY <1>2, <1>5, <1>6, <1>7

(* Nothing is under way when the threads start. *)
LEMMA ProtocolInit == Init => ProtocolInv
<1> SUFFICES ASSUME Init PROVE ProtocolInv
  OBVIOUS
<1>1. <<>> \in Seq(DbMessage) /\ Len(<<>>) = 0 /\ DOMAIN <<>> = {}
  BY EmptySeq
<1>2. TypeInv
  <2>1. 0 \in 0 .. LastMessage + 1 /\ Capacity \in Nat /\ 0 <= Capacity
    BY Sizes
  <2> QED
    BY <1>1, <2>1 DEF Init, None, TypeInv
<1>3. ContentInv
  BY <1>1 DEF Init, None, ContentInv
<1>4. \A q, p \in Ranks : ~InBoxFinal(q, p) /\ ~InGotFinal(q, p)
  BY <1>1 DEF Init, None, InBoxFinal, InGotFinal
<1>5. \A p \in Ranks : Noted(p) = {}
  <2>1. \A q, p \in Ranks : Final(q, p) \in Requests .. LastMessage
    BY FinalIndex
  <2>2. \A q, p \in Ranks : ~(0 > Final(q, p))
    BY <2>1, Sizes
  <2> QED
    BY <2>2 DEF Noted, Init
<1>6. PlaceInv
  <2>1. \A p \in Ranks : Nowhere(p)
    BY <1>1 DEF Init, None, Nowhere, InBox, InDispatch, InQueue, InService, InSlot
  <2> QED
    BY <2>1 DEF Init, PlaceInv
<1>7. FinalInv
  BY <1>1, <1>4 DEF Init, None, FinalInv
<1>8. CountInv
  <2>1. \A p \in Ranks : Cardinality(Noted(p) \ {p}) = 0
    BY <1>5, FS_EmptySet
  <2> QED
    BY <1>5, <2>1 DEF Init, CountInv
<1> QED
  BY <1>2, <1>3, <1>6, <1>7, <1>8 DEF ProtocolInv

(* The invariant is inductive. *)
LEMMA ProtocolStep == ProtocolInv /\ [Next]_vars => ProtocolInv'
<1> SUFFICES ASSUME ProtocolInv, [Next]_vars PROVE ProtocolInv'
  OBVIOUS
<1>1. ASSUME NEW p \in Ranks, ComputeThread(p)  PROVE ProtocolInv'
  BY <1>1, ComputePostKeeps, TakeResponseKeeps DEF ComputeThread
<1>2. ASSUME NEW p \in Ranks, HandlerThread(p)  PROVE ProtocolInv'
  BY <1>2, TakeRequestKeeps, ReplyKeeps, HandlerReturnsKeeps DEF HandlerThread
<1>3. ASSUME NEW p \in Ranks, ReceiverThread(p)  PROVE ProtocolInv'
  BY <1>3, ReceiveKeeps, DispatchKeeps, ReceiverReturnsKeeps DEF ReceiverThread
<1>4. CASE UNCHANGED vars
  <2>1. UNCHANGED <<box, sent, awaiting, slot, queue, closed, serving, handled, got, stops, local_done>>
    BY <1>4 DEF vars, computeVars, handlerVars, receiverVars
  <2>2. TypeInv'
    BY <2>1 DEF ProtocolInv, TypeInv
  <2>3. ContentInv'
    BY <2>1 DEF ProtocolInv, ContentInv
  <2>4. PlaceInv'
    BY <2>1, PlacesKept DEF ProtocolInv, PlaceInv, Nowhere, Somewhere
  <2>5. FinalInv' /\ CountInv'
    BY <2>1, FinalKept, CountKept DEF ProtocolInv
  <2> QED
    BY <2>2, <2>3, <2>4, <2>5 DEF ProtocolInv
<1> QED
  BY <1>1, <1>2, <1>3, <1>4 DEF Next, Terminated

(* The invariant behind the theorems below. *)
THEOREM ProtocolInvariant == Spec => []ProtocolInv
BY ProtocolInit, ProtocolStep, PTL DEF Spec, Safety
-----------------------------------------------------------------------------
(* What it implies. *)

(* The invariant types the variables. *)
LEMMA Typed == ProtocolInv => TypeOK
<1> SUFFICES ASSUME ProtocolInv PROVE TypeOK
  OBVIOUS
<1>1. TypeInv /\ CountInv
  BY DEF ProtocolInv
<1>2. \A q \in Ranks : \A k \in DOMAIN box[q] : box[q][k] \in DbMessage
  BY <1>1, ElementOfSeq, LenProperties DEF TypeInv
<1>3. \A q \in Ranks : \A k \in DOMAIN queue[q] : queue[q][k] \in DbMessage
  BY <1>1, ElementOfSeq, LenProperties DEF TypeInv
<1>4. ASSUME NEW p \in Ranks  PROVE stops[p] \in 0 .. NProc - 1
  <2>1. Noted(p) \ {p} \subseteq Ranks \ {p}
    BY DEF Noted
  <2>2. Cardinality(Noted(p) \ {p}) <= NProc - 1
    <3>1. PICK A : A = Ranks \ {p}
      OBVIOUS
    <3>2. PICK B \in SUBSET A : B = Noted(p) \ {p}
      BY <2>1, <3>1
    <3>3. IsFiniteSet(A) /\ Cardinality(A) = NProc - 1
      BY <3>1, OtherRanks
    <3>4. Cardinality(B) <= Cardinality(A)
      BY <3>3, FS_Subset
    <3> QED
      BY <3>2, <3>3, <3>4
  <2>3. stops[p] \in Nat /\ stops[p] = Cardinality(Noted(p) \ {p})
    BY <1>1 DEF TypeInv, CountInv
  <2> QED
    BY <2>2, <2>3, Sizes
<1>5. stops \in [Ranks -> 0 .. NProc - 1]
  BY <1>1, <1>4 DEF TypeInv
<1> QED
  BY <1>1, <1>2, <1>3, <1>5 DEF TypeInv, TypeOK

(* One place, or none: the numbers of elements add up. *)
LEMMA Answered == ProtocolInv => OneAnswerEach
<1> SUFFICES ASSUME ProtocolInv, NEW p \in Ranks
             PROVE  Cardinality(InBox(p)) + Cardinality(InDispatch(p)) + Cardinality(InQueue(p))
                      + Cardinality(InService(p)) + Cardinality(InSlot(p))
                    = IF awaiting[p] THEN 1 ELSE 0
  BY DEF OneAnswerEach
<1>1. /\ \A S : One(S) => Cardinality(S) = 1
      /\ \A S : S = {} => Cardinality(S) = 0
  BY FS_Singleton, FS_EmptySet DEF One
<1>2. /\ awaiting[p] => Somewhere(p)
      /\ ~awaiting[p] => Nowhere(p)
  BY DEF ProtocolInv, PlaceInv
<1>3. CASE awaiting[p]
  BY <1>1, <1>2, <1>3 DEF Somewhere
<1>4. CASE ~awaiting[p]
  BY <1>1, <1>2, <1>4 DEF Nowhere
<1> QED
  BY <1>3, <1>4

(* When a receiver may return, every process has sent its requests and     *)
(* taken its answers, and nothing comes to that receiver any more.         *)
LEMMA AllSent ==
  ASSUME ProtocolInv, NEW p \in Ranks, AllStopped(p)
  PROVE  /\ \A r \in Ranks : Nowhere(r)
         /\ \A q \in Ranks : sent[q] > Final(q, p) /\ ~InBoxFinal(q, p)
<1>1. TypeInv /\ PlaceInv /\ CountInv
  BY DEF ProtocolInv
<1>2. \A q \in Ranks : sent[q] > Final(q, p) /\ ~InBoxFinal(q, p)
  BY <1>1, Drained DEF Noted
<1>3. ASSUME NEW r \in Ranks  PROVE Nowhere(r)
  <2>1. sent[r] \in 0 .. LastMessage + 1 /\ Final(r, p) \in Requests .. LastMessage
    BY <1>1, FinalIndex DEF TypeInv
  <2>2. ~(sent[r] <= Requests)
    BY <1>2, <2>1, Sizes
  <2> QED
    BY <1>1, <2>2 DEF PlaceInv
<1> QED
  BY <1>2, <1>3

(* Everybody has sent its last message to a receiver that may return. *)
LEMMA NothingLeft ==
  ASSUME ProtocolInv, NEW p \in Ranks, AllStopped(p)
  PROVE  /\ box[p] = <<>> /\ queue[p] = <<>> /\ serving[p] = None
         /\ \A q \in Ranks :
              /\ \A r \in serving[q] : r.dest # p
              /\ \A n \in sent[q] .. LastMessage : Dest(q, n) # p
              /\ \A k \in DOMAIN queue[q] : queue[q][k].source_rank # p
<1>1. TypeInv /\ ContentInv /\ PlaceInv /\ CountInv
  BY DEF ProtocolInv
<1>2. /\ \A r \in Ranks : Nowhere(r)
      /\ \A q \in Ranks : sent[q] > Final(q, p) /\ ~InBoxFinal(q, p)
  BY <1>1, AllSent
<1>3. /\ \A q \in Ranks : box[q] \in Seq(DbMessage) /\ Len(box[q]) \in Nat /\ DOMAIN box[q] = 1 .. Len(box[q])
      /\ \A q \in Ranks : queue[q] \in Seq(DbMessage) /\ Len(queue[q]) \in Nat
                          /\ DOMAIN queue[q] = 1 .. Len(queue[q])
      /\ \A q \in Ranks : Len(box[q]) <= 2 /\ Len(queue[q]) <= Capacity
  BY <1>1, LenProperties DEF TypeInv
<1>4. ASSUME NEW q \in Ranks, NEW k \in DOMAIN queue[q]  PROVE FALSE
  <2>1. k \in 1 .. Capacity
    BY <1>3, Sizes
  <2>2. queue[q][k] \in DbMessage
    BY <1>3, ElementOfSeq
  <2>3. PICK r \in Ranks : r = queue[q][k].source_rank
    BY <2>2, Kinds
  <2>4. <<q, k>> \in InQueue(r)
    BY <2>1, <2>3 DEF InQueue
  <2> QED
    BY <1>2, <2>4 DEF Nowhere
<1>5. ASSUME NEW q \in Ranks, NEW s \in serving[q]  PROVE FALSE
  <2>1. s.dest \in Ranks
    BY <1>1 DEF TypeInv
  <2>2. q \in InService(s.dest)
    BY DEF InService
  <2> QED
    BY <1>2, <2>1, <2>2 DEF Nowhere
<1>6. ASSUME NEW k \in DOMAIN box[p]  PROVE FALSE
  <2>1. k \in 1 .. 2 /\ box[p][k] \in DbMessage
    BY <1>3, ElementOfSeq
  <2>2. PICK r \in Ranks : r = box[p][k].source_rank
    BY <2>1, Kinds
  <2>3. ASSUME NEW a \in Ranks, Concerns(box[p][k], p, a)  PROVE FALSE
    <3>1. <<p, k>> \in InBox(a)
      BY <2>1, <2>3 DEF InBox
    <3> QED
      BY <1>2, <3>1 DEF Nowhere
  <2>4. box[p][k].type \in {"REQUEST", "RESPONSE", "STOP", "LOCAL_DONE"}
    BY <2>1, Kinds
  <2>5. ~IsControl(box[p][k])
    BY <1>2, <2>2 DEF InBoxFinal
  <2> QED
    BY <2>2, <2>3, <2>4, <2>5 DEF Concerns, IsControl
<1>7. box[p] = <<>> /\ queue[p] = <<>>
  <2>1. Len(box[p]) = 0 /\ Len(queue[p]) = 0
    <3>1. 1 \notin 1 .. Len(box[p]) /\ 1 \notin 1 .. Len(queue[p])
      BY <1>3, <1>4, <1>6
    <3>2. Len(box[p]) \in Nat /\ Len(queue[p]) \in Nat
      BY <1>3
    <3> QED
      BY <3>1, <3>2
  <2> QED
    BY <1>3, <2>1, EmptySeq
<1>8. ASSUME NEW q \in Ranks, NEW n \in sent[q] .. LastMessage  PROVE Dest(q, n) # p
  <2>1. sent[q] \in 0 .. LastMessage + 1 /\ Final(q, p) \in Requests .. LastMessage
    BY <1>1, FinalIndex DEF TypeInv
  <2>2. n \in 0 .. LastMessage /\ n >= Requests /\ n # Final(q, p)
    BY <1>2, <2>1, Sizes
  <2> QED
    BY <2>2, FinalIndex
<1> QED
  BY <1>4, <1>5, <1>7, <1>8 DEF None

(* Closing the request queue comes after that. *)
LEMMA Quiet == ProtocolInv => NothingAfterClose
<1> SUFFICES ASSUME ProtocolInv, NEW p \in Ranks, closed[p]
             PROVE  AllStopped(p)
  BY NothingLeft DEF NothingAfterClose
<1> QED
  BY DEF ProtocolInv, CountInv

(* The compute thread's loop for the response size of the run, which the   *)
(* facts about the checksum are taken from: they do not mention its state. *)
Loop == INSTANCE ComputeLoopProofs WITH
  Requests <- 1, ResponseSizes <- {ResponseSize}, Latencies <- {}, Scale <- 1,
  rank <- 0, response_size <- 0, i <- 0, answer <- {}, latency_stats <- 0, asked <- 0, samples <- 0

(* A response that was filled as it should passes its checksum test. *)
LEMMA ChecksumsHold ==
  ASSUME NEW m \in DbMessage, m.type = "RESPONSE"
  PROVE  ChecksumValid(m.response_size, m.bytes)
<1>1. PICK p \in Ranks, q \in Ranks, n \in 0 .. Requests - 1 : m = Response(q, Request(p, n, ResponseSize))
  BY DEF DbMessage, Request, Response, Control, Header, Ranks
<1>2. PICK size \in Nat : size = ResponseSize /\ size > 1
  BY DbProtocolAssumption
<1>3. q \in Nat /\ n \in Nat /\ p \in Nat
  BY Sizes DEF Ranks
<1>4. PICK key \in Nat : key = Key(p, n)
  BY <1>3 DEF Key
<1>5. m.response_size = size /\ m.bytes = FillResponse(q, n, key, size)
  BY <1>1, <1>2, <1>4 DEF Response, Request, Header
<1>6. \A k \in 1 .. 1 : 1 % k = 0
  OBVIOUS
<1>7. Loop!ChecksumValid(size, Loop!FillResponse(q, n, key, size))
  BY <1>2, <1>3, <1>6, DbProtocolAssumption, Loop!ResponseAccepted
<1>8. ChecksumValid(size, FillResponse(q, n, key, size))
  BY <1>7 DEF ChecksumValid, FillResponse, Byte, ChecksumPayload, MapThenSumSet, MapThenFoldSet,
              Loop!ChecksumValid, Loop!FillResponse, Loop!Byte, Loop!ChecksumPayload,
              Loop!MapThenSumSet, Loop!MapThenFoldSet
<1> QED
  BY <1>5, <1>8

(* One outstanding request per process fills no queue of NProc - 1 places. *)
LEMMA QueueHasRoom ==
  ASSUME ProtocolInv, NEW p \in Ranks, NEW m \in got[p], m.type = "REQUEST"
  PROVE  Len(queue[p]) < Capacity /\ ~closed[p]
<1>1. TypeInv /\ ContentInv /\ PlaceInv /\ CountInv
  BY DEF ProtocolInv
<1>2. PICK s \in Ranks : s = m.source_rank /\ s # p
  BY <1>1, Kinds DEF TypeInv, ContentInv
<1>3. p \in InDispatch(s)
  BY <1>2 DEF InDispatch, Concerns
<1>4. ~closed[p]
  BY <1>1, <1>3, AllSent DEF CountInv, Nowhere
<1>5. /\ \A r \in Ranks : InQueue(r) = {} \/ One(InQueue(r))
      /\ InQueue(s) = {}
  BY <1>1, <1>3 DEF PlaceInv, Somewhere, Nowhere
<1>6. /\ queue[p] \in Seq(DbMessage) /\ Len(queue[p]) \in Nat /\ DOMAIN queue[p] = 1 .. Len(queue[p])
      /\ Len(queue[p]) <= Capacity
  BY <1>1, LenProperties DEF TypeInv
<1>7. SUFFICES ASSUME Len(queue[p]) > NProc - 2  PROVE FALSE
  <2>1. ASSUME ~(Len(queue[p]) > NProc - 2)  PROVE Len(queue[p]) < Capacity
    BY <1>6, <2>1, Sizes
  <2> QED
    BY <1>4, <2>1
<1> DEFINE S == 1 .. Len(queue[p])
           T == (Ranks \ {p}) \ {s}
           f == [k \in S |-> queue[p][k].source_rank]
<1>8. \A k \in S : queue[p][k].source_rank \in Ranks /\ <<p, k>> \in InQueue(queue[p][k].source_rank)
  <2> TAKE k \in S
  <2>1. k \in 1 .. Capacity /\ queue[p][k] \in DbMessage
    BY <1>6, ElementOfSeq, Sizes
  <2>2. queue[p][k].source_rank \in Ranks
    BY <2>1, Kinds
  <2> QED
    BY <1>6, <2>1, <2>2 DEF InQueue
<1>9. f \in [S -> T]
  <2>1. \A k \in S : queue[p][k].source_rank # p /\ queue[p][k].source_rank # s
    BY <1>1, <1>5, <1>6, <1>8 DEF ContentInv
  <2> QED
    BY <1>8, <2>1
<1>10. IsFiniteSet(S) /\ Cardinality(S) = Len(queue[p])
  <2>1. 1 \in Int /\ Len(queue[p]) \in Int /\ Len(queue[p]) > 0
    BY <1>6, <1>7, Sizes
  <2>2. IsFiniteSet(1 .. Len(queue[p])) /\ Cardinality(1 .. Len(queue[p])) = Len(queue[p]) - 1 + 1
    BY SMTT(40), <2>1, FS_Interval
  <2> QED
    BY <1>6, <2>2
<1>11. IsFiniteSet(T) /\ Cardinality(T) = NProc - 2
  <2>1. IsFiniteSet(Ranks \ {p}) /\ Cardinality(Ranks \ {p}) = NProc - 1 /\ s \in Ranks \ {p}
    BY <1>2, OtherRanks
  <2>2. IsFiniteSet(T) /\ Cardinality(T) = (NProc - 1) - 1
    BY ZenonT(40), <2>1, FS_RemoveElement
  <2> QED
    BY <2>2, Sizes
<1>12. Cardinality(T) < Cardinality(S)
  BY <1>6, <1>7, <1>10, <1>11, Sizes
<1>13. PICK x \in S, y \in S : x # y /\ f[x] = f[y]
  <2> HIDE DEF S, T, f
  <2> QED
    BY <1>9, <1>10, <1>11, <1>12, FS_PigeonHole
<1>14. PICK r \in Ranks : r = queue[p][x].source_rank
  BY <1>8
<1>15. <<p, x>> \in InQueue(r) /\ <<p, y>> \in InQueue(r)
  BY <1>8, <1>13, <1>14
<1>16. <<p, x>> = <<p, y>>
  BY <1>5, <1>15 DEF One
<1> QED
  BY <1>13, <1>16

(* At most one request of each other process is in a queue, and a slot is empty when a response comes. *)
LEMMA NeverBlocks == ProtocolInv => DispatchNeverBlocks
<1> SUFFICES ASSUME ProtocolInv, NEW p \in Ranks, NEW m \in got[p]
             PROVE  /\ m.type = "REQUEST" => Len(queue[p]) < Capacity /\ ~closed[p]
                    /\ m.type = "RESPONSE" =>
                         slot[p] = None /\ ChecksumValid(m.response_size, m.bytes)
  BY DEF DispatchNeverBlocks
<1>1. m.type = "REQUEST" => Len(queue[p]) < Capacity /\ ~closed[p]
  BY QueueHasRoom
<1>2. ASSUME m.type = "RESPONSE"  PROVE slot[p] = None
  <2>1. p \in InDispatch(p)
    BY <1>2 DEF InDispatch, Concerns
  <2> QED
    BY <2>1 DEF ProtocolInv, PlaceInv, Somewhere, Nowhere, InSlot, None
<1>3. m \in DbMessage
  BY DEF ProtocolInv, TypeInv
<1> QED
  BY <1>1, <1>2, <1>3, ChecksumsHold

(* A receiver with a message in its box has not counted everybody, and one *)
(* that holds a message can pass it on.                                    *)
LEMMA ReceiverGoesOn ==
  ASSUME ProtocolInv, NEW p \in Ranks, box[p] # <<>> \/ got[p] # None
  PROVE  ReceiverReady(p)
<1>1. CASE got[p] # None
  <2>1. PICK m \in got[p] : m \in DbMessage
    BY <1>1 DEF ProtocolInv, TypeInv, None
  <2>2. /\ m.type = "REQUEST" => Len(queue[p]) < Capacity
        /\ m.type = "RESPONSE" => slot[p] = None /\ ChecksumValid(m.response_size, m.bytes)
    BY NeverBlocks DEF DispatchNeverBlocks
  <2>3. MayDispatch(p, m)
    BY Zenon, <2>2 DEF MayDispatch
  <2> QED
    BY <1>1, <2>3 DEF ReceiverReady
<1>2. CASE got[p] = None /\ box[p] # <<>>
  <2>1. ~AllStopped(p)
    BY <1>2, NothingLeft
  <2> QED
    BY <1>2, <2>1 DEF ReceiverReady
<1> QED
  BY <1>1, <1>2

(* When no receiver has anything to do, nothing keeps a thread from        *)
(* sending, and no answer is outstanding that nobody works on.             *)
LEMMA SomebodyGoesOn ==
  ASSUME ProtocolInv
  PROVE  AllJoined \/ \E p \in Ranks : ComputeReady(p) \/ HandlerReady(p) \/ ReceiverReady(p)
<1>1. TypeInv /\ PlaceInv /\ CountInv
  BY DEF ProtocolInv
<1>2. SUFFICES ASSUME \A p \in Ranks : ~ComputeReady(p) /\ ~HandlerReady(p) /\ ~ReceiverReady(p)
               PROVE  AllJoined
  OBVIOUS
<1>3. \A p \in Ranks : box[p] = <<>> /\ got[p] = None
  BY <1>2, ReceiverGoesOn
<1>4. \A p \in Ranks : MayPost(p)
  <2>1. \A p \in Ranks : Len(box[p]) = 0 /\ DOMAIN box[p] = {}
    BY <1>3
  <2> QED
    BY <2>1 DEF MayPost, MailboxFree, Uncopied
<1>5. \A p \in Ranks : serving[p] = None /\ queue[p] = <<>> /\ (closed[p] => handled[p])
  BY <1>2, <1>4 DEF HandlerReady
<1>6. \A p \in Ranks : ~awaiting[p]
  <2> SUFFICES ASSUME NEW p \in Ranks, awaiting[p]  PROVE FALSE
    OBVIOUS
  <2>1. slot[p] = None
    BY <1>2 DEF ComputeReady
  <2>2. InBox(p) = {} /\ InQueue(p) = {}
    <3>1. \A q \in Ranks : DOMAIN box[q] = {} /\ DOMAIN queue[q] = {}
      BY <1>3, <1>5
    <3> QED
      BY <3>1 DEF InBox, InQueue
  <2>3. InDispatch(p) = {} /\ InService(p) = {} /\ InSlot(p) = {}
    BY <1>3, <1>5, <2>1 DEF InDispatch, InService, InSlot, None
  <2>4. Somewhere(p)
    BY <1>1 DEF PlaceInv
  <2> QED
    BY <2>2, <2>3, <2>4, Singles DEF Somewhere
<1>7. \A p \in Ranks : sent[p] > LastMessage
  <2> SUFFICES ASSUME NEW p \in Ranks, ~(sent[p] > LastMessage)  PROVE FALSE
    OBVIOUS
  <2>1. sent[p] <= LastMessage
    BY <1>1, Sizes DEF TypeInv
  <2> QED
    BY <1>2, <1>4, <1>6, <2>1 DEF ComputeReady
<1>8. \A p \in Ranks : Noted(p) = Ranks
  <2> SUFFICES ASSUME NEW p \in Ranks, NEW q \in Ranks  PROVE q \in Noted(p)
    BY DEF Noted
  <2>1. sent[q] > Final(q, p)
    <3>1. sent[q] \in 0 .. LastMessage + 1 /\ Final(q, p) \in Requests .. LastMessage
      BY <1>1, FinalIndex DEF TypeInv
    <3> QED
      BY <1>7, <3>1, Sizes
  <2>2. ~InBoxFinal(q, p) /\ ~InGotFinal(q, p)
    <3>1. DOMAIN box[p] = {} /\ got[p] = {}
      BY <1>3 DEF None
    <3> QED
      BY <3>1 DEF InBoxFinal, InGotFinal
  <2> QED
    BY <2>1, <2>2 DEF Noted
<1>9. \A p \in Ranks : AllStopped(p)
  BY <1>1, <1>8, OtherRanks DEF CountInv, AllStopped
<1>10. \A p \in Ranks : closed[p]
  BY <1>2, <1>3, <1>9 DEF ReceiverReady
<1> QED
  BY <1>5, <1>7, <1>10 DEF AllJoined, ComputeDone
-----------------------------------------------------------------------------
(* What is under way belongs to what its process waits for: the last       *)
(* request it sent, at the rank that request is for, and the answer to it. *)
(* s[p] is the number of messages process p has sent.                      *)

Right(m, q, s) ==
  /\ m.type = "REQUEST" =>
       /\ m.request_id = s[m.source_rank] - 1
       /\ Target(m.source_rank, m.request_id) = q /\ m.key = Key(m.source_rank, m.request_id)
  /\ m.type = "RESPONSE" =>
       /\ m.request_id = s[q] - 1
       /\ Target(q, m.request_id) = m.source_rank /\ m.key = Key(q, m.request_id)

RightInv ==
  \A q \in Ranks :
    /\ \A k \in DOMAIN box[q] : Right(box[q][k], q, sent)
    /\ \A m \in got[q] : Right(m, q, sent)
    /\ \A k \in DOMAIN queue[q] : Right(queue[q][k], q, sent)
    /\ \A r \in serving[q] : r.msg.source_rank = q /\ Right(r.msg, r.dest, sent)
    /\ \A r \in slot[q] : r.request_id = sent[q] - 1

(* A compute thread sends only when nothing of its last request is under   *)
(* way, so that nothing under way is about an older one.                   *)
LEMMA ComputePostRight ==
  ASSUME ProtocolInv, RightInv, NEW p \in Ranks, ComputePost(p)
  PROVE  RightInv'
<1>1. /\ ~awaiting[p] /\ sent[p] <= LastMessage
      /\ Post(p, Dest(p, sent[p]), Message(p, sent[p]))
      /\ sent' = [sent EXCEPT ![p] = @ + 1]
      /\ UNCHANGED <<slot, queue, serving, got>>
  BY DEF ComputePost, handlerVars, receiverVars
<1>2. TypeInv /\ Nowhere(p)
  BY <1>1 DEF ProtocolInv, PlaceInv
<1> PICK n \in 0 .. LastMessage : n = sent[p]
  BY <1>1, <1>2 DEF TypeInv
<1>3. /\ sent'[p] = n + 1 /\ \A a \in Ranks \ {p} : sent'[a] = sent[a]
  BY <1>1, <1>2 DEF TypeInv
<1>4. ASSUME NEW a \in Ranks, NEW m \in DbMessage, Right(m, a, sent), ~Concerns(m, a, p)
      PROVE  Right(m, a, sent')
  BY <1>3, <1>4, Kinds DEF Right, Concerns
<1>5. Dest(p, n) \in Ranks /\ Message(p, n) \in DbMessage
  BY Destinations, Sends
<1> PICK q \in Ranks, m \in DbMessage : q = Dest(p, n) /\ m = Message(p, n)
  BY <1>5
<1>6. Right(m, q, sent')
  <2>1. CASE n < Requests
    <3>1. m = Request(p, n, ResponseSize) /\ q = Target(p, n)
      BY <2>1 DEF Message, Dest
    <3> QED
      BY <1>3, <3>1 DEF Right, Request, Header
  <2>2. CASE n >= Requests
    <3>1. m.type \in {"STOP", "LOCAL_DONE"}
      BY <2>2, Sends, Sizes
    <3> QED
      BY <3>1 DEF Right
  <2> QED
    BY <2>1, <2>2, Sizes
<1>7. /\ box \in [Ranks -> Seq(DbMessage)]
      /\ \A a \in Ranks : Len(box[a]) <= 2
      /\ box' = [box EXCEPT ![q] = Append(@, m)]
  BY <1>1, <1>2 DEF TypeInv, Post
<1>8. /\ \A a \in Ranks : DOMAIN box[a] = 1 .. Len(box[a]) /\ Len(box[a]) \in Nat
      /\ \A a \in Ranks : Len(box'[a]) = IF a = q THEN Len(box[a]) + 1 ELSE Len(box[a])
      /\ \A a \in Ranks : DOMAIN box'[a] = 1 .. Len(box'[a])
      /\ \A a \in Ranks : \A k \in DOMAIN box[a] : box'[a][k] = box[a][k]
      /\ box'[q][Len(box[q]) + 1] = m
  BY <1>7, Appended
<1>9. ASSUME NEW a \in Ranks, NEW k \in DOMAIN box'[a]  PROVE Right(box'[a][k], a, sent')
  <2>1. CASE k \in DOMAIN box[a]
    <3>1. box[a][k] \in DbMessage /\ k \in 1 .. 2
      BY <1>7, <1>8, <2>1, ElementOfSeq
    <3>2. ~Concerns(box[a][k], a, p)
      <4>1. ASSUME Concerns(box[a][k], a, p)  PROVE <<a, k>> \in InBox(p)
        BY <2>1, <3>1, <4>1 DEF InBox
      <4> QED
        BY <1>2, <4>1 DEF Nowhere
    <3>3. Right(box[a][k], a, sent)
      BY <2>1 DEF RightInv
    <3>4. Right(box[a][k], a, sent')
      BY <1>4, <3>1, <3>2, <3>3
    <3> QED
      BY <1>8, <2>1, <3>4
  <2>2. CASE k \notin DOMAIN box[a]
    <3>1. a = q /\ k = Len(box[q]) + 1
      BY <1>8, <2>2
    <3> QED
      BY <1>6, <1>8, <3>1
  <2> QED
    BY <2>1, <2>2
<1>10. ASSUME NEW a \in Ranks, NEW l \in got[a]  PROVE Right(l, a, sent')
  <2>1. ~Concerns(l, a, p)
    BY <1>2 DEF Nowhere, InDispatch
  <2> QED
    BY <1>2, <1>4, <2>1 DEF RightInv, TypeInv
<1>11. ASSUME NEW a \in Ranks, NEW k \in DOMAIN queue[a]  PROVE Right(queue[a][k], a, sent')
  <2>1. queue[a][k] \in DbMessage /\ k \in 1 .. Capacity
    BY SMTT(40), <1>2, ElementOfSeq, LenProperties, Sizes DEF TypeInv
  <2>2. ASSUME queue[a][k].source_rank = p  PROVE <<a, k>> \in InQueue(p)
    BY <2>1, <2>2 DEF InQueue
  <2>3. ~Concerns(queue[a][k], a, p)
    <3>1. queue[a][k].type = "REQUEST"
      BY DEF ProtocolInv, ContentInv
    <3> QED
      BY <1>2, <2>2, <3>1 DEF Nowhere, Concerns
  <2> QED
    BY <1>4, <2>1, <2>3 DEF RightInv
<1>12. ASSUME NEW a \in Ranks, NEW r \in serving[a]  PROVE Right(r.msg, r.dest, sent')
  <2>1. r.dest \in Ranks /\ r.msg \in DbMessage /\ r.msg.type = "RESPONSE"
    BY SMTT(40), <1>2 DEF TypeInv, ProtocolInv, ContentInv
  <2>2. r.dest # p
    BY <1>2 DEF Nowhere, InService
  <2> QED
    BY <1>4, <2>1, <2>2 DEF RightInv, Concerns
<1>13. \A a \in Ranks : \A r \in slot[a] : r.request_id = sent'[a] - 1
  BY <1>2, <1>3 DEF RightInv, Nowhere, InSlot
<1> QED
  BY <1>1, <1>9, <1>10, <1>11, <1>12, <1>13 DEF RightInv

(* The other steps pass messages on, and an answer is made of its request. *)
LEMMA RightPassedOn ==
  ASSUME ProtocolInv, RightInv, UNCHANGED sent,
         \A q \in Ranks :
           /\ \A k \in DOMAIN box'[q] :
                \/ \E l \in DOMAIN box[q] : box'[q][k] = box[q][l]
                \/ \E a \in Ranks : \E r \in serving[a] : q = r.dest /\ box'[q][k] = r.msg
           /\ \A m \in got'[q] : m \in got[q] \/ \E k \in DOMAIN box[q] : m = box[q][k]
           /\ \A k \in DOMAIN queue'[q] :
                \/ \E l \in DOMAIN queue[q] : queue'[q][k] = queue[q][l]
                \/ queue'[q][k] \in got[q]
           /\ \A r \in serving'[q] :
                \/ r \in serving[q]
                \/ \E k \in DOMAIN queue[q] :
                     r = [dest |-> queue[q][k].source_rank, msg |-> Response(q, queue[q][k])]
           /\ \A r \in slot'[q] :
                \/ r \in slot[q]
                \/ \E m \in got[q] : m.type = "RESPONSE" /\ r.request_id = m.request_id
  PROVE  RightInv'
<1>1. sent' = sent
  OBVIOUS
<1>2. ASSUME NEW q \in Ranks, NEW k \in DOMAIN queue[q]
      PROVE  LET m == Response(q, queue[q][k])
             IN  m.source_rank = q /\ Right(m, queue[q][k].source_rank, sent)
  <2>1. queue[q][k].type = "REQUEST" /\ Right(queue[q][k], q, sent)
    BY DEF ProtocolInv, ContentInv, RightInv
  <2> QED
    BY <2>1 DEF Right, Response, Header
<1> SUFFICES ASSUME NEW q \in Ranks
             PROVE  /\ \A k \in DOMAIN box'[q] : Right(box'[q][k], q, sent)
                    /\ \A m \in got'[q] : Right(m, q, sent)
                    /\ \A k \in DOMAIN queue'[q] : Right(queue'[q][k], q, sent)
                    /\ \A r \in serving'[q] : r.msg.source_rank = q /\ Right(r.msg, r.dest, sent)
                    /\ \A r \in slot'[q] : r.request_id = sent[q] - 1
  BY <1>1 DEF RightInv
<1>3. \A k \in DOMAIN box'[q] : Right(box'[q][k], q, sent)
  BY DEF RightInv
<1>4. \A m \in got'[q] : Right(m, q, sent)
  BY DEF RightInv
<1>5. \A k \in DOMAIN queue'[q] : Right(queue'[q][k], q, sent)
  BY DEF RightInv
<1>6. \A r \in serving'[q] : r.msg.source_rank = q /\ Right(r.msg, r.dest, sent)
  BY <1>2 DEF RightInv
<1>7. \A r \in slot'[q] : r.request_id = sent[q] - 1
  BY DEF RightInv, Right
<1> QED
  BY <1>3, <1>4, <1>5, <1>6, <1>7

(* Nothing is under way when the threads start. *)
LEMMA RightInit == Init => RightInv
BY EmptySeq DEF Init, None, RightInv

(* Every step keeps what is under way right. *)
LEMMA RightStep == ProtocolInv /\ RightInv /\ [Next]_vars => RightInv'
<1> SUFFICES ASSUME ProtocolInv, RightInv, [Next]_vars PROVE RightInv'
  OBVIOUS
<1>1. TypeInv
  BY DEF ProtocolInv
<1>2. ASSUME NEW p \in Ranks, TakeResponse(p)  PROVE RightInv'
  <2>1. slot' = [slot EXCEPT ![p] = {}] /\ UNCHANGED <<box, sent, queue, serving, got>>
    BY <1>2 DEF TakeResponse, None, handlerVars, receiverVars
  <2>2. \A a \in Ranks : \A r \in slot'[a] : r \in slot[a]
    BY <1>1, <2>1 DEF TypeInv
  <2> QED
    BY <2>1, <2>2, RightPassedOn
<1>3. ASSUME NEW p \in Ranks, TakeRequest(p)  PROVE RightInv'
  <2>1. /\ queue[p] # <<>> /\ queue' = [queue EXCEPT ![p] = Tail(@)]
        /\ serving' = [serving EXCEPT ![p] = {[dest |-> Head(queue[p]).source_rank,
                                               msg |-> Response(p, Head(queue[p]))]}]
        /\ UNCHANGED <<box, sent, slot, got>>
    BY <1>3 DEF TakeRequest, computeVars, receiverVars
  <2>2. /\ \A a \in Ranks : DOMAIN queue[a] = 1 .. Len(queue[a]) /\ Len(queue[a]) \in Nat
        /\ \A a \in Ranks : Len(queue'[a]) = IF a = p THEN Len(queue[a]) - 1 ELSE Len(queue[a])
        /\ \A a \in Ranks : DOMAIN queue'[a] = 1 .. Len(queue'[a])
        /\ \A a \in Ranks : \A k \in DOMAIN queue'[a] :
             queue'[a][k] = IF a = p THEN queue[a][k + 1] ELSE queue[a][k]
        /\ Head(queue[p]) = queue[p][1] /\ 1 \in DOMAIN queue[p]
    BY SMTT(40), <1>1, <2>1, Dropped DEF TypeInv
  <2>3. \A a \in Ranks : \A k \in DOMAIN queue'[a] : \E l \in DOMAIN queue[a] : queue'[a][k] = queue[a][l]
    BY <2>2
  <2>4. \A a \in Ranks : \A r \in serving'[a] :
          \/ r \in serving[a]
          \/ \E k \in DOMAIN queue[a] :
               r = [dest |-> queue[a][k].source_rank, msg |-> Response(a, queue[a][k])]
    BY <1>1, <2>1, <2>2 DEF TypeInv
  <2> QED
    BY <2>1, <2>3, <2>4, RightPassedOn
<1>4. ASSUME NEW p \in Ranks, Reply(p)  PROVE RightInv'
  <2>1. PICK r \in serving[p] : Post(p, r.dest, r.msg)
    BY <1>4 DEF Reply
  <2>2. r.dest \in Ranks /\ r.msg \in DbMessage
    BY <1>1 DEF TypeInv
  <2> PICK q \in Ranks, m \in DbMessage : q = r.dest /\ m = r.msg
    BY <2>2
  <2>3. /\ box' = [box EXCEPT ![q] = Append(@, m)]
        /\ serving' = [serving EXCEPT ![p] = {}]
        /\ UNCHANGED <<sent, slot, queue, got>>
    BY <1>4, <2>1 DEF Reply, Post, None, computeVars, receiverVars
  <2>4. /\ \A a \in Ranks : DOMAIN box[a] = 1 .. Len(box[a]) /\ Len(box[a]) \in Nat
        /\ \A a \in Ranks : Len(box'[a]) = IF a = q THEN Len(box[a]) + 1 ELSE Len(box[a])
        /\ \A a \in Ranks : DOMAIN box'[a] = 1 .. Len(box'[a])
        /\ \A a \in Ranks : \A k \in DOMAIN box[a] : box'[a][k] = box[a][k]
        /\ box'[q][Len(box[q]) + 1] = m
    BY SMTT(40), <1>1, <2>3, Appended DEF TypeInv
  <2>5. ASSUME NEW a \in Ranks, NEW k \in DOMAIN box'[a]
        PROVE  \/ \E l \in DOMAIN box[a] : box'[a][k] = box[a][l]
               \/ \E b \in Ranks : \E s \in serving[b] : a = s.dest /\ box'[a][k] = s.msg
    <3>1. CASE k \in DOMAIN box[a]
      BY <2>4, <3>1
    <3>2. CASE k \notin DOMAIN box[a]
      <4>1. a = q /\ k = Len(box[q]) + 1
        BY <2>4, <3>2
      <4> QED
        BY <2>4, <4>1
    <3> QED
      BY <3>1, <3>2
  <2>6. \A a \in Ranks : \A s \in serving'[a] : s \in serving[a]
    BY <1>1, <2>3 DEF TypeInv
  <2> QED
    BY <2>3, <2>5, <2>6, RightPassedOn
<1>5. ASSUME NEW p \in Ranks, Receive(p)  PROVE RightInv'
  <2>1. /\ box[p] # <<>> /\ got' = [got EXCEPT ![p] = {Head(box[p])}]
        /\ box' = [box EXCEPT ![p] = Tail(@)]
        /\ UNCHANGED <<sent, slot, queue, serving>>
    BY <1>5 DEF Receive, computeVars, handlerVars
  <2>2. /\ \A a \in Ranks : DOMAIN box[a] = 1 .. Len(box[a]) /\ Len(box[a]) \in Nat
        /\ \A a \in Ranks : Len(box'[a]) = IF a = p THEN Len(box[a]) - 1 ELSE Len(box[a])
        /\ \A a \in Ranks : DOMAIN box'[a] = 1 .. Len(box'[a])
        /\ \A a \in Ranks : \A k \in DOMAIN box'[a] :
             box'[a][k] = IF a = p THEN box[a][k + 1] ELSE box[a][k]
        /\ Head(box[p]) = box[p][1] /\ 1 \in DOMAIN box[p]
    BY <1>1, <2>1, Dropped DEF TypeInv
  <2>3. \A a \in Ranks : \A k \in DOMAIN box'[a] : \E l \in DOMAIN box[a] : box'[a][k] = box[a][l]
    BY <2>2
  <2>4. \A a \in Ranks : \A m \in got'[a] : m \in got[a] \/ \E k \in DOMAIN box[a] : m = box[a][k]
    BY <1>1, <2>1, <2>2 DEF TypeInv
  <2> QED
    BY <2>1, <2>3, <2>4, RightPassedOn
<1>6. ASSUME NEW p \in Ranks, Dispatch(p)  PROVE RightInv'
  <2>1. PICK m \in got[p] :
          PushRequest(p, m) \/ SetResponse(p, m) \/ CountStop(p, m) \/ NoteLocalDone(p, m)
    BY <1>6 DEF Dispatch
  <2>2. got' = [got EXCEPT ![p] = {}] /\ UNCHANGED <<box, sent, serving>>
    BY <1>6 DEF Dispatch, None, computeVars, handlerVars
  <2>3. \A a \in Ranks : \A l \in got'[a] : l \in got[a]
    BY <1>1, <2>2 DEF TypeInv
  <2>4. m \in DbMessage
    BY <1>1 DEF TypeInv
  <2>5. CASE PushRequest(p, m)
    <3>1. queue' = [queue EXCEPT ![p] = Append(@, m)] /\ UNCHANGED slot
      BY <2>5 DEF PushRequest
    <3>2. /\ \A a \in Ranks : DOMAIN queue[a] = 1 .. Len(queue[a]) /\ Len(queue[a]) \in Nat
          /\ \A a \in Ranks : Len(queue'[a]) = IF a = p THEN Len(queue[a]) + 1 ELSE Len(queue[a])
          /\ \A a \in Ranks : DOMAIN queue'[a] = 1 .. Len(queue'[a])
          /\ \A a \in Ranks : \A k \in DOMAIN queue[a] : queue'[a][k] = queue[a][k]
          /\ queue'[p][Len(queue[p]) + 1] = m
      BY <1>1, <2>4, <3>1, Appended DEF TypeInv
    <3>3. ASSUME NEW a \in Ranks, NEW k \in DOMAIN queue'[a]
          PROVE  \/ \E l \in DOMAIN queue[a] : queue'[a][k] = queue[a][l]
                 \/ queue'[a][k] \in got[a]
      <4>1. CASE k \in DOMAIN queue[a]
        BY <3>2, <4>1
      <4>2. CASE k \notin DOMAIN queue[a]
        <5>1. a = p /\ k = Len(queue[p]) + 1
          BY <3>2, <4>2
        <5> QED
          BY <3>2, <5>1
      <4> QED
        BY <4>1, <4>2
    <3> QED
      BY <2>2, <2>3, <3>1, <3>3, RightPassedOn
  <2>6. CASE SetResponse(p, m)
    <3>1. /\ m.type = "RESPONSE" /\ UNCHANGED queue
          /\ slot' = [slot EXCEPT ![p] = {[request_id |-> m.request_id, size |-> m.response_size]}]
      BY <2>6 DEF SetResponse
    <3>2. \A a \in Ranks : \A r \in slot'[a] :
            \/ r \in slot[a]
            \/ \E l \in got[a] : l.type = "RESPONSE" /\ r.request_id = l.request_id
      BY <1>1, <3>1 DEF TypeInv
    <3> QED
      BY <2>2, <2>3, <3>1, <3>2, RightPassedOn
  <2>7. CASE CountStop(p, m) \/ NoteLocalDone(p, m)
    <3>1. UNCHANGED <<slot, queue>>
      BY <2>7 DEF CountStop, NoteLocalDone
    <3> QED
      BY <2>2, <2>3, <3>1, RightPassedOn
  <2> QED
    BY <2>1, <2>5, <2>6, <2>7
<1>7. ASSUME UNCHANGED <<box, sent, slot, queue, serving, got>>  PROVE RightInv'
  BY <1>7, RightPassedOn
<1>8. ASSUME NEW p \in Ranks, HandlerReturns(p) \/ ReceiverReturns(p)  PROVE RightInv'
  BY <1>7, <1>8 DEF HandlerReturns, ReceiverReturns, computeVars, handlerVars, receiverVars
<1>9. CASE UNCHANGED vars
  BY <1>7, <1>9 DEF vars, computeVars, handlerVars, receiverVars
<1> QED
  BY <1>2, <1>3, <1>4, <1>5, <1>6, <1>8, <1>9, ComputePostRight
     DEF Next, ComputeThread, HandlerThread, ReceiverThread, Terminated
-----------------------------------------------------------------------------
(* The counters stay in their ranges and the buffers hold messages, for    *)
(* every number of processes and requests.                                 *)
THEOREM ProtocolTypes == Spec => []TypeOK
BY Typed, ProtocolInvariant, PTL

(* A process that waits has its request, or the answer to it, in exactly   *)
(* one place (rpBenchmark2/main.c:559-806, the three threads).             *)
THEOREM OneAnswer == Spec => []OneAnswerEach
BY Answered, ProtocolInvariant, PTL

(* What is under way belongs to the last request of a process: the request *)
(* is at the rank it is for, and its answer has its number, its key and    *)
(* comes from that rank ("expected request_id", rpBenchmark2/main.c:459).  *)
THEOREM AnswersMatch == Spec => []RightInv
<1>1. Init => RightInv
  BY RightInit
<1>2. ProtocolInv /\ RightInv /\ [Next]_vars => RightInv'
  BY RightStep
<1> QED
  BY <1>1, <1>2, ProtocolInvariant, PTL DEF Spec, Safety

(* When a receiver returns, nothing for its process is under way or will   *)
(* be sent (request_queue_close, rpBenchmark2/main.c:792-800).             *)
THEOREM QuietAfterClose == Spec => []NothingAfterClose
BY Quiet, ProtocolInvariant, PTL

(* The receiver waits neither for the request queue nor for the slot       *)
(* (the loop of receiver_thread_main, rpBenchmark2/main.c:700-789).        *)
THEOREM ReceiverNeverBlocks == Spec => []DispatchNeverBlocks
<1>1. ProtocolInv => DispatchNeverBlocks
  BY NeverBlocks
<1> QED
  BY <1>1, ProtocolInvariant, PTL

(* No circle of waiting threads (rpBenchmark2/main.c:559-800): as long as *)
(* some thread cannot be joined some thread can go on, and a receiver with *)
(* a message never waits for another thread.                               *)
THEOREM ProtocolNeverStuck == Spec => []NeverStuck
<1>1. ProtocolInv => NeverStuck
  BY ReceiverGoesOn, SomebodyGoesOn DEF NeverStuck
<1> QED
  BY <1>1, ProtocolInvariant, PTL
=============================================================================
