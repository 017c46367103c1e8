------------------------------ MODULE AllToAll ------------------------------
(***************************************************************************)
(* rpBenchmark1: every process runs one sender thread, which in each of    *)
(* Repeat cycles sends one message to every other process, and one         *)
(* receiver thread, which receives as many messages as the others send it. *)
(* When both threads are joined the process calls com_finalize.            *)
(*                                                                         *)
(* Every action is a Com action taken by a thread of the benchmark, with   *)
(* the thread's own variables beside it.                                   *)
(***************************************************************************)
EXTENDS Com

CONSTANTS
  Sender,     \* the one thread of a process that sends
  MsgSize,    \* msg_size
  Repeat      \* repeat

ASSUME AllToAllAssumption ==
  /\ Workers = {Sender}
  /\ MsgSize \in Sizes \ {0}
  /\ Repeat \in Nat \ {0}
  /\ Repeat * (NProc - 1) <= MaxMsgId

VARIABLES
  cycle,      \* cycle[p]: cycles the sender thread of p has completed
  dest,       \* dest[p]: the next destination of its current cycle
  received,   \* received[q]: the receiver thread's loop counter i
  got         \* history: got[q][p], how many of the messages were from p

clientVars == <<cycle, dest, received, got>>
vars == <<comVars, clientVars>>
-----------------------------------------------------------------------------
(* fill_message: the pattern depends on the rank and the cycle modulo 26. *)
Pattern(p, c) == <<p % 26, c % 26>>

ASSUME PatternAssumption ==
  \A p \in Ranks, c \in 0 .. Repeat - 1 : Pattern(p, c) \in Data

(* Mutant: the loop sends to everybody. *)
SkipNobody(p, d) == d

(* The loop over destinations skips the sender itself. *)
SkipSelf(p, d) == IF d = p THEN d + 1 ELSE d

(* total_receives *)
TotalReceives == Repeat * (NProc - 1)

Init ==
  /\ ComInit
  /\ cycle = [p \in Ranks |-> 0]
  /\ dest = [p \in Ranks |-> 0]
  /\ received = [q \in Ranks |-> 0]
  /\ got = [q \in Ranks |-> [p \in Ranks |-> 0]]

StartCycle(p) ==
  /\ cycle[p] < Repeat
  /\ Prepare(p, Sender, MsgSize)
  /\ dest' = [dest EXCEPT ![p] = SkipSelf(p, 0)]
  /\ UNCHANGED <<cycle, received, got>>

FillMessage(p) ==
  /\ Fill(p, Sender, Pattern(p, cycle[p]))
  /\ UNCHANGED clientVars

SendNext(p) ==
  /\ dest[p] < NProc
  /\ Send(p, Sender, dest[p])
  /\ dest' = [dest EXCEPT ![p] = SkipSelf(p, @ + 1)]
  /\ UNCHANGED <<cycle, received, got>>

EndCycle(p) ==
  /\ dest[p] >= NProc
  /\ FinishBuffer(p, Sender)
  /\ cycle' = [cycle EXCEPT ![p] = @ + 1]
  /\ dest' = [dest EXCEPT ![p] = 0]
  /\ UNCHANGED <<received, got>>

SenderThread(p) ==
  \/ StartCycle(p)
  \/ FillMessage(p)
  \/ SendNext(p)
  \/ EndCycle(p)
  \/ SendStep(p, Sender) /\ UNCHANGED clientVars

(* receiver_thread_main *)
StartReceive(q) ==
  /\ received[q] < TotalReceives
  /\ AwaitMessage(q)
  /\ UNCHANGED clientVars

EndReceive(q) ==
  /\ PostAck(q)
  /\ received' = [received EXCEPT ![q] = @ + 1]
  /\ got' = [got EXCEPT ![q][rcv[q].sender_rank] = @ + 1]
  /\ UNCHANGED <<cycle, dest>>

ReceiverThread(q) ==
  \/ StartReceive(q)
  \/ (CopyPayload(q) \/ ClearInbox(q)) /\ UNCHANGED clientVars
  \/ EndReceive(q)

(* main: both threads are joined, then com_finalize. *)
Joined(p) == cycle[p] = Repeat /\ received[p] = TotalReceives

MainThread(p) ==
  /\ \/ Joined(p) /\ BeginFinalize(p)
     \/ FinalizeStep(p)
  /\ UNCHANGED clientVars

Router == RouterStep /\ UNCHANGED clientVars

AllGone == router_pc = "stopped" /\ \A p \in Ranks : fpc[p] = "gone"

(* All processes have exited; the parent is released from waitpid. *)
Terminated == AllGone /\ UNCHANGED vars

Next ==
  \/ \E p \in Ranks : SenderThread(p) \/ ReceiverThread(p) \/ MainThread(p)
  \/ Router
  \/ Terminated

(* Every thread and the router keep running: the kernel schedules a thread *)
(* that can run, and a semaphore operation that can complete does.         *)
Fairness ==
  /\ \A p \in Ranks : /\ WF_vars(SenderThread(p))
                      /\ WF_vars(ReceiverThread(p))
                      /\ WF_vars(MainThread(p))
  /\ WF_vars(Router)

Spec == Init /\ [][Next]_vars /\ Fairness
-----------------------------------------------------------------------------
(* What a receiver holds is the next message of that sender, with the      *)
(* payload and size of the cycle it belongs to, although the sender used   *)
(* one segment for all its cycles and destinations.                        *)
InOrderIntact ==
  \A q \in Ranks : rpc[q] \in {"clear", "ack"} =>
    LET p == rcv[q].sender_rank
    IN rcv[q].msg = Pattern(p, got[q][p]) /\ rcv[q].size = MsgSize

(* No process runs ahead: while p writes the message of a cycle everybody  *)
(* has copied its messages of all the cycles before, and nobody has one of *)
(* this cycle.                                                             *)
Lockstep ==
  \A p \in Ranks : pc[p][Sender] = "fill" =>
    \A q \in Ranks \ {p} :
      got[q][p] + (IF rpc[q] = "ack" /\ rcv[q].sender_rank = p THEN 1 ELSE 0) = cycle[p]

(* A receiver thread that ends its loop got Repeat messages of each other  *)
(* process and none of itself; nothing is left for it in the layer.        *)
EveryMessageOnce ==
  \A q \in Ranks : received[q] = TotalReceives =>
    /\ \A p \in Ranks : got[q][p] = IF p = q THEN 0 ELSE Repeat
    /\ inbox[q] = EmptyInbox
    /\ ~(InTransit /\ server_box.dest_rank = q)

(* What each thread waits for at the point it has come to.  The bound on   *)
(* message numbers is no wait of com_send.                                 *)
SenderReady(p) ==
  \/ pc[p][Sender] = "idle" /\ fpc[p] = "run" /\ cycle[p] < Repeat
  \/ pc[p][Sender] \in {"fill", "ready"}
  \/ SendStepReady(p, Sender)

ReceiverReady(q) ==
  \/ rpc[q] = "idle" /\ fpc[q] = "run" /\ received[q] < TotalReceives /\ slot_full[q] > 0
  \/ rpc[q] # "idle"

MainReady(p) == (Joined(p) /\ BeginFinalizeReady(p)) \/ FinalizeReady(p)

(* A receiver whose inbox is full waits for nobody, so the router, which   *)
(* waits for an inbox, and the senders, which wait for the router and for  *)
(* acknowledgements, always go on; and until everything has ended there    *)
(* is a thread that can: the waits never close to a circle.                *)
NeverStuck ==
  /\ \A q \in Ranks : slot_full[q] > 0 => ReceiverReady(q)
  /\ AllGone \/ RouterReady \/ \E p \in Ranks : SenderReady(p) \/ ReceiverReady(p) \/ MainReady(p)

(* The run ends: every sender finishes its cycles, every receiver its      *)
(* loop, every process leaves com_finalize and the router stops.           *)
Termination == <>AllGone
=============================================================================
