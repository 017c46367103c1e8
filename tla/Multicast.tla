----------------------------- MODULE Multicast -----------------------------
(***************************************************************************)
(* com_mcast over Com: one prepared segment, one com_send to each other    *)
(* rank, one com_finish_send_buffer.  No benchmark calls it; the client    *)
(* here is the least that exercises it: some processes multicast the       *)
(* messages of a script, of any size, every process has a receiver thread  *)
(* that takes what is for it, and com_finalize follows when both are done. *)
(*                                                                         *)
(* The receiver has to be a thread of its own: the router holds the        *)
(* mailbox while an inbox is full, so three processes that multicast       *)
(* before they receive can all wait for each other.                        *)
(***************************************************************************)
EXTENDS Com

CONSTANTS
  Caller,    \* the thread that calls com_mcast
  Senders,   \* the ranks that call it
  Script     \* the contents of their messages, in order

Rounds == Len(Script)

ASSUME MulticastAssumption ==
  /\ Workers = {Caller}
  /\ Senders \subseteq Ranks
  /\ Script \in Seq(Data)
  /\ Rounds * (NProc - 1) <= MaxMsgId
  /\ Sizes # {}

VARIABLES
  msg,     \* msg[p]: the argument of the current com_mcast
  i,       \* i[p]: its loop counter
  done,    \* done[p]: how many calls have returned
  log,     \* history: log[p], the messages p has multicast
  seen     \* history: seen[q][p], what q has received of p

callVars == <<msg, i, done>>
clientVars == <<callVars, log, seen>>
vars == <<comVars, clientVars>>
-----------------------------------------------------------------------------
Init ==
  /\ ComInit
  /\ msg = [p \in Ranks |-> Blank]
  /\ i = [p \in Ranks |-> 0]
  /\ done = [p \in Ranks |-> IF p \in Senders THEN 0 ELSE Rounds]
  /\ log = [p \in Ranks |-> <<>>]
  /\ seen = [q \in Ranks |-> [p \in Ranks |-> <<>>]]

(* The loop over the ranks skips the caller's. *)
OtherThan(p, r) == IF r = p THEN r + 1 ELSE r

(* Mutant: the loop ends one rank early. *)
MoreRanksOneLess(p) == i[p] < NProc - 1

MoreRanks(p) == i[p] < NProc

McastPrepare(p) ==
  /\ done[p] < Rounds
  /\ \E s \in Sizes :
       /\ Prepare(p, Caller, s)
       /\ msg' = [msg EXCEPT ![p] = IF s = 0 THEN Blank ELSE Script[done[p] + 1]]
  /\ i' = [i EXCEPT ![p] = OtherThan(p, 0)]
  /\ UNCHANGED <<done, log, seen>>

McastCopy(p) ==
  /\ Fill(p, Caller, msg[p])
  /\ UNCHANGED clientVars

McastSend(p) ==
  /\ MoreRanks(p)
  /\ Send(p, Caller, i[p])
  /\ i' = [i EXCEPT ![p] = OtherThan(p, @ + 1)]
  /\ log' = [log EXCEPT ![p] = IF i[p] = OtherThan(p, 0) THEN Append(@, msg[p]) ELSE @]
  /\ UNCHANGED <<msg, done, seen>>

McastReturn(p) ==
  /\ ~MoreRanks(p)
  /\ FinishBuffer(p, Caller)
  /\ i' = [i EXCEPT ![p] = 0]
  /\ msg' = [msg EXCEPT ![p] = Blank]
  /\ done' = [done EXCEPT ![p] = @ + 1]
  /\ UNCHANGED <<log, seen>>

CallerThread(p) ==
  \/ McastPrepare(p)
  \/ McastCopy(p)
  \/ McastSend(p)
  \/ McastReturn(p)
  \/ SendStep(p, Caller) /\ UNCHANGED clientVars
-----------------------------------------------------------------------------
SeenAll(q) == \A p \in Senders \ {q} : Len(seen[q][p]) = Rounds

StartReceive(q) ==
  /\ ~SeenAll(q)
  /\ AwaitMessage(q)
  /\ UNCHANGED clientVars

CopyMessage(q) ==
  /\ CopyPayload(q)
  /\ seen' = [seen EXCEPT ![q][rcv[q].sender_rank] = Append(@, rcv'[q].msg)]
  /\ UNCHANGED <<callVars, log>>

ReceiverThread(q) ==
  \/ StartReceive(q)
  \/ CopyMessage(q)
  \/ (ClearInbox(q) \/ PostAck(q)) /\ UNCHANGED clientVars

MainThread(p) ==
  /\ \/ done[p] = Rounds /\ SeenAll(p) /\ BeginFinalize(p)
     \/ FinalizeStep(p)
  /\ UNCHANGED clientVars

Router == RouterStep /\ UNCHANGED clientVars

AllGone == router_pc = "stopped" /\ \A p \in Ranks : fpc[p] = "gone"

Terminated == AllGone /\ UNCHANGED vars

Next ==
  \/ \E p \in Ranks : CallerThread(p) \/ ReceiverThread(p) \/ MainThread(p)
  \/ Router
  \/ Terminated

(* The kernel runs a thread that can run. *)
Fairness ==
  /\ \A p \in Ranks : /\ WF_vars(CallerThread(p))
                      /\ WF_vars(ReceiverThread(p))
                      /\ WF_vars(MainThread(p))
  /\ WF_vars(Router)

Spec == Init /\ [][Next]_vars /\ Fairness
-----------------------------------------------------------------------------
(* When com_mcast returns, its message has left the mailbox and is in the  *)
(* inbox of every other rank or has been copied from there, and the caller *)
(* has no acknowledgement to wait for but theirs.                          *)
SentToAll ==
  \A p \in Senders : pc[p][Caller] = "ready" /\ ~MoreRanks(p) =>
    /\ \A q \in Ranks \ {p} :
         seen[q][p] = log[p] \/ (inbox[q].src_rank = p /\ rpc[q] # "clear")
    /\ ~(InTransit /\ server_box.src_rank = p)
    /\ pending_acks[p] < NProc

Bcast == INSTANCE Broadcast

(* com_mcast keeps the promise of Broadcast. *)
ImplementsBroadcast == Bcast!Spec

(* What each thread waits for at the point it has come to.  The bound on   *)
(* message numbers is no wait of com_send.                                 *)
CallerReady(p) ==
  \/ pc[p][Caller] = "idle" /\ fpc[p] = "run" /\ done[p] < Rounds
  \/ pc[p][Caller] \in {"fill", "ready"}
  \/ SendStepReady(p, Caller)

ReceiverReady(q) ==
  \/ rpc[q] = "idle" /\ fpc[q] = "run" /\ ~SeenAll(q) /\ slot_full[q] > 0
  \/ rpc[q] # "idle"

MainReady(p) ==
  \/ done[p] = Rounds /\ SeenAll(p) /\ BeginFinalizeReady(p)
  \/ FinalizeReady(p)

(* With a receiver thread of its own everywhere, a full inbox is always    *)
(* read, although its process may be in com_mcast; so the multicasts that  *)
(* wait behind each other in the mailbox go on, and until everything has   *)
(* ended there is a thread that can.                                       *)
NeverStuck ==
  /\ \A q \in Ranks : slot_full[q] > 0 => ReceiverReady(q)
  /\ AllGone \/ RouterReady \/ \E p \in Ranks : CallerReady(p) \/ ReceiverReady(p) \/ MainReady(p)

(* The run ends: every call returns, every message is seen, every process  *)
(* leaves com_finalize and the router stops.                               *)
Termination == <>AllGone
=============================================================================
