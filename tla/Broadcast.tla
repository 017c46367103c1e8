----------------------------- MODULE Broadcast -----------------------------
(***************************************************************************)
(* What com_mcast promises: a process publishes messages one after the     *)
(* other; every other process sees all of them, in their order and with    *)
(* the contents they were published with; and a message is published only  *)
(* when everybody has seen the one before.                                 *)
(*                                                                         *)
(* Nothing is promised about messages of different publishers: two         *)
(* processes may see them in different orders, also when one was published *)
(* in answer to the other.                                                 *)
(***************************************************************************)
EXTENDS Naturals, Sequences

CONSTANTS
  Ranks,     \* the user processes
  Payloads   \* what a message can carry

VARIABLES
  log,    \* log[p]: what p has published
  seen    \* seen[q][p]: what q has got of p

bcVars == <<log, seen>>

Init ==
  /\ log = [p \in Ranks |-> <<>>]
  /\ seen = [q \in Ranks |-> [p \in Ranks |-> <<>>]]

Publish(p, m) ==
  /\ \A q \in Ranks \ {p} : seen[q][p] = log[p]
  /\ log' = [log EXCEPT ![p] = Append(@, m)]
  /\ UNCHANGED seen

See(q, p) ==
  /\ q # p
  /\ Len(seen[q][p]) < Len(log[p])
  /\ seen' = [seen EXCEPT ![q][p] = Append(@, log[p][Len(@) + 1])]
  /\ UNCHANGED log

Next == \E p \in Ranks :
          \/ \E m \in Payloads : Publish(p, m)
          \/ \E q \in Ranks : See(q, p)

Safety == Init /\ [][Next]_bcVars

(* Publishing is up to the processes; seeing is not. *)
Spec == Safety /\ \A p, q \in Ranks : WF_bcVars(See(q, p))
=============================================================================
