---------------------------- MODULE MCMulticast ----------------------------
(* TLC instances of com_mcast. *)
EXTENDS Multicast

CONSTANTS d1, d2    \* contents, to tell the messages of a sender apart

MCWorkers == {Caller}
MCSenders == 0 .. 1
MCScript == <<d1, d2>>
MCData == {d1, d2}

(* Not reached: a sender sends Rounds * (NProc - 1) messages. *)
MCMaxMsgId == (Rounds + 1) * (NProc - 1)
=============================================================================
