----------------------------- MODULE MCAllToAll -----------------------------
(* TLC instances of rpBenchmark1. *)
EXTENDS AllToAll

MCWorkers == {Sender}
MCSizes == {MsgSize}
MCData == {Pattern(p, c) : p \in Ranks, c \in 0 .. Repeat - 1}

(* Not reached: a correct sender sends Repeat * (NProc - 1) messages. *)
MCMaxMsgId == (Repeat + 1) * (NProc - 1)
=============================================================================
