------------------------------ MODULE MCDistDb ------------------------------
(* TLC instances of rpBenchmark2. *)
EXTENDS DistDb, ComInv

MCWorkers == {Compute, Handler}
MCSizes == {HeaderSize, HeaderSize + ResponseSize}
MCData == DbMessage

(* Not reached: a process sends at most Requests * (NProc - 1) responses. *)
MCMaxMsgId == LastMessage + 2 + Requests * (NProc - 1)

(* The least that NProc <= 1024 and REQUEST_QUEUE_CAPACITY = 1024 guarantee. *)
MCCapacity == NProc - 1
=============================================================================
