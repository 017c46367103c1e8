------------------------------ MODULE DbScript ------------------------------
(***************************************************************************)
(* The messages of one compute thread of rpBenchmark2, in their order:     *)
(* Requests requests, a STOP to each other rank, then LOCAL_DONE to its    *)
(* own receiver; and all messages a run can have.                          *)
(***************************************************************************)
EXTENDS DbMessages

CONSTANTS
  Requests,       \* requests_per_process
  ResponseSize    \* response_size

LastMessage == Requests + NProc - 1

(* The j-th rank other than p, from 0. *)
OtherRank(p, j) == IF j < p THEN j ELSE j + 1

Dest(p, n) ==
  IF n < Requests THEN Target(p, n)
  ELSE IF n < LastMessage THEN OtherRank(p, n - Requests)
  ELSE p

Message(p, n) ==
  IF n < Requests THEN Request(p, n, ResponseSize)
  ELSE IF n < LastMessage THEN Control(p, "STOP")
  ELSE Control(p, "LOCAL_DONE")

DbMessage ==
  LET ranks == 0 .. NProc - 1
      ids   == 0 .. Requests - 1
  IN {Request(p, n, ResponseSize) : p \in ranks, n \in ids}
     \cup {Response(q, Request(p, n, ResponseSize)) : p \in ranks, q \in ranks, n \in ids}
     \cup {Control(p, type) : p \in ranks, type \in {"STOP", "LOCAL_DONE"}}
=============================================================================
