----------------------------- MODULE DbMessages -----------------------------
(***************************************************************************)
(* What the processes of rpBenchmark2 send each other: requests with their *)
(* target and key, responses with their bytes and the checksum the         *)
(* receiver takes of them, and control messages.                           *)
(***************************************************************************)
EXTENDS Integers, FiniteSetsExt

CONSTANT NProc    \* nr_proc

(* Mutant: forgets to skip the sender. *)
TargetFromSelf(p, i) == (p + (i % (NProc - 1))) % NProc

(* The rank that request i of rank p goes to. *)
Target(p, i) == (p + 1 + (i % (NProc - 1))) % NProc

Key(p, i) == p * 1000000 + i

(* Mutant: the same byte everywhere. *)
ByteConstant(p, id, key, i) == (p + id + key) % 256

(* Byte i of the response of rank p. *)
Byte(p, id, key, i) == (p + id + key + i) % 256

FillResponse(p, id, key, size) == [i \in 0 .. size - 1 |-> Byte(p, id, key, i)]

ChecksumPayload(bytes) == MapThenSumSet(LAMBDA i : bytes[i], DOMAIN bytes)

(* The receiver's check of a response. *)
ChecksumValid(size, bytes) == ~(size > 0 /\ ChecksumPayload(bytes) = 0)

Header(type, id, p, key, size, bytes) ==
  [type |-> type, request_id |-> id, source_rank |-> p, key |-> key,
   response_size |-> size, bytes |-> bytes]

NoBytes == [i \in {} |-> 0]

Request(p, i, size) == Header("REQUEST", i, p, Key(p, i), size, NoBytes)

(* What rank p answers to request m. *)
Response(p, m) ==
  Header("RESPONSE", m.request_id, p, m.key, m.response_size,
         FillResponse(p, m.request_id, m.key, m.response_size))

Control(p, type) == Header(type, -1, p, 0, 0, NoBytes)
=============================================================================
