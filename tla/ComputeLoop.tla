---------------------------- MODULE ComputeLoop ----------------------------
(***************************************************************************)
(* The loop of compute_thread_main in one rank of rpBenchmark2, with       *)
(* numbers as large as the program's: where each request goes, whether the *)
(* receiver accepts an answer that arrives as it was made, and the running *)
(* statistics of the latencies.                                            *)
(*                                                                         *)
(* The statistics are kept in units of 1 / Scale, which makes every        *)
(* division of the algorithm exact; the rounding of double is left out.    *)
(***************************************************************************)
EXTENDS DbMessages, Sequences

CONSTANTS
  Requests,        \* requests_per_process
  ResponseSizes,   \* the values of response_size
  Latencies,       \* the values of latency_us
  Scale            \* a multiple of every number of samples

ASSUME ComputeLoopAssumption ==
  /\ NProc \in Nat /\ NProc >= 2
  /\ Requests \in Nat \ {0}
  /\ ResponseSizes \subseteq Nat \ {0}
  /\ Latencies \subseteq Nat
  /\ Scale \in Nat \ {0}
  /\ \A n \in 1 .. Requests : Scale % n = 0

VARIABLES
  rank,            \* the requesting rank
  response_size,
  i,               \* the loop counter
  answer,          \* what the target has answered, until it is taken
  latency_stats,
  asked,           \* history: asked[q], the requests sent to q
  samples          \* history: the latencies

vars == <<rank, response_size, i, answer, latency_stats, asked, samples>>

Ranks == 0 .. NProc - 1
-----------------------------------------------------------------------------
(* welford_init, welford_update, welford_sample_variance *)

NoStats == [n |-> 0, mean |-> 0, M2 |-> 0]

(* Mutant: the deviation from the old mean, squared. *)
WelfordOldMean(s, x) ==
  LET n     == s.n + 1
      delta == Scale * x - s.mean
  IN [n |-> n, mean |-> s.mean + delta \div n, M2 |-> s.M2 + delta * delta]

WelfordUpdate(s, x) ==
  LET n      == s.n + 1
      delta  == Scale * x - s.mean
      mean   == s.mean + delta \div n
      delta2 == Scale * x - mean
  IN [n |-> n, mean |-> mean, M2 |-> s.M2 + delta * delta2]

SampleVariance(s) == IF s.n < 2 THEN 0 ELSE s.M2 \div (s.n - 1)
-----------------------------------------------------------------------------
Init ==
  /\ rank \in Ranks
  /\ response_size \in ResponseSizes
  /\ i = 0
  /\ answer = {}
  /\ latency_stats = NoStats
  /\ asked = [q \in Ranks |-> 0]
  /\ samples = <<>>

Ask ==
  /\ i < Requests /\ answer = {}
  /\ LET q == Target(rank, i)
     IN /\ answer' = {Response(q, Request(rank, i, response_size))}
        /\ asked' = [asked EXCEPT ![q] = @ + 1]
  /\ UNCHANGED <<rank, response_size, i, latency_stats, samples>>

(* A rejected answer ends the process: the loop goes no further. *)
TakeAnswer ==
  /\ \E m \in answer : ChecksumValid(m.response_size, m.bytes)
  /\ answer' = {}
  /\ \E x \in Latencies :
       /\ latency_stats' = WelfordUpdate(latency_stats, x)
       /\ samples' = Append(samples, x)
  /\ i' = i + 1
  /\ UNCHANGED <<rank, response_size, asked>>

Next == Ask \/ TakeAnswer

Spec == Init /\ [][Next]_vars
-----------------------------------------------------------------------------
(* "Never send database request to self", and round-robin: the load of any *)
(* two other ranks differs by at most one request, whatever the number of  *)
(* requests.                                                               *)
RoundRobin ==
  /\ asked[rank] = 0
  /\ \A p, q \in Ranks \ {rank} : asked[p] - asked[q] \in -1 .. 1

(* The receiver accepts every response that arrives as its target made it: *)
(* "invalid response checksum" is only said of a response that is invalid. *)
IntactAccepted == \A m \in answer : ChecksumValid(m.response_size, m.bytes)

Sum(f(_)) == MapThenSumSet(LAMBDA k : f(samples[k]), DOMAIN samples)

(* The one-pass statistics are those of the definition: the mean is the    *)
(* sum over the count, the variance the sum of squared deviations from the *)
(* final mean over the count less one, and 0 for a single sample.          *)
WelfordIsTwoPass ==
  LET n        == Len(samples)
      variance == SampleVariance(latency_stats)
      square(x) == (Scale * x - latency_stats.mean) * (Scale * x - latency_stats.mean)
  IN /\ latency_stats.n = n
     /\ n * latency_stats.mean = Scale * Sum(LAMBDA x : x)
     /\ (n - 1) * variance = IF n < 2 THEN 0 ELSE Sum(square)
=============================================================================
