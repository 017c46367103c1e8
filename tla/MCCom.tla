------------------------------- MODULE MCCom -------------------------------
(* TLC instances of Com under its most general client. *)
EXTENDS ComInv, TLC

(* Ranks are numbers and cannot be permuted; the threads of a process and  *)
(* the payloads can: no action or property tells two of them apart.        *)
Symmetry == Permutations(Workers) \cup Permutations(Data)
=============================================================================
