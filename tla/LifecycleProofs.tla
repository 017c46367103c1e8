--------------------------- MODULE LifecycleProofs ---------------------------
(***************************************************************************)
(* The start barrier, the teardown and the life of the segments, for every *)
(* number of processes, failures and other programs.                       *)
(***************************************************************************)
EXTENDS Lifecycle, FiniteSetTheorems, TLAPS

Forking  == {"cleanup", "fork_router", "fork"}
Setup    == {"cleanup", "fork_router", "fork", "ready"}
Started  == {"start", "wait", "wait_router", "unlink", "aborted", "done"}
Teardown == {"unlink", "aborted", "done"}

Past == {"barrier", "run", "last", "gone", "dead"}

TypeInv ==
  /\ shm \subseteq Ranks /\ named \subseteq Ranks
  /\ ready_sem \in Nat /\ start_sem \in Nat /\ finalized_count \in Nat
  /\ failures \in Nat /\ others \in Nat
  /\ ppc \in Setup \cup Started \cup {"failed"}
  /\ i \in Ranks
  /\ child \in [Ranks -> {"none", "create", "report"} \cup Past]
  /\ router \in {"none", "run", "stopping", "exited"}
  /\ created \subseteq Ranks /\ reported \subseteq Ranks

(* What the parent's loop has forked so far. *)
ForkInv ==
  /\ ppc \in {"cleanup", "fork_router"} => i = 0 /\ \A r \in Ranks : child[r] = "none"
  /\ ppc = "fork" => \A r \in Ranks : child[r] = "none" <=> r >= i

(* A process reports once, after it has created its segment, and is at the *)
(* barrier then.                                                           *)
ReportInv ==
  /\ reported \subseteq created
  /\ \A r \in created : child[r] \notin {"none", "create"}
  /\ \A r \in reported : child[r] \in Past
  /\ \A r \in Ranks : child[r] = "report" => r \in created
  /\ \A r \in Ranks : child[r] \in Past \ {"dead"} => r \in reported

(* The barrier is open for somebody, or was. *)
Released == start_sem > 0 \/ \E r \in Ranks : child[r] \in {"run", "last", "gone"}

(* Every post of ready_sem is of another process, and the parent opens the *)
(* barrier after NProc of them.                                            *)
BarrierInv ==
  /\ ppc \in Forking => ready_sem <= Cardinality(reported)
  /\ ppc = "ready" => ready_sem + i <= Cardinality(reported)
  /\ ppc \in Setup => ~Released
  /\ ppc = "start" => reported = Ranks
  /\ Released => reported = Ranks

(* The slots that the parent has come to in the teardown. *)
Unlinked(r) == ppc = "done" \/ (ppc = "unlink" /\ r < i)

(* Every segment was named for the teardown, and is there until then while *)
(* no other program starts.                                                *)
SegmentInv ==
  /\ created \subseteq named
  /\ others = 0 => \A r \in created : r \in shm \/ Unlinked(r)
  /\ ppc = "aborted" => others > 0

Counted == {r \in Ranks : child[r] \in {"last", "gone"}}

(* The last to be counted is alone, and stops the router, unless it dies   *)
(* before; the parent tears down after that, slot by slot.                 *)
TeardownInv ==
  /\ finalized_count = Cardinality(Counted) \/ \A r \in Ranks : HasExited(r)
  /\ \A r \in Ranks : child[r] = "last" => \A q \in Ranks \ {r} : child[q] = "gone"
  /\ router \in {"stopping", "exited"} => \A r \in Ranks : child[r] = "gone"
  /\ ppc \in Teardown => router = "exited"
  /\ ppc = "wait_router" => i = 0
  /\ ppc = "unlink" => shm \subseteq i .. NProc - 1
  /\ ppc = "done" => shm = {}

LifecycleInv == TypeInv /\ ForkInv /\ ReportInv /\ BarrierInv /\ SegmentInv /\ TeardownInv
-----------------------------------------------------------------------------
(* There are NProc ranks. *)
LEMMA RanksCount == IsFiniteSet(Ranks) /\ Cardinality(Ranks) = NProc /\ 0 \in Ranks
BY LifecycleAssumption, FS_Interval DEF Ranks

(* A set of ranks that has NProc members has them all. *)
LEMMA RankSets ==
  ASSUME NEW S \in SUBSET Ranks
  PROVE  /\ IsFiniteSet(S) /\ Cardinality(S) \in Nat /\ Cardinality(S) <= NProc
         /\ Cardinality(S) = NProc => S = Ranks
BY RanksCount, FS_Subset, FS_CardinalityType

(* A program starts with the segments that others left, and nothing else. *)
LEMMA LifecycleInit == Init => LifecycleInv
<1> SUFFICES ASSUME Init PROVE LifecycleInv
  OBVIOUS
<1>1. TypeInv /\ ForkInv
  BY RanksCount DEF Init, TypeInv, ForkInv, Setup, Started
<1>2. ReportInv /\ SegmentInv
  BY DEF Init, ReportInv, SegmentInv, Past
<1>3. BarrierInv
  <2>1. Cardinality(reported) \in Nat
    BY RankSets DEF Init
  <2> QED
    BY <2>1 DEF Init, BarrierInv, Setup, Released
<1>4. TeardownInv
  <2>1. Counted = {}
    BY DEF Init, Counted
  <2> QED
    BY <2>1, FS_EmptySet DEF Init, TeardownInv, Teardown
<1> QED
  BY <1>1, <1>2, <1>3, <1>4 DEF LifecycleInv

(* The parent's counter stays among the ranks, and a loop that goes on has *)
(* counted one more.                                                       *)
LEMMA LoopRange ==
  ASSUME NEW phase, NEW next, i \in Ranks, Loop(phase, next)
  PROVE  /\ i' \in Ranks /\ ppc' \in {phase, next}
         /\ (ppc' = phase /\ i' = i + 1) \/ (ppc' = next /\ i' = 0 /\ i = NProc - 1)
BY LifecycleAssumption DEF Loop, Ranks

(* The counters are natural numbers. *)
LEMMA Counters ==
  ASSUME TypeInv
  PROVE  /\ ready_sem \in Nat /\ start_sem \in Nat /\ finalized_count \in Nat
         /\ failures \in Nat /\ others \in Nat
BY DEF TypeInv

(* Every step keeps the types. *)
LEMMA TypeStep ==
  ASSUME TypeInv, [Next]_vars
  PROVE  TypeInv'
<1> USE DEF Past, Setup, Started, ParentAt, semVars, histVars
<1>1. CASE Cleanup
  BY <1>1 DEF Cleanup, TypeInv
<1>2. CASE ForkRouter
  BY <1>2 DEF ForkRouter, TypeInv
<1>3. CASE Fork
  <2>1. i' \in Ranks /\ ppc' \in {"fork", "ready"}
    BY <1>3, LoopRange DEF Fork, TypeInv
  <2> QED
    BY <1>3, <2>1 DEF Fork, TypeInv
<1>4. CASE AwaitReady
  <2>1. i' \in Ranks /\ ppc' \in {"ready", "start"}
    BY <1>4, LoopRange DEF AwaitReady, TypeInv
  <2>2. ready_sem' \in Nat
    BY <1>4, Counters DEF AwaitReady
  <2> QED
    BY <1>4, <2>1, <2>2 DEF AwaitReady, TypeInv
<1>5. CASE ReleaseOne
  <2>1. i' \in Ranks /\ ppc' \in {"start", "wait"}
    BY <1>5, LoopRange DEF ReleaseOne, TypeInv
  <2>2. start_sem' \in Nat
    BY <1>5, Counters DEF ReleaseOne
  <2> QED
    BY <1>5, <2>1, <2>2 DEF ReleaseOne, TypeInv
<1>6. CASE WaitForUser
  <2>1. i' \in Ranks /\ ppc' \in {"wait", "wait_router"}
    BY <1>6, LoopRange DEF WaitForUser, TypeInv
  <2> QED
    BY <1>6, <2>1 DEF WaitForUser, TypeInv
<1>7. CASE WaitForRouter
  BY <1>7 DEF WaitForRouter, TypeInv
<1>8. CASE Unlink
  <2>1. i' \in Ranks /\ ppc' \in {"aborted", "unlink", "done"}
    BY <1>8, LoopRange DEF Unlink, TypeInv
  <2> QED
    BY <1>8, <2>1 DEF Unlink, TypeInv
<1>9. CASE ForkFails
  <2>1. failures' = failures + 1
    BY <1>9 DEF ForkFails
  <2>2. failures' \in Nat
    BY <2>1, Counters
  <2> QED
    BY <1>9, <2>2 DEF ForkFails, TypeInv
<1>10. ASSUME NEW r \in Ranks, Child(r) \/ Die(r)
       PROVE  TypeInv'
  <2> USE DEF ChildAt, Become
  <2>1. CASE CreateSegment(r)
    BY <2>1 DEF CreateSegment, TypeInv
  <2>2. CASE ReportReady(r)
    <3>1. ready_sem' \in Nat
      BY <2>2, Counters DEF ReportReady
    <3> QED
      BY <2>2, <3>1 DEF ReportReady, TypeInv
  <2>3. CASE PassBarrier(r)
    <3>1. start_sem' \in Nat
      BY <2>3, Counters DEF PassBarrier
    <3> QED
      BY <2>3, <3>1 DEF PassBarrier, TypeInv
  <2>4. CASE OpenFails(r)
    BY <2>4 DEF OpenFails, TypeInv
  <2>5. CASE Finalize(r)
    <3>1. finalized_count' \in Nat
      BY <2>5, Counters DEF Finalize
    <3>2. \E label \in Past : child' = [child EXCEPT ![r] = label]
      BY <2>5 DEF Finalize
    <3> QED
      BY <2>5, <3>1, <3>2 DEF Finalize, TypeInv
  <2>6. CASE StopRouter(r)
    BY <2>6 DEF StopRouter, TypeInv
  <2>7. CASE Die(r)
    <3>1. failures' \in Nat
      BY <2>7, Counters DEF Die
    <3>2. shm' \subseteq Ranks /\ named' \subseteq Ranks /\ created' \subseteq Ranks
      BY <2>7 DEF Die, TypeInv
    <3> QED
      BY <2>7, <3>1, <3>2 DEF Die, TypeInv
  <2> QED
    BY <1>10, <2>1, <2>2, <2>3, <2>4, <2>5, <2>6, <2>7 DEF Child
<1>11. CASE RouterExits
  BY <1>11 DEF RouterExits, TypeInv
<1>12. CASE OtherStarts
  <2>1. others' \in Nat
    BY <1>12, Counters DEF OtherStarts
  <2> QED
    BY <1>12, <2>1 DEF OtherStarts, TypeInv
<1>13. CASE \E r \in Ranks : OtherUnlinks(r)
  BY <1>13 DEF OtherUnlinks, TypeInv
<1>14. CASE UNCHANGED vars
  BY <1>14 DEF vars, TypeInv
<1> QED
  BY <1>1, <1>2, <1>3, <1>4, <1>5, <1>6, <1>7, <1>8, <1>9, <1>10, <1>11, <1>12, <1>13, <1>14
  DEF Next, Parent, Ended

(* The steps that do not move a user process. *)
Elsewhere ==
  \/ Parent /\ ~Fork
  \/ ForkFails \/ RouterExits
  \/ OtherStarts \/ \E r \in Ranks : OtherUnlinks(r)
  \/ UNCHANGED vars

(* Every step is a fork, a move of one user process, or elsewhere. *)
LEMMA StepKinds ==
  ASSUME [Next]_vars
  PROVE  Fork \/ Elsewhere \/ \E r \in Ranks : Child(r) \/ Die(r)
BY DEF Next, Elsewhere, Parent, Ended

(* What the user processes did is theirs. *)
LEMMA ElsewhereKeeps ==
  ASSUME Elsewhere
  PROVE  UNCHANGED <<child, named, created, reported, finalized_count>>
<1>1. CASE Parent /\ ~Fork
  BY <1>1 DEF Parent, Cleanup, ForkRouter, AwaitReady, ReleaseOne, WaitForUser, WaitForRouter,
     Unlink, ParentAt, semVars, histVars
<1>2. CASE ForkFails \/ RouterExits \/ OtherStarts
  BY <1>2 DEF ForkFails, RouterExits, OtherStarts, semVars, histVars
<1>3. CASE (\E r \in Ranks : OtherUnlinks(r)) \/ UNCHANGED vars
  BY <1>3 DEF OtherUnlinks, vars, semVars, histVars
<1> QED
  BY <1>1, <1>2, <1>3 DEF Elsewhere

(* A fork makes the next user process. *)
LEMMA ForkMoves ==
  ASSUME TypeInv, ForkInv, Fork
  PROVE  /\ i \in Ranks /\ child[i] = "none"
         /\ child'[i] = "create" /\ \A q \in Ranks \ {i} : child'[q] = child[q]
         /\ UNCHANGED <<shm, named, ready_sem, start_sem, finalized_count, router, others>>
         /\ UNCHANGED <<created, reported>>
         /\ ppc = "fork"
         /\ \/ ppc' = "fork" /\ i' = i + 1
            \/ ppc' = "ready" /\ i' = 0
BY LoopRange, LifecycleAssumption
   DEF Fork, ParentAt, ForkInv, TypeInv, Ranks, semVars, histVars

(* The loop of fork is in step with its counter (com.c:508-555). *)
LEMMA ForkStep ==
  ASSUME TypeInv, ForkInv, [Next]_vars
  PROVE  ForkInv'
<1>1. CASE Cleanup \/ ForkRouter
  <2>1. ppc \in {"cleanup", "fork_router"} /\ ppc' \in {"fork_router", "fork"}
    BY <1>1 DEF Cleanup, ForkRouter, ParentAt
  <2>2. i' = i /\ child' = child
    BY <1>1 DEF Cleanup, ForkRouter
  <2>3. \A r \in Ranks : r >= 0
    BY LifecycleAssumption DEF Ranks
  <2> QED
    BY <2>1, <2>2, <2>3 DEF ForkInv
<1>2. CASE Fork
  <2>1. /\ ppc = "fork" /\ ppc' \in {"fork", "ready"}
        /\ ppc' = "fork" => i' = i + 1
        /\ child' = [child EXCEPT ![i] = "create"]
        /\ i \in Ranks /\ child \in [Ranks -> {"none", "create", "report"} \cup Past]
    BY <1>2, LoopRange DEF Fork, ParentAt, TypeInv
  <2>2. ASSUME ppc' = "fork", NEW r \in Ranks
        PROVE  child'[r] = "none" <=> r >= i'
    <3>1. CASE r = i
      BY <2>1, <2>2, <3>1 DEF Ranks
    <3>2. CASE r # i
      <4>1. child'[r] = child[r]
        BY <2>1, <3>2
      <4> QED
        BY <2>1, <2>2, <3>2, <4>1 DEF ForkInv, Ranks
    <3> QED
      BY <3>1, <3>2
  <2> QED
    BY <2>1, <2>2 DEF ForkInv
<1>3. CASE AwaitReady \/ ReleaseOne \/ WaitForUser \/ WaitForRouter \/ Unlink \/ ForkFails
  <2>1. ppc' \in {"ready", "start", "wait", "wait_router", "unlink", "done", "failed", "aborted"}
    <3>1. CASE AwaitReady
      BY <3>1, LoopRange DEF AwaitReady, TypeInv
    <3>2. CASE ReleaseOne
      BY <3>2, LoopRange DEF ReleaseOne, TypeInv
    <3>3. CASE WaitForUser
      BY <3>3, LoopRange DEF WaitForUser, TypeInv
    <3>4. CASE WaitForRouter \/ ForkFails
      BY <3>4 DEF WaitForRouter, ForkFails
    <3>5. CASE Unlink
      BY <3>5, LoopRange DEF Unlink, TypeInv, ParentAt
    <3> QED
      BY <1>3, <3>1, <3>2, <3>3, <3>4, <3>5
  <2> QED
    BY <2>1 DEF ForkInv
<1>4. ASSUME NEW r \in Ranks, Child(r) \/ Die(r)
      PROVE  ForkInv'
  <2>1. /\ ppc' = ppc /\ i' = i /\ child[r] # "none"
        /\ \E label \in {"report", "barrier", "run", "dead", "last", "gone"} : Become(r, label)
    BY <1>4 DEF Child, CreateSegment, ReportReady, PassBarrier, OpenFails, Finalize, StopRouter,
       Die, ChildAt
  <2>2. \A q \in Ranks : child'[q] = "none" <=> child[q] = "none"
    BY <2>1 DEF Become, TypeInv
  <2> QED
    BY <2>1, <2>2 DEF ForkInv
<1>5. CASE RouterExits \/ OtherStarts \/ (\E r \in Ranks : OtherUnlinks(r)) \/ UNCHANGED vars
  BY <1>5 DEF RouterExits, OtherStarts, OtherUnlinks, vars, ForkInv
<1> QED
  BY <1>1, <1>2, <1>3, <1>4, <1>5 DEF Next, Parent, Ended

(* What one move of a user process leaves of the others. *)
LEMMA OneMoves ==
  ASSUME TypeInv, NEW r \in Ranks, NEW label, Become(r, label)
  PROVE  child'[r] = label /\ \A q \in Ranks \ {r} : child'[q] = child[q]
BY DEF TypeInv, Become

(* The labels a user process moves between, and what it does to segments. *)
LEMMA ChildMoves ==
  ASSUME TypeInv, NEW r \in Ranks, Child(r) \/ Die(r)
  PROVE  /\ ppc' = ppc /\ i' = i /\ others' = others
         /\ child[r] \in {"create", "report", "barrier", "run", "last"}
         /\ \A q \in Ranks \ {r} : child'[q] = child[q]
         /\ \/ child[r] = "create" /\ child'[r] \in {"report", "dead"}
            \/ child[r] = "report" /\ child'[r] \in {"barrier", "dead"}
            \/ child[r] = "barrier" /\ child'[r] \in {"run", "dead"}
            \/ child[r] = "run" /\ child'[r] \in {"last", "gone", "dead"}
            \/ child[r] = "last" /\ child'[r] \in {"gone", "dead"}
<1> USE DEF ChildAt
<1>1. CASE CreateSegment(r)
  BY <1>1, OneMoves DEF CreateSegment
<1>2. CASE ReportReady(r)
  BY <1>2, OneMoves DEF ReportReady
<1>3. CASE PassBarrier(r)
  BY <1>3, OneMoves DEF PassBarrier
<1>4. CASE OpenFails(r)
  BY <1>4, OneMoves DEF OpenFails
<1>5. CASE Finalize(r)
  <2>1. child[r] = "run" /\ (Become(r, "last") \/ Become(r, "gone"))
    BY <1>5 DEF Finalize
  <2> QED
    BY <1>5, <2>1, OneMoves DEF Finalize
<1>6. CASE StopRouter(r)
  BY <1>6, OneMoves DEF StopRouter
<1>7. CASE Die(r)
  <2>1. child'[r] = "dead" /\ \A q \in Ranks \ {r} : child'[q] = child[q]
    BY <1>7, OneMoves DEF Die
  <2> QED
    BY <1>7, <2>1 DEF Die
<1> QED
  BY <1>1, <1>2, <1>3, <1>4, <1>5, <1>6, <1>7 DEF Child

(* What a user process leaves behind: only its report is in reported, and  *)
(* its segment, once created, is named and exists.                         *)
LEMMA ChildTraces ==
  ASSUME TypeInv, NEW r \in Ranks, Child(r) \/ Die(r)
  PROVE  /\ reported' = reported \/ (ReportReady(r) /\ reported' = reported \cup {r})
         /\ \/ UNCHANGED <<created, shm, named>>
            \/ /\ child[r] = "create" /\ named' = named \cup {r}
               /\ \/ created' = created /\ child'[r] = "dead" /\ shm \ {r} \subseteq shm'
                  \/ created' = created \cup {r} /\ shm' = shm \cup {r}
         /\ child'[r] = "report" => created' = created \cup {r}
         /\ child'[r] = "barrier" => ReportReady(r)
<1> USE DEF ChildAt
<1>1. CASE CreateSegment(r)
  BY <1>1, OneMoves DEF CreateSegment
<1>2. CASE ReportReady(r)
  BY <1>2, OneMoves DEF ReportReady
<1>3. CASE PassBarrier(r) \/ OpenFails(r) \/ StopRouter(r)
  BY <1>3, OneMoves DEF PassBarrier, OpenFails, StopRouter, histVars
<1>4. CASE Finalize(r)
  <2>1. child'[r] \in {"last", "gone"}
    BY <1>4, OneMoves DEF Finalize
  <2> QED
    BY <1>4, <2>1 DEF Finalize, histVars
<1>5. CASE Die(r)
  <2>1. child'[r] = "dead"
    BY <1>5, OneMoves DEF Die
  <2> QED
    BY <1>5, <2>1 DEF Die
<1> QED
  BY <1>1, <1>2, <1>3, <1>4, <1>5 DEF Child

(* Who has reported has created its segment, and nobody reports twice      *)
(* (com.c:541-543).                                                        *)
LEMMA ReportStep ==
  ASSUME TypeInv, ForkInv, ReportInv, [Next]_vars
  PROVE  ReportInv'
<1>1. CASE Elsewhere
  BY <1>1, ElsewhereKeeps DEF ReportInv
<1>2. CASE Fork
  <2>1. i \in Ranks /\ i \notin created /\ i \notin reported
    BY <1>2, ForkMoves DEF ReportInv, Past
  <2> QED
    BY <1>2, <2>1, ForkMoves DEF ReportInv, TypeInv, Past
<1>3. ASSUME NEW r \in Ranks, Child(r) \/ Die(r)
      PROVE  ReportInv'
  <2> USE DEF Past
  <2>1. \A q \in Ranks \ {r} : /\ child'[q] = child[q]
                               /\ q \in created' <=> q \in created
                               /\ q \in reported' <=> q \in reported
    BY <1>3, ChildMoves, ChildTraces
  <2>2. reported' \subseteq Ranks /\ created' \subseteq Ranks
    BY <1>3, ChildTraces DEF TypeInv
  <2>3. r \in reported' => r \in created' /\ child'[r] \in Past
    <3>1. CASE ReportReady(r)
      <4>1. r \in created /\ child'[r] = "barrier"
        BY <3>1, OneMoves DEF ReportReady, ChildAt, ReportInv
      <4> QED
        BY <1>3, <4>1, ChildTraces
    <3>2. CASE ~ReportReady(r) /\ r \in reported
      <4>1. r \in created /\ child[r] \in Past
        BY <3>2 DEF ReportInv
      <4> QED
        BY <1>3, <4>1, ChildMoves, ChildTraces
    <3> QED
      BY <1>3, <3>1, <3>2, ChildTraces
  <2>4. r \in created' => child'[r] \notin {"none", "create"}
    BY <1>3, ChildMoves
  <2>5. child'[r] = "report" => r \in created'
    BY <1>3, ChildTraces
  <2>6. child'[r] \in Past \ {"dead"} => r \in reported'
    <3>1. CASE child'[r] = "barrier"
      BY <1>3, <3>1, ChildTraces DEF ReportReady
    <3>2. CASE child'[r] \in {"run", "last", "gone"}
      <4>1. child[r] \in {"barrier", "run", "last"}
        BY <1>3, <3>2, ChildMoves
      <4> QED
        BY <1>3, <4>1, ChildTraces DEF ReportInv
    <3> QED
      BY <3>1, <3>2
  <2> QED
    BY <2>1, <2>2, <2>3, <2>4, <2>5, <2>6 DEF ReportInv
<1> QED
  BY <1>1, <1>2, <1>3, StepKinds

(* Only the parent opens the barrier (com.c:555-557). *)
LEMMA ReleasedStep ==
  ASSUME TypeInv, ForkInv, [Next]_vars, Released'
  PROVE  Released \/ ReleaseOne
<1>1. CASE Elsewhere /\ ~ReleaseOne
  <2>1. start_sem' = start_sem
    BY <1>1 DEF Elsewhere, Parent, Cleanup, ForkRouter, AwaitReady, WaitForUser, WaitForRouter,
       Unlink, ForkFails, RouterExits, OtherStarts, OtherUnlinks, vars, semVars
  <2> QED
    BY <1>1, <2>1, ElsewhereKeeps DEF Released
<1>2. CASE Fork
  BY <1>2, ForkMoves DEF Released
<1>3. ASSUME NEW r \in Ranks, Child(r) \/ Die(r)
      PROVE  Released
  <2>1. \A q \in Ranks \ {r} : child'[q] = child[q]
    BY <1>3, ChildMoves
  <2>2. CASE PassBarrier(r)
    BY <2>2 DEF PassBarrier, Released
  <2>3. CASE Finalize(r) \/ StopRouter(r)
    BY <2>3 DEF Finalize, StopRouter, ChildAt, Released
  <2>4. CASE CreateSegment(r) \/ ReportReady(r) \/ OpenFails(r) \/ Die(r)
    <3>1. start_sem' = start_sem
      BY <2>4 DEF CreateSegment, ReportReady, OpenFails, Die, semVars
    <3>2. child'[r] \notin {"run", "last", "gone"}
      BY <2>4, OneMoves DEF CreateSegment, ReportReady, OpenFails, Die
    <3> QED
      BY <2>1, <3>1, <3>2 DEF Released
  <2> QED
    BY <1>3, <2>2, <2>3, <2>4 DEF Child
<1> QED
  BY <1>1, <1>2, <1>3, StepKinds

(* The moves of the parent, without those that wait for posts or give     *)
(* them.                                                                   *)
OtherMove ==
  \/ ppc' = ppc /\ i' = i
  \/ ppc \in {"cleanup", "fork_router", "fork"} /\ ppc' \in {"fork_router", "fork"}
  \/ ppc = "fork" /\ ppc' = "ready" /\ i' = 0
  \/ ppc \in {"wait", "wait_router", "unlink"}
     /\ ppc' \in {"wait", "wait_router", "unlink", "done"}
  \/ ppc' \in {"failed", "aborted"}

(* What a step does to ready_sem and to the parent's place. *)
LEMMA PostStep ==
  ASSUME TypeInv, [Next]_vars
  PROVE  \/ AwaitReady
         \/ ReleaseOne
         \/ \E r \in Ranks : ReportReady(r)
         \/ ready_sem' = ready_sem /\ OtherMove
<1>1. CASE Cleanup \/ ForkRouter \/ WaitForRouter \/ ForkFails
  BY <1>1 DEF Cleanup, ForkRouter, WaitForRouter, ForkFails, ParentAt, OtherMove, semVars
<1>2. CASE Fork
  BY <1>2, LoopRange DEF Fork, ParentAt, OtherMove, semVars, TypeInv
<1>3. CASE WaitForUser
  BY <1>3, LoopRange DEF WaitForUser, ParentAt, OtherMove, semVars, TypeInv
<1>4. CASE Unlink
  BY <1>4, LoopRange DEF Unlink, ParentAt, OtherMove, semVars, TypeInv
<1>5. ASSUME NEW r \in Ranks, Child(r) \/ Die(r), ~ReportReady(r)
      PROVE  ready_sem' = ready_sem /\ OtherMove
  BY <1>5 DEF Child, CreateSegment, PassBarrier, OpenFails, Finalize, StopRouter, Die, ChildAt,
     OtherMove, semVars
<1>6. CASE RouterExits \/ OtherStarts \/ (\E r \in Ranks : OtherUnlinks(r)) \/ UNCHANGED vars
  BY <1>6 DEF RouterExits, OtherStarts, OtherUnlinks, vars, OtherMove, semVars
<1> QED
  BY <1>1, <1>2, <1>3, <1>4, <1>5, <1>6 DEF Next, Parent, Ended

(* A report is history: it is not taken back. *)
LEMMA ReportedGrows ==
  ASSUME TypeInv, ForkInv, [Next]_vars
  PROVE  /\ reported \subseteq reported'
         /\ (\A r \in Ranks : ~ReportReady(r)) => reported' = reported
<1>1. CASE Fork \/ Elsewhere
  BY <1>1, ForkMoves, ElsewhereKeeps
<1>2. ASSUME NEW r \in Ranks, Child(r) \/ Die(r)
      PROVE  /\ reported \subseteq reported'
             /\ (\A q \in Ranks : ~ReportReady(q)) => reported' = reported
  BY <1>2, ChildTraces
<1> QED
  BY <1>1, <1>2, StepKinds

(* The parent posts start_sem in one loop. *)
LEMMA ReleaseMoves ==
  ASSUME TypeInv, ReleaseOne
  PROVE  ppc = "start" /\ ppc' \in {"start", "wait"}
BY LoopRange DEF ReleaseOne, ParentAt, TypeInv

(* The set-up is not come back to. *)
LEMMA SetupEnds ==
  ASSUME TypeInv, [Next]_vars, ppc \notin Setup
  PROVE  ppc' \notin Setup
<1>1. CASE AwaitReady
  BY <1>1 DEF AwaitReady, ParentAt, Setup
<1>2. CASE ReleaseOne
  BY <1>2, ReleaseMoves DEF Setup
<1>3. CASE \E r \in Ranks : ReportReady(r)
  BY <1>3 DEF ReportReady, ChildAt
<1>4. CASE OtherMove
  BY <1>4 DEF OtherMove, Setup
<1> QED
  BY <1>1, <1>2, <1>3, <1>4, PostStep

(* The parent opens the barrier only after NProc different processes have  *)
(* posted: nobody posts twice, and the dead do not post (com.c:541-557).   *)
LEMMA BarrierStep ==
  ASSUME TypeInv, ForkInv, ReportInv, BarrierInv, [Next]_vars
  PROVE  BarrierInv'
<1>1. /\ reported \subseteq reported'
      /\ (\A r \in Ranks : ~ReportReady(r)) => reported' = reported
  BY ReportedGrows
<1>2. /\ Cardinality(reported) \in Nat /\ Cardinality(reported) <= NProc
      /\ Cardinality(reported) = NProc => reported = Ranks
  BY RankSets DEF TypeInv
<1>3. reported' \subseteq Ranks
  BY TypeStep DEF TypeInv, Ranks
<1>4. ready_sem \in Nat /\ i \in Nat /\ NProc \in Nat
  BY LifecycleAssumption DEF TypeInv, Ranks
<1>5. ppc' \in Setup => ~Released'
  <2>1. ReleaseOne => ppc' \notin Setup
    BY ReleaseMoves DEF Setup
  <2> QED
    BY ReleasedStep, <2>1, SetupEnds DEF BarrierInv
<1>6. Released' => reported' = Ranks
  <2>1. ReleaseOne => reported = Ranks
    BY DEF ReleaseOne, ParentAt, BarrierInv
  <2>2. Released' => reported = Ranks
    BY ReleasedStep, <2>1 DEF BarrierInv
  <2> QED
    BY <1>1, <1>3, <2>2
<1>7. /\ ppc' \in Forking => ready_sem' <= Cardinality(reported')
      /\ ppc' = "ready" => ready_sem' + i' <= Cardinality(reported')
      /\ ppc' = "start" => reported' = Ranks
  <2>1. CASE AwaitReady
    <3>1. /\ ppc = "ready" /\ ready_sem > 0 /\ ready_sem' = ready_sem - 1
          /\ reported' = reported
          /\ \/ ppc' = "ready" /\ i' = i + 1
             \/ ppc' = "start" /\ i = NProc - 1
      BY <2>1, LoopRange DEF AwaitReady, ParentAt, TypeInv, histVars
    <3>2. ready_sem + i <= Cardinality(reported)
      BY <3>1 DEF BarrierInv
    <3>3. CASE ppc' = "ready" /\ i' = i + 1
      BY <1>2, <1>4, <3>1, <3>2, <3>3 DEF Forking
    <3>4. CASE ppc' = "start" /\ i = NProc - 1
      BY <1>2, <1>4, <3>1, <3>2, <3>4 DEF Forking
    <3> QED
      BY <3>1, <3>3, <3>4
  <2>2. CASE ReleaseOne
    <3>1. ppc = "start" /\ ppc' \in {"start", "wait"}
      BY <2>2, ReleaseMoves
    <3> QED
      BY <1>1, <1>3, <3>1 DEF BarrierInv, Forking
  <2>3. ASSUME NEW r \in Ranks, ReportReady(r)
        PROVE  /\ ppc' \in Forking => ready_sem' <= Cardinality(reported')
               /\ ppc' = "ready" => ready_sem' + i' <= Cardinality(reported')
               /\ ppc' = "start" => reported' = Ranks
    <3>1. /\ ppc' = ppc /\ i' = i /\ ready_sem' = ready_sem + 1 /\ child[r] = "report"
          /\ reported' = reported \cup {r}
      BY <2>3 DEF ReportReady, ChildAt
    <3>2. r \notin reported
      BY <3>1 DEF ReportInv, Past
    <3>3. Cardinality(reported') = Cardinality(reported) + 1
      BY <3>1, <3>2, RankSets, FS_AddElement DEF TypeInv
    <3> QED
      BY <1>1, <1>2, <1>3, <1>4, <3>1, <3>3 DEF BarrierInv
  <2>4. CASE ready_sem' = ready_sem /\ OtherMove /\ \A r \in Ranks : ~ReportReady(r)
    <3>1. reported' = reported
      BY <1>1, <2>4
    <3> QED
      BY <1>2, <1>4, <2>4, <3>1 DEF OtherMove, BarrierInv, Forking
  <2> QED
    BY <2>1, <2>2, <2>3, <2>4, PostStep
<1> QED
  BY <1>5, <1>6, <1>7 DEF BarrierInv

(* When the parent tears down, everybody has left com_finalize, and so had *)
(* created its segment.                                                    *)
LEMMA AllGone ==
  ASSUME TeardownInv, ppc \in Teardown \/ router \in {"stopping", "exited"}
  PROVE  \A r \in Ranks : child[r] = "gone"
BY DEF TeardownInv

(* A segment that was created goes in two ways only: another program takes *)
(* it, or the teardown has come to its slot.                               *)
LEMMA SegmentStep ==
  ASSUME TypeInv, ForkInv, ReportInv, SegmentInv, TeardownInv, [Next]_vars
  PROVE  SegmentInv'
<1>1. CASE Cleanup
  <2>1. created = {} /\ named' = named /\ created' = created /\ ppc' = "fork_router"
    BY <1>1 DEF Cleanup, ParentAt, histVars, ForkInv, ReportInv, TypeInv
  <2> QED
    BY <2>1 DEF SegmentInv
<1>2. CASE Fork
  BY <1>2, ForkMoves DEF SegmentInv, Unlinked
<1>3. CASE ForkRouter \/ AwaitReady \/ ReleaseOne \/ WaitForUser \/ WaitForRouter \/ ForkFails
  <2>1. UNCHANGED <<shm, named, created, others>>
    BY <1>3 DEF ForkRouter, AwaitReady, ReleaseOne, WaitForUser, WaitForRouter, ForkFails,
       ParentAt, histVars
  <2>2. ppc \notin {"unlink", "done"} /\ ppc' # "aborted"
    BY <1>3, LoopRange DEF ForkRouter, AwaitReady, ReleaseOne, WaitForUser, WaitForRouter,
       ForkFails, ParentAt, TypeInv
  <2> QED
    BY <2>1, <2>2 DEF SegmentInv, Unlinked
<1>4. CASE Unlink
  <2>1. /\ ppc = "unlink" /\ i \in Ranks /\ i \in Nat
        /\ UNCHANGED <<named, created, others>>
    BY <1>4 DEF Unlink, ParentAt, histVars, TypeInv, Ranks
  <2>2. i \in created /\ i \in named
    <3>1. child[i] = "gone"
      BY <2>1, AllGone DEF Teardown
    <3> QED
      BY <2>1, <3>1 DEF ReportInv, SegmentInv, Past
  <2>3. CASE ppc' = "aborted" /\ i \notin shm /\ UNCHANGED <<shm, i>>
    <3>1. others # 0
      BY <2>1, <2>2, <2>3 DEF SegmentInv, Unlinked
    <3> QED
      BY <2>1, <2>3, <3>1, Counters DEF SegmentInv
  <2>4. CASE Loop("unlink", "done") /\ shm' = shm \ (named \cap {i})
    <3>1. \/ ppc' = "unlink" /\ i' = i + 1
          \/ ppc' = "done"
      BY <2>1, <2>4, LoopRange
    <3>2. ASSUME others = 0, NEW q \in created
          PROVE  q \in shm' \/ Unlinked(q)'
      <4>1. q \in shm \/ q < i
        BY <2>1, <3>2 DEF SegmentInv, Unlinked
      <4>2. q \in Nat
        BY LifecycleAssumption DEF TypeInv, Ranks
      <4> QED
        BY <2>1, <2>4, <3>1, <4>1, <4>2 DEF Unlinked
    <3> QED
      BY <2>1, <3>1, <3>2 DEF SegmentInv
  <2> QED
    BY <1>4, <2>3, <2>4 DEF Unlink
<1>5. CASE OtherStarts
  <2>1. others' = others + 1 /\ UNCHANGED <<named, created>>
    BY <1>5 DEF OtherStarts, histVars
  <2>2. others' > 0
    BY <2>1, Counters
  <2> QED
    BY <2>1, <2>2 DEF SegmentInv
<1>6. ASSUME NEW r \in Ranks, OtherUnlinks(r)
      PROVE  SegmentInv'
  BY <1>6 DEF OtherUnlinks, SegmentInv, histVars
<1>7. CASE RouterExits \/ UNCHANGED vars
  BY <1>7 DEF RouterExits, vars, SegmentInv, Unlinked, histVars
<1>8. ASSUME NEW r \in Ranks, Child(r) \/ Die(r)
      PROVE  SegmentInv'
  <2>1. ppc' = ppc /\ i' = i /\ others' = others
    BY <1>8, ChildMoves
  <2>2. CASE UNCHANGED <<created, shm, named>>
    BY <2>1, <2>2 DEF SegmentInv, Unlinked
  <2>3. CASE child[r] = "create" /\ created' = created /\ shm \ {r} \subseteq shm'
             /\ named' = named \cup {r}
    <3>1. r \notin created
      BY <2>3 DEF ReportInv
    <3> QED
      BY <2>1, <2>3, <3>1 DEF SegmentInv, Unlinked
  <2>4. CASE created' = created \cup {r} /\ shm' = shm \cup {r} /\ named' = named \cup {r}
    BY <2>1, <2>4 DEF SegmentInv, Unlinked
  <2> QED
    BY <1>8, <2>2, <2>3, <2>4, ChildTraces
<1> QED
  BY <1>1, <1>2, <1>3, <1>4, <1>5, <1>6, <1>7, <1>8 DEF Next, Parent, Ended

(* What finalized_count and the router know of the user processes.         *)
LastInv ==
  /\ finalized_count = Cardinality(Counted) \/ \A r \in Ranks : HasExited(r)
  /\ \A r \in Ranks : child[r] = "last" => \A q \in Ranks \ {r} : child[q] = "gone"
  /\ router \in {"stopping", "exited"} => \A r \in Ranks : child[r] = "gone"

(* The last process that is counted is the only one left, and the only one *)
(* to stop the router (com.c:777-792).                                     *)
LEMMA LastStep ==
  ASSUME TypeInv, ForkInv, LastInv, [Next]_vars
  PROVE  LastInv'
<1>1. CASE Elsewhere
  <2>1. child' = child /\ finalized_count' = finalized_count
    BY <1>1, ElsewhereKeeps
  <2>2. router' \in {"stopping", "exited"} => router \in {"stopping", "exited"}
    BY <1>1 DEF Elsewhere, Parent, Cleanup, ForkRouter, AwaitReady, ReleaseOne, WaitForUser,
       WaitForRouter, Unlink, ForkFails, RouterExits, OtherStarts, OtherUnlinks, vars
  <2> QED
    BY <2>1, <2>2 DEF LastInv, Counted, HasExited
<1>2. CASE Fork
  <2>1. /\ i \in Ranks /\ child[i] = "none" /\ child'[i] = "create"
        /\ \A q \in Ranks \ {i} : child'[q] = child[q]
        /\ finalized_count' = finalized_count /\ router' = router
    BY <1>2, ForkMoves
  <2>2. Counted' = Counted
    BY <2>1 DEF Counted
  <2>3. finalized_count = Cardinality(Counted)
    BY <2>1 DEF LastInv, HasExited
  <2>4. router \notin {"stopping", "exited"} /\ \A q \in Ranks : child[q] = "last" => q = i
    BY <2>1 DEF LastInv
  <2> QED
    BY <2>1, <2>2, <2>3, <2>4 DEF LastInv
<1>3. ASSUME NEW r \in Ranks, Finalize(r)
      PROVE  LastInv'
  <2>1. /\ child[r] = "run" /\ finalized_count' = finalized_count + 1 /\ router' = router
        /\ child'[r] = IF finalized_count + 1 = NProc THEN "last" ELSE "gone"
        /\ \A q \in Ranks \ {r} : child'[q] = child[q]
    BY <1>3, OneMoves DEF Finalize, ChildAt
  <2>2. r \notin Counted /\ Counted' = Counted \cup {r} /\ Counted \subseteq Ranks
    BY <2>1 DEF Counted
  <2>3. finalized_count = Cardinality(Counted) /\ router \notin {"stopping", "exited"}
    BY <2>1 DEF LastInv, HasExited
  <2>4. \A q \in Ranks : child[q] # "last"
    BY <2>1 DEF LastInv
  <2>5. Cardinality(Counted') = Cardinality(Counted) + 1
    BY <2>2, RankSets, FS_AddElement
  <2>6. CASE finalized_count + 1 = NProc
    <3>1. Counted' = Ranks
      <4>1. Counted \cup {r} \in SUBSET Ranks
        BY <2>2
      <4> QED
        BY <2>2, <2>3, <2>5, <2>6, <4>1, RankSets
    <3>2. \A q \in Ranks \ {r} : child[q] = "gone"
      BY <2>2, <2>4, <3>1 DEF Counted
    <3> QED
      BY <2>1, <2>3, <2>5, <2>6, <3>2 DEF LastInv
  <2>7. CASE finalized_count + 1 # NProc
    BY <2>1, <2>3, <2>4, <2>5, <2>7 DEF LastInv
  <2> QED
    BY <2>6, <2>7
<1>4. ASSUME NEW r \in Ranks, StopRouter(r)
      PROVE  LastInv'
  <2>1. /\ child[r] = "last" /\ child'[r] = "gone"
        /\ \A q \in Ranks \ {r} : child'[q] = child[q]
    BY <1>4, OneMoves DEF StopRouter, ChildAt
  <2>2. \A q \in Ranks : child'[q] = "gone"
    BY <2>1 DEF LastInv
  <2> QED
    BY <2>2 DEF LastInv, HasExited
<1>5. ASSUME NEW r \in Ranks, Child(r) \/ Die(r), ~Finalize(r), ~StopRouter(r)
      PROVE  LastInv'
  <2>1. /\ child[r] \in {"create", "report", "barrier", "run", "last"}
        /\ child'[r] \notin {"last", "gone"}
        /\ \A q \in Ranks \ {r} : child'[q] = child[q]
        /\ finalized_count' = finalized_count /\ router' = router
    <3>1. child'[r] \notin {"last", "gone"}
      BY <1>5, OneMoves DEF Child, CreateSegment, ReportReady, PassBarrier, OpenFails, Die
    <3>2. finalized_count' = finalized_count /\ router' = router
      BY <1>5 DEF Child, CreateSegment, ReportReady, PassBarrier, OpenFails, Die, semVars
    <3> QED
      BY <1>5, <3>1, <3>2, ChildMoves
  <2>2. router \notin {"stopping", "exited"}
    BY <2>1 DEF LastInv
  <2>3. CASE child[r] = "last"
    <3>1. child'[r] = "dead"
      BY <1>5, <2>1, <2>3, ChildMoves
    <3>2. \A q \in Ranks \ {r} : child'[q] = "gone"
      BY <2>1, <2>3 DEF LastInv
    <3> QED
      BY <2>1, <2>2, <3>1, <3>2 DEF LastInv, HasExited
  <2>4. CASE child[r] # "last"
    <3>1. Counted' = Counted
      BY <2>1, <2>4 DEF Counted
    <3>2. finalized_count = Cardinality(Counted)
      BY <2>1 DEF LastInv, HasExited
    <3>3. \A q \in Ranks : child[q] # "last"
      BY <2>1, <2>4 DEF LastInv
    <3> QED
      BY <2>1, <2>2, <3>1, <3>2, <3>3 DEF LastInv
  <2> QED
    BY <2>3, <2>4
<1> QED
  BY <1>1, <1>2, <1>3, <1>4, <1>5, StepKinds

(* The parent tears down after the router, and slot by slot. *)
LEMMA TeardownStep ==
  ASSUME TypeInv, ForkInv, ReportInv, SegmentInv, TeardownInv, [Next]_vars
  PROVE  TeardownInv'
<1> DEFINE Slots == /\ ppc' \in Teardown => router' = "exited"
                    /\ ppc' = "wait_router" => i' = 0
                    /\ ppc' = "unlink" => shm' \subseteq i' .. NProc - 1
                    /\ ppc' = "done" => shm' = {}
<1> SUFFICES Slots
  BY LastStep DEF TeardownInv, LastInv
<1>1. CASE WaitForUser
  <2>1. ppc' = "wait" \/ (ppc' = "wait_router" /\ i' = 0)
    BY <1>1, LoopRange DEF WaitForUser, TypeInv
  <2> QED
    BY <2>1 DEF Teardown
<1>2. CASE WaitForRouter
  <2>1. /\ i = 0 /\ ppc' = "unlink" /\ shm' = shm /\ i' = i
        /\ router' = "exited"
    BY <1>2 DEF WaitForRouter, ParentAt, TeardownInv
  <2>2. shm \subseteq 0 .. NProc - 1
    BY DEF TypeInv, Ranks
  <2> QED
    BY <2>1, <2>2
<1>3. CASE Unlink
  <2>1. ppc = "unlink" /\ router' = "exited" /\ shm \subseteq i .. NProc - 1
    BY <1>3 DEF Unlink, ParentAt, TeardownInv, Teardown
  <2>2. i \in Ranks /\ child[i] = "gone"
    BY <2>1, AllGone DEF TypeInv, Teardown
  <2>3. i \in named
    BY <2>2 DEF SegmentInv, ReportInv, Past
  <2>4. CASE ppc' = "aborted" /\ UNCHANGED <<shm, i>>
    BY <2>1, <2>4 DEF Teardown
  <2>5. CASE Loop("unlink", "done") /\ shm' = shm \ (named \cap {i})
    <3>1. shm' = shm \ {i}
      BY <2>3, <2>5
    <3>2. \/ ppc' = "unlink" /\ i' = i + 1
          \/ ppc' = "done" /\ i = NProc - 1
      BY <2>2, <2>5, LoopRange
    <3>3. i \in Nat /\ NProc \in Nat
      BY <2>2, LifecycleAssumption DEF Ranks
    <3>4. shm \ {i} \subseteq i + 1 .. NProc - 1
      BY <2>1, <3>3
    <3>5. i = NProc - 1 => shm \ {i} = {}
      BY <3>3, <3>4
    <3> QED
      BY <2>1, <3>1, <3>2, <3>4, <3>5
  <2> QED
    BY <1>3, <2>4, <2>5 DEF Unlink
<1>4. CASE OtherStarts \/ \E r \in Ranks : OtherUnlinks(r)
  BY <1>4 DEF OtherStarts, OtherUnlinks, TeardownInv, Teardown
<1>5. ASSUME NEW r \in Ranks, Child(r) \/ Die(r)
      PROVE  Slots
  <2>1. ppc' = ppc /\ i' = i /\ child[r] # "gone"
    BY <1>5, ChildMoves
  <2>2. ppc \notin Teardown
    BY <2>1, AllGone
  <2> QED
    BY <2>1, <2>2 DEF TeardownInv, Teardown
<1>6. CASE RouterExits \/ UNCHANGED vars
  BY <1>6 DEF RouterExits, vars, TeardownInv, Teardown
<1>7. CASE Cleanup \/ ForkRouter \/ Fork \/ AwaitReady \/ ReleaseOne \/ ForkFails
  <2>1. ppc' \in {"fork_router", "fork", "ready", "start", "wait", "failed"}
    <3>1. CASE Fork
      BY <3>1, LoopRange DEF Fork, TypeInv
    <3>2. CASE AwaitReady
      BY <3>2, LoopRange DEF AwaitReady, TypeInv
    <3>3. CASE ReleaseOne
      BY <3>3, ReleaseMoves
    <3>4. CASE Cleanup \/ ForkRouter \/ ForkFails
      BY <3>4 DEF Cleanup, ForkRouter, ForkFails
    <3> QED
      BY <1>7, <3>1, <3>2, <3>3, <3>4
  <2> QED
    BY <2>1 DEF Teardown
<1> HIDE DEF Slots
<1> QED
  BY <1>1, <1>2, <1>3, <1>4, <1>5, <1>6, <1>7 DEF Next, Parent, Ended

(* The invariant behind the four theorems below. *)
THEOREM LifecycleInvariant == Spec => []LifecycleInv
<1>1. Init => LifecycleInv
  BY LifecycleInit
<1>2. LifecycleInv /\ [Next]_vars => LifecycleInv'
  BY TypeStep, ForkStep, ReportStep, BarrierStep, SegmentStep, TeardownStep DEF LifecycleInv
<1> QED
  BY <1>1, <1>2, PTL DEF Spec

(* "Parent releases all children after setup": whatever forks fail and     *)
(* processes die, before their segment, before their report or after it, a *)
(* user process runs only when all have created their segments and         *)
(* reported it (com.c:541-557).                                            *)
THEOREM BarrierHolds == Spec => []StartBarrier
<1>1. LifecycleInv => StartBarrier
  <2> SUFFICES ASSUME LifecycleInv, NEW r \in Ranks, child[r] \in {"run", "last", "gone"}
               PROVE  created = Ranks /\ reported = Ranks
    BY DEF StartBarrier
  <2>1. Released
    BY DEF Released
  <2>2. reported = Ranks
    BY <2>1 DEF LifecycleInv, BarrierInv
  <2> QED
    BY <2>2 DEF LifecycleInv, ReportInv, TypeInv
<1> QED
  BY <1>1, LifecycleInvariant, PTL

(* The parent unlinks segments and destroys semaphores only when nobody    *)
(* can still use them (com.c:566-572).                                     *)
THEOREM TeardownIsAlone == Spec => []TeardownAlone
<1>1. LifecycleInv => TeardownAlone
  BY DEF LifecycleInv, TeardownInv, TeardownAlone, Teardown
<1> QED
  BY <1>1, LifecycleInvariant, PTL

(* A program that ends as it should leaves no segment behind, and the      *)
(* teardown finds every segment that no other program has taken.           *)
THEOREM NothingLeaks == Spec => []NoLeak
<1>1. LifecycleInv => NoLeak
  BY DEF LifecycleInv, TeardownInv, SegmentInv, NoLeak
<1> QED
  BY <1>1, LifecycleInvariant, PTL

(* While no other program starts, no segment goes while a user process     *)
(* runs.                                                                   *)
THEOREM SegmentsPersist == Spec => []SegmentPersistsAlone
<1>1. LifecycleInv => SegmentPersistsAlone
  <2> SUFFICES ASSUME LifecycleInv, others = 0, NEW r \in Ranks, child[r] = "run"
               PROVE  Ranks \subseteq shm
    BY DEF SegmentPersistsAlone, SegmentPersists
  <2>1. created = Ranks
    BY DEF LifecycleInv, BarrierInv, ReportInv, TypeInv, Released
  <2>2. ppc \notin Teardown
    BY AllGone DEF LifecycleInv
  <2> QED
    BY <2>1, <2>2 DEF LifecycleInv, SegmentInv, Unlinked, Teardown
<1> QED
  BY <1>1, LifecycleInvariant, PTL
=============================================================================
