----------------------------- MODULE Lifecycle -----------------------------
(***************************************************************************)
(* The life of one program around the communication layer: com_initialize  *)
(* removes old segments, creates the shared state and forks the router and *)
(* the user processes; a barrier holds these back until every segment      *)
(* exists; the parent waits for all of them, unlinks the segments and      *)
(* exits.  What a user process does between the barrier and com_finalize   *)
(* is reduced to opening segments by name, its own to send and those of    *)
(* others to receive.                                                      *)
(*                                                                         *)
(* Around it: any system call of a user process and any fork can fail, a   *)
(* process may die, /dev/shm may hold segments of an earlier run, and      *)
(* another program may start and run the same cleanup.                     *)
(***************************************************************************)
EXTENDS Integers, FiniteSets

CONSTANTS
  NProc,         \* nr_proc
  MaxFailures,   \* bound: how many forks fail and user processes die
  MaxOthers      \* bound: how many other programs start while this one runs

ASSUME LifecycleAssumption ==
  NProc \in Nat \ {0} /\ MaxFailures \in Nat /\ MaxOthers \in Nat

Ranks == 0 .. NProc - 1

VARIABLES
  shm,               \* the segments that exist, each named for its owner's pid
  named,             \* the slots whose own_shm_name is set
  ready_sem, start_sem, finalized_count,
  ppc, i,            \* the parent: where it is, and its loop counter
  child,             \* child[r]: the user process of rank r
  router,            \* the router process
  failures, others,  \* how many there have been
  created, reported  \* histories: who created its segment, who posted ready_sem

semVars == <<ready_sem, start_sem, finalized_count>>
histVars == <<created, reported>>
vars == <<shm, named, semVars, ppc, i, child, router, failures, others, histVars>>
-----------------------------------------------------------------------------
(* A segment of an earlier run may have the name this run will use. *)
Init ==
  /\ shm \in SUBSET Ranks
  /\ named = {}
  /\ ready_sem = 0 /\ start_sem = 0 /\ finalized_count = 0
  /\ ppc = "cleanup" /\ i = 0
  /\ child = [r \in Ranks |-> "none"]
  /\ router = "none"
  /\ failures = 0 /\ others = 0
  /\ created = {} /\ reported = {}

ParentAt(label) == ppc = label /\ UNCHANGED <<failures, others, histVars>>

(* The parent's loop over the ranks in one phase, then the next phase. *)
Loop(phase, next) ==
  IF i + 1 < NProc THEN ppc' = phase /\ i' = i + 1
                   ELSE ppc' = next /\ i' = 0

(* cleanup_old_segments_with_prefix: does nothing where there is no        *)
(* /dev/shm to list, and goes on past a segment that it cannot remove.     *)
Cleanup ==
  /\ ParentAt("cleanup")
  /\ shm' \in SUBSET shm
  /\ ppc' = "fork_router"
  /\ UNCHANGED <<named, semVars, i, child, router>>

ForkRouter ==
  /\ ParentAt("fork_router")
  /\ router' = "run"
  /\ ppc' = "fork"
  /\ UNCHANGED <<shm, named, semVars, i, child>>

Fork ==
  /\ ParentAt("fork")
  /\ child' = [child EXCEPT ![i] = "create"]
  /\ Loop("fork", "ready")
  /\ UNCHANGED <<shm, named, semVars, router>>

(* fork returns -1: the parent exits and leaves the others as they are. *)
ForkFails ==
  /\ ppc \in {"fork_router", "fork"}
  /\ failures < MaxFailures
  /\ failures' = failures + 1
  /\ ppc' = "failed"
  /\ UNCHANGED <<shm, named, semVars, i, child, router, others, histVars>>

HasExited(r) == child[r] \in {"gone", "dead"}

(* Mutant: the parent does not wait for a process that has died. *)
AwaitReadyOfLiving ==
  /\ ParentAt("ready")
  /\ IF HasExited(i) THEN UNCHANGED ready_sem
                     ELSE ready_sem > 0 /\ ready_sem' = ready_sem - 1
  /\ Loop("ready", "start")
  /\ UNCHANGED <<shm, named, start_sem, finalized_count, child, router>>

(* Mutant: the parent does not wait for the processes it has forked. *)
AwaitReadyNever ==
  /\ ParentAt("ready")
  /\ Loop("ready", "start")
  /\ UNCHANGED <<shm, named, semVars, child, router>>

AwaitReady ==
  /\ ParentAt("ready")
  /\ ready_sem > 0
  /\ ready_sem' = ready_sem - 1
  /\ Loop("ready", "start")
  /\ UNCHANGED <<shm, named, start_sem, finalized_count, child, router>>

ReleaseOne ==
  /\ ParentAt("start")
  /\ start_sem' = start_sem + 1
  /\ Loop("start", "wait")
  /\ UNCHANGED <<shm, named, ready_sem, finalized_count, child, router>>

WaitForUser ==
  /\ ParentAt("wait")
  /\ HasExited(i)
  /\ Loop("wait", "wait_router")
  /\ UNCHANGED <<shm, named, semVars, child, router>>

(* Mutant: goes on without the router. *)
WaitForNoRouter ==
  /\ ParentAt("wait_router")
  /\ ppc' = "unlink"
  /\ UNCHANGED <<shm, named, semVars, i, child, router>>

WaitForRouter ==
  /\ ParentAt("wait_router")
  /\ router = "exited"
  /\ ppc' = "unlink"
  /\ UNCHANGED <<shm, named, semVars, i, child, router>>

(* destroy_shared_region exits at a segment that is gone already. *)
Unlink ==
  /\ ParentAt("unlink")
  /\ IF i \in named /\ i \notin shm
       THEN ppc' = "aborted" /\ UNCHANGED <<shm, i>>
       ELSE Loop("unlink", "done") /\ shm' = shm \ (named \cap {i})
  /\ UNCHANGED <<named, semVars, child, router>>

Parent ==
  \/ Cleanup \/ ForkRouter \/ Fork \/ AwaitReady \/ ReleaseOne
  \/ WaitForUser \/ WaitForRouter \/ Unlink
-----------------------------------------------------------------------------
ChildAt(r, label) == child[r] = label /\ UNCHANGED <<failures, others, ppc, i>>

Become(r, label) == child' = [child EXCEPT ![r] = label]

(* create_process_segment: unlinks what has its name, then creates it. *)
CreateSegment(r) ==
  /\ ChildAt(r, "create")
  /\ named' = named \cup {r}
  /\ shm' = shm \cup {r}
  /\ created' = created \cup {r}
  /\ Become(r, "report")
  /\ UNCHANGED <<semVars, router, reported>>

ReportReady(r) ==
  /\ ChildAt(r, "report")
  /\ ready_sem' = ready_sem + 1
  /\ reported' = reported \cup {r}
  /\ Become(r, "barrier")
  /\ UNCHANGED <<shm, named, start_sem, finalized_count, router, created>>

PassBarrier(r) ==
  /\ ChildAt(r, "barrier")
  /\ start_sem > 0
  /\ start_sem' = start_sem - 1
  /\ Become(r, "run")
  /\ UNCHANGED <<shm, named, ready_sem, finalized_count, router, histVars>>

(* shm_open of its own segment to send, or of another's to receive, fails. *)
OpenFails(r) ==
  /\ ChildAt(r, "run")
  /\ \E q \in Ranks : q \notin shm
  /\ Become(r, "dead")
  /\ UNCHANGED <<shm, named, semVars, router, histVars>>

(* Mutant: counts itself and does not look whether it is the last. *)
FinalizeSilently(r) ==
  /\ ChildAt(r, "run")
  /\ finalized_count' = finalized_count + 1
  /\ Become(r, "gone")
  /\ UNCHANGED <<shm, named, ready_sem, start_sem, router, histVars>>

(* Mutant: a process removes its own segment when it leaves. *)
FinalizeUnlinks(r) ==
  /\ ChildAt(r, "run")
  /\ shm' = shm \ {r}
  /\ finalized_count' = finalized_count + 1
  /\ Become(r, IF finalized_count + 1 = NProc THEN "last" ELSE "gone")
  /\ UNCHANGED <<named, ready_sem, start_sem, router, histVars>>

(* com_finalize under finalize_lock: the last to be counted has to stop    *)
(* the router, the others are done with the layer.                         *)
Finalize(r) ==
  /\ ChildAt(r, "run")
  /\ finalized_count' = finalized_count + 1
  /\ Become(r, IF finalized_count + 1 = NProc THEN "last" ELSE "gone")
  /\ UNCHANGED <<shm, named, ready_sem, start_sem, router, histVars>>

(* is_last: the sentinel for the router. *)
StopRouter(r) ==
  /\ ChildAt(r, "last")
  /\ router' = "stopping"
  /\ Become(r, "gone")
  /\ UNCHANGED <<shm, named, semVars, histVars>>

(* exit(1) or a signal.  In create_process_segment it may have named its   *)
(* segment, removed an old one of that name, or created its own.           *)
Die(r) ==
  /\ child[r] \in {"create", "report", "barrier", "run", "last"}
  /\ failures < MaxFailures
  /\ failures' = failures + 1
  /\ \/ UNCHANGED <<shm, named, created>>
     \/ /\ child[r] = "create"
        /\ named' = named \cup {r}
        /\ \/ shm' \in {shm, shm \ {r}} /\ UNCHANGED created
           \/ shm' = shm \cup {r} /\ created' = created \cup {r}
  /\ Become(r, "dead")
  /\ UNCHANGED <<semVars, ppc, i, router, others, reported>>

Child(r) ==
  \/ CreateSegment(r) \/ ReportReady(r) \/ PassBarrier(r) \/ OpenFails(r)
  \/ Finalize(r) \/ StopRouter(r)

(* server_loop receives the sentinel. *)
RouterExits ==
  /\ router = "stopping"
  /\ router' = "exited"
  /\ UNCHANGED <<shm, named, semVars, ppc, i, child, failures, others, histVars>>

(* Another program starts: its cleanup lists the segments by prefix.       *)
OtherStarts ==
  /\ others < MaxOthers
  /\ others' = others + 1
  /\ UNCHANGED <<shm, named, semVars, ppc, i, child, router, failures, histVars>>

(* It removes them one by one; it may be slow, and find later ones too.    *)
OtherUnlinks(r) ==
  /\ others > 0 /\ r \in shm
  /\ shm' = shm \ {r}
  /\ UNCHANGED <<named, semVars, ppc, i, child, router, failures, others, histVars>>

ParentGone == ppc \in {"done", "failed", "aborted"}

(* Nothing is left to run. *)
Ended ==
  /\ ParentGone /\ router \in {"none", "exited"}
  /\ \A r \in Ranks : HasExited(r) \/ child[r] = "none"
  /\ UNCHANGED vars

Next ==
  \/ Parent \/ ForkFails
  \/ \E r \in Ranks : Child(r) \/ Die(r)
  \/ RouterExits
  \/ OtherStarts \/ \E r \in Ranks : OtherUnlinks(r)
  \/ Ended

(* Every process that can go on does; failures and other programs need not *)
(* happen.  A user process whose peers are alive comes to com_finalize     *)
(* (AllToAll and Multicast check that).                                       *)
Spec ==
  /\ Init /\ [][Next]_vars
  /\ WF_vars(Parent) /\ WF_vars(RouterExits)
  /\ \A r \in Ranks : WF_vars(Child(r))
-----------------------------------------------------------------------------
(* "Parent releases all children after setup": a user process runs only    *)
(* when every user process has created its segment and has reported it,    *)
(* those included that have died since; so whatever forks fail, and        *)
(* whoever dies before its report, nobody starts with a process missing.   *)
StartBarrier ==
  \A r \in Ranks : child[r] \in {"run", "last", "gone"} => created = Ranks /\ reported = Ranks

(* Nobody but the parent is left when it unlinks segments and destroys the *)
(* semaphores in them.                                                     *)
TeardownAlone ==
  ppc \in {"unlink", "aborted", "done"} =>
    router = "exited" /\ \A r \in Ranks : child[r] = "gone"

(* A program that ends as it should leaves no segment behind, and the      *)
(* teardown exits half-way only when another program has taken one of the  *)
(* segments: this one neither misses nor removes one twice, whatever old   *)
(* segments it found and whoever died on the way.                          *)
NoLeak == (ppc = "done" => shm = {}) /\ (ppc = "aborted" => others > 0)

(* "Persistent shm segment owned by this process": every segment exists    *)
(* for as long as some process uses the layer.                             *)
SegmentPersists == \A r \in Ranks : child[r] = "run" => Ranks \subseteq shm

(* Whatever forks fail and processes die, that is so while no other        *)
(* program starts: nobody unlinks a segment that is in use.                *)
SegmentPersistsAlone == others = 0 => SegmentPersists

(* "The last finishing user process sends a shutdown sentinel to the       *)
(* router": once all user processes were forked and have finished, the     *)
(* router stops.                                                           *)
RouterStops == (\A r \in Ranks : HasExited(r)) ~> router = "exited"

(* A program in which nothing fails, next to no other, comes back: the     *)
(* barrier opens, the router is stopped and every segment is removed.      *)
Returns == <>(failures > 0 \/ others > 0 \/ (ppc = "done" /\ shm = {}))
=============================================================================
