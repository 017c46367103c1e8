------------------------------- MODULE ComInv -------------------------------
(***************************************************************************)
(* The inductive invariant of Com: what ties together a thread's position  *)
(* in com.h, the mailbox, the inboxes, the acknowledgements and the        *)
(* shutdown.  ComProofs proves that it is inductive and that it implies    *)
(* the properties of Com; TLC checks it on the small instances.            *)
(***************************************************************************)
EXTENDS Com

(* Where a sender thread holds the lock on the send buffer, where its      *)
(* buffer is mapped, and where it holds the central mailbox.               *)
Locked  == {"drain", "fill", "ready", "box", "post", "deliver", "release"}
Mapped  == {"fill", "ready", "box", "post", "deliver", "release"}
Holding == {"post", "deliver", "release"}
Reading == {"copy", "clear"}

(* A message that has a payload names the segment that holds it. *)
Named ==
  /\ server_box.size # 0 => server_box.shm_name \in Ranks
  /\ \A q \in Ranks : inbox[q].size # 0 => inbox[q].shm_name \in Ranks

TypeInv == TypeOK /\ Named

(* The lock on the send buffer excludes the other threads of the process,  *)
(* and a process in com_finalize has no thread inside com.h.               *)
LockInv ==
  \A p \in Ranks :
    /\ send_buffer_active[p] <=> send_buffer_lock[p] # {}
    /\ \A w \in Workers : w \in send_buffer_lock[p] => send_buffer_lock[p] = {w}
    /\ \A w \in Workers : pc[p][w] \in Locked <=> w \in send_buffer_lock[p]
    /\ fpc[p] # "run" => rpc[p] = "idle" /\ \A w \in Workers : pc[p][w] = "idle"

(* The buffer a thread fills and sends is as large as it asked for. *)
BufferInv ==
  \A p \in Ranks :
    /\ file_size[p] = capacity[p]
    /\ send_mapping[p] <= capacity[p]
    /\ \A w \in Workers :
         /\ pc[p][w] \in Mapped =>
              /\ prepared_size[p] = call[p][w].size
              /\ call[p][w].size <= send_mapping[p]
         /\ pc[p][w] = "fill" => pending_acks[p] = 0
         /\ pc[p][w] \in {"box"} \cup Holding => call[p][w].dest \in Ranks

(* What can be going on in the mailbox. *)
Idle      == box_full = 0 /\ box_delivered = 0 /\ router_pc = "wait"
Posted    == box_full = 1 /\ box_delivered = 0 /\ router_pc = "wait"
Routing   == /\ box_full = 0 /\ box_delivered = 0
             /\ router_pc \in {"reserve", "forward", "confirm"}
             /\ router_dest = server_box.dest_rank /\ router_dest \in Ranks
Confirmed == box_full = 0 /\ box_delivered = 1 /\ router_pc = "wait"
Stopped   == box_full = 0 /\ box_delivered = 0 /\ router_pc = "stopped"

NobodyHolds ==
  \A p \in Ranks : fpc[p] # "sentinel" /\ \A w \in Workers : pc[p][w] \notin Holding

(* The request of thread w of process p. *)
RequestOf(p, w) ==
  [src_rank |-> p, dest_rank |-> call[p][w].dest, msg_id |-> call[p][w].msg_id,
   size |-> call[p][w].size, shm_name |-> p]

Delivering(p, w) == pc[p][w] = "deliver" /\ server_box = RequestOf(p, w)

(* The sentinel was posted. *)
Closed ==
  /\ server_box = EmptyBox /\ box_empty = 0 /\ NobodyHolds
  /\ Posted \/ Stopped

(* The mailbox has at most one holder, and everything that goes on in it   *)
(* is the holder's request, until the sentinel closes it.                  *)
BoxInv ==
  /\ box_empty \in {0, 1}
  /\ Idle \/ Posted \/ Routing \/ Confirmed \/ Stopped
  /\ box_empty = 1 => Idle /\ NobodyHolds
  /\ \A p, q \in Ranks, w, v \in Workers :
       pc[p][w] \in Holding /\ pc[q][v] \in Holding => p = q /\ w = v
  /\ \A p, q \in Ranks : fpc[p] = "sentinel" /\ fpc[q] = "sentinel" => p = q
  /\ \A p, q \in Ranks, w \in Workers : pc[p][w] \in Holding => fpc[q] # "sentinel"
  /\ \A p \in Ranks : fpc[p] = "sentinel" => Idle
  /\ \A p \in Ranks, w \in Workers :
       /\ pc[p][w] \in {"post", "release"} => Idle
       /\ pc[p][w] = "deliver" => ~Idle /\ ~Stopped /\ Delivering(p, w)
  /\ ~Idle => Closed \/ \E p \in Ranks, w \in Workers : Delivering(p, w)

(* The router is writing the inbox of q. *)
Forwarding(q) == router_pc = "forward" /\ router_dest = q

(* The inbox of q holds a message that was sent and is not read yet. *)
Valid(q) ==
  /\ inbox[q].src_rank \in Ranks
  /\ inbox[q].shm_name = inbox[q].src_rank
  /\ inbox[q].size <= file_size[inbox[q].src_rank]

(* An inbox is free, being written, full or being read, and never two of   *)
(* these.                                                                  *)
SlotInv ==
  \A q \in Ranks :
    /\ slot_empty[q] \in {0, 1} /\ slot_full[q] \in {0, 1}
    /\ slot_empty[q] = 1 =>
         slot_full[q] = 0 /\ rpc[q] \notin Reading /\ ~Forwarding(q) /\ inbox[q] = EmptyInbox
    /\ slot_full[q] = 1 => rpc[q] \notin Reading /\ ~Forwarding(q) /\ Valid(q)
    /\ rpc[q] \in Reading =>
         /\ slot_full[q] = 0 /\ ~Forwarding(q) /\ Valid(q)
         /\ rcv[q].sender_rank = inbox[q].src_rank /\ rcv[q].size = inbox[q].size
    /\ Forwarding(q) => inbox[q] = EmptyInbox
    /\ inbox[q] # EmptyInbox => slot_full[q] = 1 \/ rpc[q] \in Reading
    /\ rpc[q] = "ack" => rcv[q].sender_rank \in Ranks

Counted == {p \in Ranks : fpc[p] \in {"stop", "sentinel", "gone"}}

(* The shutdown: a process that is counted waits for nothing any more, and *)
(* only the last one counted can stop the router.                          *)
FinInv ==
  /\ finalized_count = Cardinality(Counted)
  /\ finalize_lock \in {0, 1}
  /\ \A p, q \in Ranks : fpc[p] = "count" =>
       finalize_lock = 0 /\ (fpc[q] = "count" => p = q)
  /\ \A p \in Ranks :
       /\ fpc[p] \in {"count", "stop", "sentinel", "gone"} => pending_acks[p] = 0
       /\ fpc[p] \in {"stop", "sentinel"} =>
            Counted = Ranks /\ \A q \in Ranks \ {p} : fpc[q] = "gone"
  /\ ~Idle /\ server_box.dest_rank = NoRank => \A p \in Ranks : fpc[p] = "gone"

(* All of it: the inductive invariant. *)
IInv ==
  /\ TypeInv
  /\ LockInv /\ BufferInv /\ BoxInv /\ SlotInv
  /\ AcksBalance /\ FinInv
=============================================================================
