# TLA+ model of the RP message-passing layer and its benchmarks

The repository holds two C programs, `rpBenchmark1` and `rpBenchmark2`. Each forks
`nr_proc` user processes and one router process on one machine. User processes
exchange messages through a small communication layer, `com.c`, which is built from
POSIX shared memory and process-shared semaphores. `rpBenchmark1` runs an all-to-all
exchange over it, `rpBenchmark2` a distributed key/value request-response benchmark.
The two copies of `com.c` have the same operations (the second drops some comments);
the modules name the lines of the first.

## 1. Inventory

### 1.1 The communication layer (`com.c`)

State in shared memory (`SharedState`, com.c:77-87):

| state | meaning |
|---|---|
| `server_box` with `box_empty`, `box_full`, `box_delivered` | the central mailbox: one request at a time, for all senders of all processes |
| `slots[q]`: inbox fields with `slot_empty`, `slot_full` | one message's metadata, from the router to the receiver of `q` |
| `slots[p]`: `ack_full` | counting semaphore, receivers acknowledge straight to the sender |
| `slots[p]`: `pending_acks`, `capacity`, `prepared_size` | what the sender of `p` knows of its own segment |
| `finalize_lock`, `finalized_count` | who is the last process to leave |
| `ready_sem`, `start_sem` | the start barrier |

Beside it there is one payload segment per process (a shared memory object), and per
process the mapping of its own segment, a mutex on the send buffer and
`g_next_msg_id`.

| operation | what it does | interacts with |
|---|---|---|
| `com_prepare_send_buffer` | locks the buffer, waits for all pending acknowledgements, grows and maps the segment | receivers (acks) |
| `com_send` | takes the mailbox, posts metadata, waits for `delivered`, returns the mailbox, counts a pending ack | router |
| `com_finish_send_buffer` | unlocks the buffer | the other sender threads of the process |
| `com_recv` | waits for the inbox, copies the payload from the sender's segment, clears the inbox, posts an ack | router, sender |
| `com_mcast` | one prepare, one `com_send` to each other rank, one finish | as `com_send` |
| `com_finalize` | finishes a buffer left open, drains acks, counts itself, the last one sends the sentinel | router |
| `server_loop` | takes a request, waits for the destination's inbox, forwards, confirms; stops at the sentinel | senders, receivers |
| `com_initialize` | unlinks old segments, creates state, forks, start barrier; the parent waits for all and unlinks | the operating system |

Hard behaviours: one semaphore confirms deliveries to senders of all processes; the
acknowledgement may arrive before the sender has counted the message it is for; one
segment is reused for every message of a process; the router blocks on one full
inbox while others wait; the shutdown sentinel travels through the same mailbox as
messages; any call can end its process with `exit(1)` holding whatever it holds.

What makes it correct: nobody reads a segment that is being written or resized
(`SegmentQuiet`), no acknowledgement is lost or counted twice (`AcksBalance`), the
mailbox and its confirmations are never mixed up (`MailboxExclusive`), an inbox is
overwritten only when it has been read (`InboxExclusive`), reads stay in the segment
(`ReadsInBounds`), the run-time checks never fail for a legal client
(`ChecksNeverFail`), a shutdown loses nothing (`QuietShutdown`), a semaphore at zero always
has a holder (`PermitsHeld`), and all together
the layer is a post office: every message handed out once, in order, unchanged
(`ImplementsPostOffice`). A multicast reaches every other process once, and the segment
it is in is rewritten only when all have copied it (`ImplementsBroadcast`, `SentToAll`).

### 1.2 `rpBenchmark1` (`main.c`)

One sender and one receiver thread per process, joined before `com_finalize`. State:
loop counters. Correct when every receiver gets each message of each cycle once, with
the cycle's pattern (`InOrderIntact`, `EveryMessageOnce`), no process runs a cycle
ahead of its acknowledgements (`Lockstep`), the threads never wait in a circle
(`NeverStuck`), and the run ends (`Termination`).

### 1.3 `rpBenchmark2` (`main.c`)

Three threads per process: compute (sends requests, waits for each response, then
broadcasts STOP and sends itself LOCAL_DONE), request handler (pops requests,
sends responses), receiver (dispatches to the request queue or the response slot,
counts STOPs). State: a bounded request queue (a ring with a mutex, two semaphores and a closed
flag), a response slot with one place, counters. Two threads of one process send.
Hard behaviours: full queues against blocked senders, the moment the queue is closed,
the STOP count against late requests and responses, a response checksum of zero.

Correct when every request is in exactly one place until its answer is taken
(`OneAnswerEach`), the answer is the awaited one (`RightResponse`, `HandedOver`) and was
not mixed with the other thread's message (`ReceivedWhole`), the receiver never waits for
its own process (`DispatchNeverBlocks`), nothing comes after a close
(`NothingAfterClose`), the two buffers are the FIFO and the single place the threads take
them for (`ImplementsFifo`, `ImplementsOnePlace`), the latencies are averaged as defined
(`WelfordIsTwoPass`), the threads of all processes and of the layer never wait in a circle
(`NeverStuck`), and everything ends (`Termination`).

### 1.4 Not program logic

Command line, timing and report printing; Makefiles, static web pages, PDFs.

## 2. Plan

| order | module | models | status |
|---|---|---|---|
| 1 | `Com`, `PostOffice` | the layer after start-up, under its most general client; what it promises | done |
| 2 | `AllToAll` | `rpBenchmark1` over `Com` | done |
| 3 | `ComInv`, `ComProofs` | the inductive invariant of `Com` and the theorems about it | done |
| 4 | `Lifecycle` | fork loop, start barrier, `waitpid`, unlinking, a second program | done |
| 5 | `RequestQueue`, `ClosableFifo` | the queue between receiver and handler; what it promises | done |
| 6 | `DbMessages`, `DbScript`, `ComputeLoop` | messages, targets, keys, bytes and checksum; the compute thread's messages; its loop and statistics | done |
| 7 | `DistDb` | the three threads of `rpBenchmark2` over `Com` | done |
| 8 | `DbProtocol` | the same threads over an abstract layer, for three processes; implemented by `DistDb` | done |
| 9 | `Multicast`, `Broadcast` | `com_mcast` over `Com`; what it promises | done |
| 10 | `ResponseSlot`, `LocalBuffers` | the slot between receiver and compute thread; both buffers of a process together | done |
| 11 | `AllToAllProofs`, `MulticastProofs` | theorems about the clients of `Com` | done |
| 12 | `LifecycleProofs`, `BuffersProofs`, `DbProtocolProofs`, `ComputeLoopProofs` | theorems about the other components | done |
| 13 | `DistDbProofs` | `rpBenchmark2` over `Com`: a legal client, and its protocol | done |

## 3. Modules

**`Com.tla`** models `com.c` from the moment every process has passed the start
barrier. An action is one semaphore or mutex operation with the private code up to
the next one, since nothing else in the code is a point where another process can
matter; the two places where a payload is written (by the client) and copied (by the
receiver) have a beginning and an end, so that a segment rewritten in the middle is a
state of the model. Program counters name the place in the code:

| `pc[p][w]` | thread `w` of process `p` is |
|---|---|
| `idle`, `lock`, `drain` | outside; at the mutex; in `wait_for_pending_acks` |
| `fill`, `ready` | writing the payload; between calls, buffer prepared |
| `box`, `post`, `deliver`, `release` | in `com_send`: before `empty`; writing the mailbox; before `delivered`; returning it |

`rpc[q]` is the receiver (`idle`, `copy`, `clear`, `ack`), `router_pc` the router
(`wait`, `reserve`, `forward`, `confirm`, `stopped`), `fpc[p]` is `com_finalize`
(`run`, `drain`, `count`, `stop`, `sentinel`, `gone`). A semaphore is the number it
holds. `ComNext` lets every client do everything `com.h` allows: any number of sender
threads, any sizes, any number of sends between prepare and finish, a receiver, a
finalize with a buffer left open, and `exit(1)` at any point.

The client contract that is assumed, and that both benchmarks keep: one receiving
thread per process; `com_send` only from the thread that prepared the buffer, with
the prepared size and a rank in range; `com_finalize` only when no thread is inside
another call.

**`PostOffice.tla`** is the abstract specification: a box of accepted messages per
destination, handed out in order. `Com` implements it by reading the box of `q` off
its inbox and the mailbox, with the payload still in the sender's segment.

**`AllToAll.tla`** is `rpBenchmark1`: each of its actions is a `Com` action with the
thread's loop counters beside it. `got` is a history variable.

**`Lifecycle.tla`** is `com_initialize` and the parent: `ppc` is the parent's phase
(`failed` after a fork that fails, `aborted` in the middle of `destroy_shared_region`),
`i` its loop counter, `child[r]` the user process (`none`, `create`, `report`,
`barrier`, `run`, `last` when `com_finalize` has to post the sentinel, `gone` after it, `dead`
after `exit(1)` or a signal). `created` and `reported` are histories that no guard reads: who
created its segment and who posted `ready_sem`, the dead included. The
run phase is reduced to what the life cycle can see: opening segments by name, dying,
finalizing. `/dev/shm` may hold old segments at the start; the cleanup may find no
directory to list, or leave a segment that it cannot remove. Another program may start at any
moment and removes the segments of this one by one.

**`RequestQueue.tla`** is the queue of `rpBenchmark2`, with one action per semaphore or
mutex operation; the body of a critical section goes with the unlock. It is modelled
with any number of pushers, one of which closes, and one popper; the benchmark has one
pusher, so its pushes never meet a closed queue. **`ClosableFifo.tla`** is what it
promises, liveness included; the mapping reads `count` places of the ring from `head`.

**`ResponseSlot.tla`** is the response slot at the same grain: `setpc` is the receiver in
`response_slot_set`, `waitpc` the compute thread in `response_slot_wait`; `exited` is the
`exit(1)` of an unexpected response. It implements `ClosableFifo` with one place and no
close. **`LocalBuffers.tla`** runs it beside the queue, with one receiver thread that fills
both and is in one of them at a time.

**`DbMessages.tla`** has the messages as functions of rank and request number, with
their bytes. **`DbScript.tla`** is the sequence of messages a compute thread sends.
**`ComputeLoop.tla`** walks through the requests of a rank with the program's own numbers
and keeps `latency_stats` by `welford_update`, in units of `1/Scale` where `Scale` makes
every division exact.

**`Multicast.tla`** is `com_mcast`: `i` is its loop counter, `msg` its argument, `log` and
`seen` are histories. Each send is the whole protocol of `Com`. **`Broadcast.tla`** is its
promise: published messages are seen by all others, in order, and a process publishes only
when everybody has seen its message before. Nothing is promised across publishers. The
client in `Multicast` receives in a thread of its own, and has to: three processes that
multicast before they receive fill each other's inboxes, and the router, which holds the
mailbox, waits for one of them.

**`DbProtocol.tla`** is `rpBenchmark2` with the layer reduced to what its clients feel:
`box[q]` holds what was accepted for `q` and is not copied; a thread may send when no
message of its process is uncopied (`wait_for_pending_acks`) and no message waits in the
mailbox behind a full inbox. `serving` is the response the handler has to send, `got` the
message the receiver has to dispatch.

**`DistDb.tla`** is `rpBenchmark2`. The compute thread is a script of messages (its
requests, a STOP to each other rank, LOCAL_DONE) with `sent` as its place in it and
`awaiting` for `response_slot_wait`; `out` is the message of `send_raw_message` that a
thread has not sent yet. Every step inside `com.h` is the action of `Com`. `DistDb`
implements `DbProtocol`: a message is in a box from the post into the mailbox to the end
of the copy, so `sent` and `awaiting` run ahead of `com_send`'s return. The request
queue is the sequence that `RequestQueue` implements, the response slot a buffer of one
place, as `LocalBuffers` shows of both. `got` is the message the receiver
has and still has to dispatch, which can block. `closed` also stands for the return of
the receiver, whose last act it is.

**`ComInv.tla`** holds the inductive invariant of `Com`. The theorems are in
**`ComProofs.tla`**, **`AllToAllProofs.tla`**, **`MulticastProofs.tla`**,
**`LifecycleProofs.tla`**, **`BuffersProofs.tla`** (of `LocalBuffers`, which has the request
queue and the response slot), **`DbProtocolProofs.tla`**, **`DistDbProofs.tla`** (which
instantiates `DbProtocolProofs` as DistDb implements it) and **`ComputeLoopProofs.tla`**; each
has the inductive invariant it needs at its head. `MCCom`, `MCAllToAll`, `MCMulticast` and
`MCDistDb` are the instances for TLC.

`NeverStuck` says that somebody can go on until everything has ended. What a thread waits
for is written once per module: `SendStepReady`, `BeginFinalizeReady`, `FinalizeReady` and
`RouterReady` in `Com` are the semaphores and the mutex of `com.h`, and each program adds
`SenderReady`, `ReceiverReady`, `MainReady` and so on for its own threads. They are the guards of
the actions, without the bound on messages, on which no program waits; that a thread with
its predicate true has a step is what TLC's search for deadlocks shows in the same runs.

Left out of `Com`: `ack_empty`, `ack_from_rank` and `ack_msg_id`, which the code
writes and never reads; printing; and every error return of a system call, which ends
in `exit(1)` and is the action `Crash`.

## 4. Runs

| run | instance | shows |
|---|---|---|
| `com_segments` | 2 processes, sizes 1 and 2, 2 messages each | growing and shrinking messages: nobody reads a segment that is written or resized, no read past its end |
| `com_post_office` | 2 processes, 2 payloads, one process may die anywhere | mailbox and confirmations never mixed up, acknowledgements balance; the router is never stopped early; no semaphore stays at zero without a holder; refinement of `PostOffice` under every client |
| `all_to_all` | 2 processes, 3 cycles | delivery, order, contents, lockstep, termination |
| `multicast` | 3 processes, 2 of them multicast 2 messages each | every message to all others, unchanged, before the next; inboxes are overwritten only when cleared, with the router blocked behind one of them; refinement of `Broadcast`, liveness included; termination |
| `local_buffers` | 2 pushers, 3 messages each, 2 places; 2 requests and their responses | no place, permit or item lost, before, at and after the close; the receiver never waits for the slot; refinement of `ClosableFifo` by both buffers, liveness included |
| `compute_loop` | every rank of 5, 6 requests, 2, 3 and 8 bytes, latencies 0, 1, 5 | even load, intact responses accepted, statistics as defined |
| `compute_one_byte` | 5 processes, 1 request, 1 byte | violated: an intact response is rejected |
| `dist_db` | 2 processes, 2 requests each, every step of `com.c` | responses meet requests, messages are whole; no run-time check of the send buffer fails with two threads at it; the threads never wait in a circle; refinement of `DbProtocol`, liveness included |
| `db_protocol` | 3 processes, 4 requests each | every request in one place, the receiver never waits for its own process, nothing arrives after the close, the threads never wait in a circle, termination |
| `lifecycle` | 3 processes, 2 failures, 1 other program | nobody runs before all have created their segments and reported it, whoever dies when; teardown alone, no segment left, no exit half-way without another program's doing; segments persist next to failures; without failures the parent returns |
| `lifecycle_failure` | 2 processes, 1 failure | violated: the router is never stopped |
| `lifecycle_second` | 2 processes, 1 other program | violated: segments in use are removed |

The three violations are faults of the code, described in `PROJECT.json`:

* The receiver of `rpBenchmark2` rejects a response whose bytes add up to zero, and a
  response of one byte can be the byte 0. `main 5 1 1` prints "[rank 4] invalid response
  checksum for request_id=0" and hangs; `main 4 3 1` completes.
* A user process that exits with an error is not counted by `com_finalize`, so nobody
  stops the router and the parent never returns. The hang above is an instance.
* The cleanup at start removes the segments of a program that is running, which then
  fails in `shm_open`.

Bounds: `MaxMsgId` (messages per process) is the only counter that needs one;
2 messages per process reach a reused segment with an outstanding acknowledgement,
a late acknowledgement of an earlier message and a mailbox contended by both
processes. Sizes 1 and 2 are "fits" and "must grow"; the empty message, which needs no
segment, is left to the proofs, which hold for every set of sizes. `MaxCrashes` is 1. Three processes are the least at which one message waits
in the router behind another destination. In `MCAllToAll`, `MCMulticast` and `MCDistDb`
the bound on messages is above what the program sends. `all_to_all` has two processes, so
that three cycles fit; with `NProc = 3` and `Repeat = 1` the same properties hold (464,000
states). In `multicast` two senders and a process that only receives make the router hold
one's message behind the other's; the second message is the one that reuses the segment,
and differs from the first.

Two pushers in `local_buffers` are enough for one to be overtaken between its insertion and its
announcement and for a push to meet the close; three messages each in a ring of two
places wrap it around. `DistDb` has the tightest queue that the program's limits allow,
`NProc - 1` places (`nr_proc` is at most 1024, `REQUEST_QUEUE_CAPACITY` is 1024), so a
second outstanding request of a process would be seen. `HeaderSize` and `ResponseSize`
are 1 and 2: all that matters is that the two sizes differ, and that a response has more
than one byte. Three processes in `DistDb` have too many states with the layer's steps;
`DbProtocol`, which it implements, has three, and four requests of each, twice round the
other ranks. Every rank of five processes and six requests take every offset of the
round-robin; `compute_loop` needs no more, because bytes and statistics depend on sums only.
`MaxFailures` and `MaxOthers` bound what goes wrong
around a program; two failures include a process that dies while another is missing.

The runs of `ComSpec` do not check deadlock: a client may stop calling. `local_buffers` does
not, since the popper returns after a close, nor the runs of `ComputeLoop`, whose loop ends,
nor those of `Lifecycle` with failures, where the program hangs. The runs of `AllToAll`,
`Multicast`, `DistDb` and `DbProtocol` do, as all their processes must exit, after which
only `Terminated` is left.

## 5. Fairness

`AllToAll` assumes weak fairness of each sender thread, each receiver thread, each
main thread and the router: the kernel runs a thread that can run. Weak fairness is
enough although senders compete for one semaphore, because the number of messages is
finite: nobody can be passed for ever. `Multicast`, `DistDb` and `DbProtocol` assume the same
of their threads; `Broadcast` promises that published messages are seen, not that anybody
publishes. `LocalBuffers` assumes that a thread inside an operation of the slot goes on;
`RequestQueue` assumes that a thread inside push or close goes
on and that the handler keeps calling pop; nobody has to push or close. `Lifecycle`
assumes that the parent, the user processes and the router go on when they can; failures
and other programs need not happen. That a user process gets from the barrier to
`com_finalize` is what the termination of `AllToAll` and `Multicast` shows; in `dist_db` the threads
return, as `DbProtocol` requires, and no state before the end is a deadlock. `ComSpec` has no fairness and no liveness
property, a general client may stop at any time.

## 6. Proofs

The theorems hold for every number of processes, threads, messages, crashes and so on; TLC
checks the same formulas on the instances of section 4. None of the properties is
inductive by itself, so each module proves an inductive invariant first: that `Init`
implies it, one lemma per conjunct with one step per action that it is kept, and then
that it implies the properties.

**`ComProofs`**, `Inductive == ComSpec => []IInv`. That a segment is quiet when no
acknowledgement is pending rests on the balance of acknowledgements, which rests on
what is in the inboxes and who holds the mailbox. `IInv` (in `ComInv`) is the conjunction of

* `TypeInv`: the types, and that a message with a payload names a segment;
* `LockInv`: the mutex on the send buffer against the threads' places;
* `BufferInv`: sizes, capacities and mappings of a prepared buffer;
* `BoxInv`: the mailbox is idle, posted, being routed, confirmed or closed, and what
  is in it is the request of the one thread that holds it;
* `SlotInv`: an inbox is free, being written, full or being read, one at a time;
* `AcksBalance`: pending acknowledgements against posted ones, inboxes and receivers;
* `FinInv`: `finalized_count` is the number of processes counted, and only the last
  can stop the router.

`AcksStep` needs the cardinality of the set of inboxes that hold a message of
`p`, which each action changes by at most one element. From `IInv` follow `TypeOK`,
`SegmentQuiet`, `AcksBalance`, `MailboxExclusive`, `InboxExclusive`, `ReadsInBounds`,
`ChecksNeverFail` and `QuietShutdown`, and `PostOfficeImplemented`: `Com` implements
`PostOffice`. The box of a destination is read off its inbox and the mailbox; a request
posted into the mailbox is the abstract `Accept`, the end of the copy the abstract
`HandOut`, and `SegmentQuiet` is why the copy is of the accepted payload.

`NoPermitLost` is inductive on top of `IInv`: the mailbox, an inbox or the shutdown lock at
zero has somebody who holds it, and when all processes are counted one of them is on its way to
post the sentinel (`BoxHeld`, `InboxesHeld`, `FinalizeLockHeld`, `RouterIsTold`). The holder may
have died with it; then it is lost, as in the code. `LayerIdle` draws the conclusion that the
clients need: when no inbox is full, no receiver is inside `com_recv` and neither the
router, nor a thread in a send, nor one in `com_finalize` can go on, then no message is under
way and the only thread that can be waiting inside the layer, besides the router at its mailbox,
is one at the mutex of a send buffer that another thread of its process is using.

**`AllToAllProofs`** and **`MulticastProofs`** first show that the program is a client
that `ComSpec` allows, so that `IInv` is theirs. `AInv` adds `SenderInv` (loop counters
against the thread's place), `TallyInv` (every message sent is in one of four places or was
got), `CycleInv` (nothing of a sender is under way when it begins a cycle), `ContentInv` (the
segment holds the pattern of the cycle, and so does what was copied) and `ReceivedInv` (the
counter is the number of messages got): `InOrderIntact`, `Lockstep`, `EveryMessageOnce`. `MInv` adds `CallerInv`
(the loop of `com_mcast` against its place), `LogInv` (what a receiver has still to see is
at most one message, in the call, the mailbox, its inbox or ahead in the loop), `KeptInv` (the
segment holds the published message until all have copied it) and `PendInv` (the
acknowledgements awaited are those of the call's own sends): `SentToAll`, and the steps of `Broadcast`.

**Deadlock freedom**, `NeverStuck`, is a theorem of all four programs over the layer or its
abstraction: `BenchmarkNeverStuck`, `MulticastNeverStuck`, `ProtocolNeverStuck` and
`ProgramNeverStuck`. The argument is the same in each. First, a receiver with a message waits
for no other thread; for `rpBenchmark2` this is `ReceiverNeverBlocks`. So suppose that nobody can
go on. Then all inboxes are empty, `LayerIdle` says that nobody is kept waiting inside the layer, and
what is left is a question about the program's own counters. In `rpBenchmark1` every sender has
finished its loop, so every message was sent, and with no message under way (`TallyInv`) every
receiver has got all of its own; so every main thread can finalize. `com_mcast` goes the same
way (`CallsInv`: the log has one message for each call). In `rpBenchmark2` it is the
protocol that goes on: the request of a waiting compute thread is in one place (`PlaceInv`), and
whoever has that place can move; without waiting threads the last messages (`FinalInv`,
`CountInv`) close every queue. `LeftInv` says that a process that finalizes has no running
threads.

**`LifecycleProofs`**, `LifecycleInv`: `ForkInv` relates the parent's loop to the children
that exist; `ReportInv` the two histories to the places of the children, so that nobody reports
twice, or without a segment; `BarrierInv` the values of the two semaphores to the number of
those that have reported (the parent counts as many as there are ranks, so it has counted each); `SegmentInv`
the names in `/dev/shm` to the children that created them and to the slots the parent has come to;
`TeardownInv` the router's and the parent's waiting to who has left, and says that the last process
counted is alone, so that a death before its sentinel leaves nobody but the router and the
parent. `StartBarrier`, `TeardownAlone`, `NoLeak`, `SegmentPersistsAlone` follow.

**`BuffersProofs`**: `QueueInv` is `PlacesBalance` and `PermitsBalance` with `MutexInv` (who is in
the critical section), `CloseInv` (it is closed once) and `RingInv` (what is in the ring has
been pushed, once, and is not what the popper has). `SlotInv` says that the slot goes round five
stages, each with its values of the two semaphores and places of the two threads. They give the five invariants of
`local_buffers`, and that every step of the queue and of the slot is a step of
`ClosableFifo`. The wrap of the ring's indices is a lemma about `%`.

**`DbProtocolProofs`**, `ProtocolInv`: `PlaceInv` says that the request of a waiting process, or
its answer, is in one of box, dispatch, queue, service and slot and nowhere else; `FinalInv`
that the last message of `q` to `p` (a STOP, or LOCAL_DONE to itself) is sent once and is in one
place until it is counted; `CountInv` that the counters are the number of those dispatched,
and that a closed queue has seen all. `TypeOK`, `OneAnswerEach` and `NothingAfterClose`
follow. `ReceiverNeverBlocks` counts: at most one message of each other process can be in the
queue or on its way to it, and `Capacity >= NProc - 1`. `RightInv` is inductive on top of it:
what is under way belongs to the last request a process sent, because a compute thread sends
only when nothing of the request before is anywhere (`AnswersMatch`).

**`DistDbProofs`**, `DInv = IInv /\ ClientInv /\ ProtocolInv /\ RightInv`, the last two read off
the program's state by the refinement mapping. One induction carries all of them, because each
step needs the others: a message that the receiver reads is whole because of the layer (`IInv`);
the layer is used as `com.h` demands because of the places of the program's threads
(`ClientInv`: a thread has a message to send from prepare to send, the segment holds it from
then on, an inbox names a message of its sender, the compute thread follows its script); and
a handler that has returned never finds another request, because of the protocol
(`ProtocolInv`). `DStep` proves that every step is a `[ComNext]_comVars`
step (`ClientStep`), keeps `ClientInv`, and is a `[Next]` step of `DbProtocol` or unseen there
(`ProtocolRefined`). Of the steps inside `com.h` the protocol sees two, the post into the
mailbox (`Posting`: no earlier message of the process is uncopied, and nobody is behind a full
inbox) and the end of the copy. The results are `LegalClient` and with it all theorems of
`ComProofs` (`LayerHolds`), `ProtocolImplemented`, `ProtocolHolds`, `ResponseIsRight` and
`ReceivedIsWhole`.

**`ComputeLoopProofs`**, `RoundInv`: full rounds have reached every other rank, and the
round under way those whose place has passed; `RoundRobin` follows for every rank of every
number of processes. The other two theorems are about sums of any length. The library's
induction theorems are out of the provers' reach, so the sum of a function into `Nat` is
shown to be the cardinality of a set instead, one element for each unit of each value
(`Units`); that this count is the fold of the definition for every finite set of arguments
(`UnitsFold`, `OneFold`) follows from the well-foundedness of the strict subsets, by a least
set for which it would fail. From it come `SumPositive` and `SumAppended`: a sum is zero only if
every value is, and one sample more adds its value. `IntactIsAccepted` uses the first (two bytes in
succession are not both zero) and is what `ReceiverNeverBlocks` needs of the checksum;
`StatisticsAreTwoPass` the second, with `Exact`: when `Scale = n * c`, the mean is `c * S` and
`M2` is `Scale * c * (n * Q - S * S)`, for the sum `S` of the samples and the sum `Q` of their
squares. `IntactIsAccepted` says `1 \notin ResponseSizes`: with one byte it is false, see
`compute_one_byte`.

Assumptions. Those on constants, each named where the constant is declared, are the ranges
that the programs check or set: `ComAssumption`, `PatternAssumption` (the payloads of
`Com` include the patterns), `MulticastAssumption` (some message can be sent, or nobody could call), `DistDbAssumption`,
`DbProtocolAssumption` (with `Capacity >= NProc - 1`, 1024 places and at most 1024 processes). `DistDbAssumption` also
says that a payload of `Com` is a message of the program, and that a response has more than one
byte: with one byte the program hangs, see `compute_one_byte`.

Only model-checked:

* liveness and the fairness of the abstract specifications, which are out of the
  prover's reach: `Termination` of three runs, `Returns`, and the liveness parts of
  `ImplementsFifo`, `ImplementsOnePlace`, `ImplementsBroadcast`, `ImplementsProtocol`, whose
  safety parts are theorems. Of `Termination`, that nothing gets stuck is a theorem
  (`NeverStuck`); that the steps come to an end is not;
* that the `Ready` predicates are the `ENABLED` of their threads, see section 3.

Proved without a run of their own: the type invariants of all modules but `Com`, `IInv` and the
other inductive invariants, and `NeverStuck` of `AllToAll` and `Multicast`, where the runs look
for deadlocks. A leaf that needs more than the prover's default time names its limit
(`SMTT`, `ZenonT`).

## 7. Not modelled

The rounding of the latency statistics and the square root in `welford_stddev`; parsing and
printing, the web pages. Crashes
of the router: it calls nothing that can fail except semaphore operations. Real
timing. Overflow of `int` in keys and request numbers, which takes more than 10^9
requests of one process, of `repeat * (nr_proc - 1)`, which takes more cycles than any run completes, and of `sizeof(MessageHeader) + response_size`, which takes a size no machine can
allocate. A process that dies in the middle of `AllToAll`, `Multicast` or `DistDb`: `Com` has crashes
under its general client, `Lifecycle` has their effect on the program.
