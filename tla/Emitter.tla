------------------------------ MODULE Emitter -------------------------------
(***************************************************************************)
(* The emitter: threads of the proxy (its two pumps, its main thread) hand *)
(* events to a bounded queue, one daemon thread drains the queue into the  *)
(* sinks, and stop() ends it with a sentinel that travels through the same  *)
(* queue.  A full queue drops its oldest item, so that no producer waits.  *)
(*                                                                         *)
(* queue.Queue makes one get or one put atomic, and nothing more: the      *)
(* drop-oldest pair is atomic among producers because of _enqueue_lock,    *)
(* which neither the drain thread nor stop() takes.                        *)
(***************************************************************************)
EXTENDS Naturals, Sequences, FiniteSets

CONSTANTS
  Producers,     \* the threads that call enqueue_*
  NEvents,       \* how many events they have, at most
  QueueMax,      \* _QUEUE_MAXSIZE
  NSinks,        \* the legs of BATON_EVENT_SINK: how many sinks a MultiSink has
  Files,         \* the legs that are files
  Sentinel       \* the None that stop() queues

Event == [src : Producers, seq : 0 .. NEvents - 1]
Item == Event \cup {Sentinel}

ASSUME EmitterAssumption ==
  /\ NEvents \in Nat
  /\ QueueMax \in Nat \ {0}
  /\ NSinks \in Nat \ {0}
  /\ Files \subseteq 1 .. NSinks
  /\ Sentinel \notin Event

VARIABLES
  queue,       \* _queue
  seq,         \* _seq
  dropCount,   \* _drop_count
  producer,    \* per thread: where it is in _enqueue, and its current event
  drain,       \* the daemon thread, the item it took, and the sink it has got to
  stopper,     \* the thread in stop(): where it is, and whether it timed out
  running,     \* _thread is not None
  sink,        \* _sink: open, closed, or None
  delivered,   \* per sink: what it took, in order
  failed,      \* per sink: events the drain thread took and it did not take
  dropped,     \* items discarded as the oldest of a full queue
  refused,     \* new events discarded because the queue was full again
  owed         \* events stop() found in the queue or with the drain thread

vars == <<queue, seq, dropCount, producer, drain, stopper, running, sink,
          delivered, failed, dropped, refused, owed>>

ends == <<delivered, failed, dropped, refused>>

Sinks == 1 .. NSinks

Idle == [pc |-> "idle", event |-> Sentinel]

Init ==
  /\ queue = <<>>
  /\ seq = 0
  /\ dropCount = 0
  /\ producer = [p \in Producers |-> Idle]
  /\ drain = [pc |-> "get", item |-> Sentinel, at |-> 1]
  /\ stopper = [pc |-> "idle", late |-> FALSE]
  /\ running = TRUE
  /\ sink = "open"
  /\ delivered = [s \in Sinks |-> <<>>]
  /\ failed = [s \in Sinks |-> {}]
  /\ dropped = {}
  /\ refused = {}
  /\ owed = {}

Full == Len(queue) >= QueueMax

Items(s) == {s[i] : i \in DOMAIN s}

-----------------------------------------------------------------------------
(* _enqueue.                                                               *)

At(p, pc) == producer[p].pc = pc

Finish(p) == producer' = [producer EXCEPT ![p] = Idle]

\* The event is scrubbed and numbered, the number under _seq_lock.  After stop()
\* it is silently not emitted.
Number(p) ==
  /\ At(p, "idle") /\ seq < NEvents /\ running
  /\ seq' = seq + 1
  /\ producer' = [producer EXCEPT ![p] = [pc |-> "put", event |-> [src |-> p, seq |-> seq]]]
  /\ UNCHANGED <<queue, dropCount, drain, stopper, running, sink, ends, owed>>

\* _enqueue_lock is held across the drop-oldest pair.
LockFree == \A p \in Producers : ~At(p, "get") /\ ~At(p, "again")

Put(p) ==
  /\ At(p, "put") /\ LockFree /\ ~Full
  /\ queue' = Append(queue, producer[p].event)
  /\ Finish(p)
  /\ UNCHANGED <<seq, dropCount, drain, stopper, running, sink, ends, owed>>

\* Mutant: a put that waits for room.
PutWaits(p) == At(p, "put") /\ LockFree /\ Full /\ UNCHANGED vars

PutFindsFull(p) ==
  /\ At(p, "put") /\ LockFree /\ Full
  /\ dropCount' = dropCount + 1
  /\ producer' = [producer EXCEPT ![p].pc = "get"]
  /\ UNCHANGED <<queue, seq, drain, stopper, running, sink, ends, owed>>

\* Mutants: the oldest item is counted and stays; the newest is dropped.
DropCounts(p) ==
  /\ At(p, "get")
  /\ dropped' = IF queue = <<>> THEN dropped ELSE dropped \cup {Head(queue)}
  /\ producer' = [producer EXCEPT ![p].pc = "again"]
  /\ UNCHANGED <<queue, seq, dropCount, drain, stopper, running, sink, delivered,
                 failed, refused, owed>>

DropNewest(p) ==
  /\ At(p, "get")
  /\ IF queue = <<>> THEN UNCHANGED <<queue, dropped>>
     ELSE /\ dropped' = dropped \cup {queue[Len(queue)]}
          /\ queue' = SubSeq(queue, 1, Len(queue) - 1)
  /\ producer' = [producer EXCEPT ![p].pc = "again"]
  /\ UNCHANGED <<seq, dropCount, drain, stopper, running, sink, delivered,
                 failed, refused, owed>>

\* get_nowait; the drain thread may have emptied the queue meanwhile.
DropOldest(p) ==
  /\ At(p, "get")
  /\ IF queue = <<>> THEN UNCHANGED <<queue, dropped>>
     ELSE /\ dropped' = dropped \cup {Head(queue)}
          /\ queue' = Tail(queue)
  /\ producer' = [producer EXCEPT ![p].pc = "again"]
  /\ UNCHANGED <<seq, dropCount, drain, stopper, running, sink, delivered,
                 failed, refused, owed>>

\* put_nowait again; queue.Full is passed over.
PutAgain(p) ==
  /\ At(p, "again")
  /\ IF Full THEN /\ refused' = refused \cup {producer[p].event}
                  /\ UNCHANGED queue
     ELSE /\ queue' = Append(queue, producer[p].event)
          /\ UNCHANGED refused
  /\ Finish(p)
  /\ UNCHANGED <<seq, dropCount, drain, stopper, running, sink, delivered,
                 failed, dropped, owed>>

Enqueue(p) ==
  Number(p) \/ Put(p) \/ PutFindsFull(p) \/ DropOldest(p) \/ PutAgain(p)

-----------------------------------------------------------------------------
(* _drain and _deliver.                                                    *)

Take ==
  /\ drain.pc = "get" /\ queue # <<>>
  /\ drain' = IF Head(queue) = Sentinel THEN [drain EXCEPT !.pc = "done"]
              ELSE [pc |-> "deliver", item |-> Head(queue), at |-> 1]
  /\ queue' = Tail(queue)
  /\ UNCHANGED <<seq, dropCount, producer, stopper, running, sink, ends, owed>>

\* The sink is there: the event is handed to it.
BeginWrite ==
  /\ drain.pc = "deliver" /\ sink # "none"
  /\ drain' = [drain EXCEPT !.pc = "write"]
  /\ UNCHANGED <<queue, seq, dropCount, producer, stopper, running, sink, ends, owed>>

\* stop() has dropped the sink: the assertion, which no handler encloses, ends
\* the thread.
SinkIsGone ==
  /\ drain.pc = "deliver" /\ sink = "none"
  /\ failed' = [s \in Sinks |-> failed[s] \cup {drain.item}]
  /\ drain' = [pc |-> "dead", item |-> Sentinel, at |-> 1]
  /\ UNCHANGED <<queue, seq, dropCount, producer, stopper, running, sink,
                 delivered, dropped, refused, owed>>

NextItem == drain' = [pc |-> "get", item |-> Sentinel, at |-> 1]

\* MultiSink.write: the next sink of the list, or the next item after the last.
NextSink == IF drain.at < NSinks THEN drain' = [drain EXCEPT !.at = @ + 1] ELSE NextItem

\* A file that stop() has closed raises ValueError; the other sinks have nothing to close.
WriteSucceeds ==
  /\ drain.pc = "write" /\ (sink = "open" \/ drain.at \notin Files)
  /\ delivered' = [delivered EXCEPT ![drain.at] = Append(@, drain.item)]
  /\ NextSink
  /\ UNCHANGED <<queue, seq, dropCount, producer, stopper, running, sink,
                 failed, dropped, refused, owed>>

\* Mutants: an event that could not be written is queued again; the first error
\* ends the fan-out.
WriteRetries ==
  /\ drain.pc = "write" /\ ~Full
  /\ queue' = Append(queue, drain.item)
  /\ NextSink
  /\ UNCHANGED <<seq, dropCount, producer, stopper, running, sink, ends, owed>>

FirstErrorEnds ==
  /\ drain.pc = "write"
  /\ failed' = [failed EXCEPT ![drain.at] = @ \cup {drain.item}]
  /\ NextItem
  /\ UNCHANGED <<queue, seq, dropCount, producer, stopper, running, sink,
                 delivered, dropped, refused, owed>>

\* The sink raises: logged, the event is gone for this sink, and the others are
\* tried.  What MultiSink raises in the end, _deliver logs once more.
WriteFails ==
  /\ drain.pc = "write"
  /\ failed' = [failed EXCEPT ![drain.at] = @ \cup {drain.item}]
  /\ NextSink
  /\ UNCHANGED <<queue, seq, dropCount, producer, stopper, running, sink,
                 delivered, dropped, refused, owed>>

Drain == Take \/ BeginWrite \/ SinkIsGone \/ WriteSucceeds \/ WriteFails

-----------------------------------------------------------------------------
(* stop.                                                                   *)

\* A second call finds no thread and returns.
CallStop ==
  /\ stopper.pc = "idle" /\ running
  /\ stopper' = [stopper EXCEPT !.pc = "put"]
  /\ UNCHANGED <<queue, seq, dropCount, producer, drain, running, sink, ends, owed>>

\* Mutant: the sentinel overtakes the queue.
SentinelFirst ==
  /\ stopper.pc = "put" /\ ~Full
  /\ owed' = Items(queue) \cup ({drain.item} \ {Sentinel})
  /\ queue' = <<Sentinel>> \o queue
  /\ stopper' = [stopper EXCEPT !.pc = "join"]
  /\ UNCHANGED <<seq, dropCount, producer, drain, running, sink, ends>>

\* put(None, timeout): waits for room, without _enqueue_lock.
PutSentinel ==
  /\ stopper.pc = "put" /\ ~Full
  /\ owed' = Items(queue) \cup ({drain.item} \ {Sentinel})
  /\ queue' = Append(queue, Sentinel)
  /\ stopper' = [stopper EXCEPT !.pc = "join"]
  /\ UNCHANGED <<seq, dropCount, producer, drain, running, sink, ends>>

PutSentinelTimesOut ==
  /\ stopper.pc = "put" /\ Full
  /\ stopper' = [pc |-> "join", late |-> TRUE]
  /\ UNCHANGED <<queue, seq, dropCount, producer, drain, running, sink, ends, owed>>

DrainIsOver == drain.pc \in {"done", "dead"}

\* _thread is None as soon as the join is over: what is enqueued from now on is
\* silently not emitted.
Join ==
  /\ stopper.pc = "join" /\ DrainIsOver
  /\ stopper' = [stopper EXCEPT !.pc = "close"]
  /\ running' = FALSE
  /\ UNCHANGED <<queue, seq, dropCount, producer, drain, sink, ends, owed>>

\* Mutant: a join without a timeout.
JoinWaits == stopper.pc = "join" /\ ~DrainIsOver /\ UNCHANGED vars

JoinTimesOut ==
  /\ stopper.pc = "join" /\ ~DrainIsOver
  /\ stopper' = [pc |-> "close", late |-> TRUE]
  /\ running' = FALSE
  /\ UNCHANGED <<queue, seq, dropCount, producer, drain, sink, ends, owed>>

\* A write holds the lock of the file's buffer until it returns.
FileIsWritten == drain.pc = "write" /\ drain.at \in Files

\* sink.close() has no timeout: closing a file waits for that lock, after a join
\* that timed out perhaps for ever.
CloseSink ==
  /\ stopper.pc = "close" /\ ~FileIsWritten
  /\ sink' = "closed"
  /\ stopper' = [stopper EXCEPT !.pc = "drop"]
  /\ UNCHANGED <<queue, seq, dropCount, producer, drain, running, ends, owed>>

DropSink ==
  /\ stopper.pc = "drop"
  /\ sink' = "none"
  /\ stopper' = [stopper EXCEPT !.pc = "done"]
  /\ UNCHANGED <<queue, seq, dropCount, producer, drain, running, ends, owed>>

Stop ==
  CallStop \/ PutSentinel \/ PutSentinelTimesOut \/ Join \/ JoinTimesOut \/ CloseSink
  \/ DropSink

Next == (\E p \in Producers : Enqueue(p)) \/ Drain \/ Stop

Spec == Init /\ [][Next]_vars

\* A thread waits for the lock, or holds it, or is inside stop().
Acquire(p) == Put(p) \/ PutFindsFull(p)
HolderStep == \E p \in Producers : DropOldest(p) \/ PutAgain(p)
StopStep ==
  PutSentinel \/ PutSentinelTimesOut \/ Join \/ JoinTimesOut \/ CloseSink \/ DropSink

\* Such a thread goes on when it can: stop() times out of its put and of its join, and
\* closes the sink once no file is being written.  Nothing is assumed of the drain
\* thread, whose sink may never return.
LockIsOffered(p) == WF_vars(Acquire(p))
HolderGoesOn == WF_vars(HolderStep)
ProducersAreFair == HolderGoesOn /\ \A p \in Producers : LockIsOffered(p)
StopIsFair == WF_vars(StopStep)

FairSpec == Spec /\ ProducersAreFair /\ StopIsFair

-----------------------------------------------------------------------------
(* Correctness.                                                            *)

\* Every variable has its type.
TypeOK ==
  /\ queue \in Seq(Item)
  /\ seq \in 0 .. NEvents
  /\ dropCount \in Nat
  /\ producer \in [Producers -> [pc : {"idle", "put", "get", "again"}, event : Item]]
  /\ drain \in [pc : {"get", "deliver", "write", "done", "dead"}, item : Item, at : Sinks]
  /\ stopper \in [pc : {"idle", "put", "join", "close", "drop", "done"}, late : BOOLEAN]
  /\ running \in BOOLEAN
  /\ sink \in {"open", "closed", "none"}
  /\ delivered \in [Sinks -> Seq(Event)]
  /\ failed \in [Sinks -> SUBSET Event]
  /\ dropped \subseteq Item
  /\ refused \subseteq Event
  /\ owed \subseteq Event

\* What the drain thread has yet to offer to sink s, and where an event may be
\* as far as that sink is concerned.
ToWrite(s) ==
  IF drain.pc = "deliver" \/ (drain.pc = "write" /\ drain.at <= s) THEN <<drain.item>> ELSE <<>>
InHand(s) == {producer[p].event : p \in Producers} \cup Items(ToWrite(s))
Places(s) == <<InHand(s), Items(queue), Items(delivered[s]), failed[s], dropped, refused>>

\* No event is in two places: what a sink was given is never also counted as
\* dropped, and nothing is written to a sink twice, or under the number of another.
NoEventTwice ==
  \A s \in Sinks :
    /\ \A i, j \in DOMAIN Places(s) : i # j => Places(s)[i] \cap Places(s)[j] \subseteq {Sentinel}
    /\ \A i, j \in DOMAIN delivered[s] : i # j => delivered[s][i].seq # delivered[s][j].seq
    /\ \A i, j \in DOMAIN queue : i # j => queue[i] # queue[j]

\* Overflow costs the oldest event: the queue keeps to its size, and what is dropped
\* is older than what is queued; and while stop() has queued no sentinel it never
\* costs the new event, and no more events than the log line counts.
OverflowDropsTheOldest ==
  /\ Len(queue) <= QueueMax
  /\ \A e \in dropped \ {Sentinel}, f \in Items(queue) \ {Sentinel} :
       e.src = f.src => e.seq < f.seq
  /\ stopper.pc \in {"idle", "put"} =>
       refused = {} /\ Cardinality(dropped) <= dropCount

\* A stop() that did not run into a timeout has seen every event that was ahead
\* of its sentinel written to each sink, or discarded as the oldest or by that sink.
CleanStopFlushes ==
  stopper.pc = "done" /\ ~stopper.late =>
    \A s \in Sinks : owed \subseteq Items(delivered[s]) \cup failed[s] \cup dropped

\* MultiSink: "A failure in one sink doesn't stop the others": an event that one
\* sink was offered is, between two items, taken or failed by every other itself.
SinksAreIsolated ==
  drain.pc # "write" =>
    \A s, t \in Sinks :
      Items(delivered[s]) \cup failed[s] = Items(delivered[t]) \cup failed[t]

\* To each sink the emitter delivers in the order of acceptance, each event at
\* most once.  The sentinel is an item like any other, and always lost.
Fifo(s) == INSTANCE LossyFifo WITH
  Events <- Item,
  accepted <- ToWrite(s) \o queue,
  delivered <- delivered[s]

DeliversInOrder ==
  /\ \A s \in Sinks : Fifo(s)!Init
  /\ [][\A s \in Sinks : Fifo(s)!Step]_vars

\* The fail-open contract: a thread that enqueues comes back, even when the
\* drain thread never takes another item.
ProducersNeverBlock ==
  \A p \in Producers : ~At(p, "idle") ~> At(p, "idle")

\* The two timeouts of stop() take it as far as the sink whatever the drain thread
\* does; and it returns, unless a file is being written again and again or for ever.
StopReturns ==
  /\ stopper.pc = "put" ~> stopper.pc \in {"close", "drop", "done"}
  /\ <>[]~FileIsWritten => (stopper.pc = "put" ~> stopper.pc = "done")
=============================================================================
