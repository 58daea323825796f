--------------------------- MODULE EmitterProofs ---------------------------
(***************************************************************************)
(* The safety of the emitter for every number of threads, events, places   *)
(* of the queue and sinks, and for every schedule of the threads; and its  *)
(* liveness, given that an action is enabled when its guard is true.       *)
(***************************************************************************)
EXTENDS Emitter, SequenceTheorems, FiniteSetTheorems, TLAPS

\* An item is held by a thread that puts it, on its way to a sink, queued,
\* taken or failed by the sink, dropped or refused.
Busy == {p \in Producers : ~At(p, "idle")}
Held == {producer[p].event : p \in Busy}
Got(s) == Items(delivered[s]) \cup failed[s]

Distinct(q) == \A i, j \in DOMAIN q : i # j => q[i] # q[j]

\* Where the threads stand.
Control ==
  /\ \A p \in Producers :
       IF At(p, "idle") THEN producer[p].event = Sentinel
       ELSE producer[p].event \in Event /\ producer[p].event.src = p
  /\ \A p, q \in Producers : producer[p].pc \in {"get", "again"} /\ producer[q].pc \in {"get", "again"} => p = q
  /\ drain.pc \in {"deliver", "write"} <=> drain.item # Sentinel
  /\ drain.pc # "write" => drain.at = 1
  /\ sink = "open" <=> stopper.pc \notin {"drop", "done"}
  /\ sink = "none" <=> stopper.pc = "done"
  /\ Sentinel \in Items(queue) \cup dropped \/ drain.pc = "done" => stopper.pc \in {"join", "close", "drop", "done"}
  /\ drain.pc = "done" => Sentinel \notin Items(queue)
  /\ drain.pc = "dead" => stopper.pc = "done"
  /\ stopper.pc \in {"close", "drop", "done"} /\ ~stopper.late => drain.pc = "done"

\* Numbers are given once.
Every == Held \cup {drain.item} \cup Items(queue) \cup dropped \cup refused
           \cup UNION {Got(s) : s \in Sinks}
Unique ==
  /\ \A e \in Every \ {Sentinel} : e.seq < seq
  /\ \A e, f \in Every \ {Sentinel} : e.seq = f.seq => e = f

\* No item is in two places.
Disjoint(a, b, c, d, e, f, g) ==
  /\ a \cap (b \cup c \cup d \cup e \cup f \cup g) = {}
  /\ b \cap (c \cup d \cup e \cup f \cup g) = {}
  /\ c \cap (d \cup e \cup f \cup g) = {}
  /\ d \cap (e \cup f \cup g) = {}
  /\ e \cap (f \cup g) = {}
  /\ f \cap g = {}

Apart ==
  /\ \A s \in Sinks :
       /\ Disjoint(Held, Items(ToWrite(s)), Items(queue), Items(delivered[s]), failed[s],
                   dropped, refused)
       /\ Distinct(delivered[s])
  /\ Distinct(queue)

\* The events of one thread grow older from its hands to the queue to the dropped.
Older(e, f) == e.src = f.src => e.seq < f.seq
Order ==
  /\ \A i, j \in DOMAIN queue :
       i < j /\ queue[i] # Sentinel /\ queue[j] # Sentinel => Older(queue[i], queue[j])
  /\ \A e \in dropped \ {Sentinel}, f \in Items(queue) \ {Sentinel} : Older(e, f)
  /\ \A f \in Held, e \in (Items(queue) \cup dropped) \ {Sentinel} : Older(e, f)

\* What overflow has cost, and the room it has made.
Freeing == \E p \in Producers : At(p, "get")
Overflow ==
  /\ Len(queue) <= QueueMax
  /\ IsFiniteSet(dropped)
  /\ Cardinality(dropped) + (IF Freeing THEN 1 ELSE 0) <= dropCount
  /\ stopper.pc \in {"idle", "put"} =>
       /\ refused = {}
       /\ \A p \in Producers : At(p, "again") => ~Full

\* What stop() waits for is ahead of its sentinel.
Flush ==
  /\ stopper.pc \in {"idle", "put"} => owed = {}
  /\ owed \cap Held = {}
  /\ \A s \in Sinks : owed \subseteq Got(s) \cup dropped \cup Items(ToWrite(s)) \cup Items(queue)
  /\ \A i \in DOMAIN queue : queue[i] \in owed => \E j \in DOMAIN queue : i < j /\ queue[j] = Sentinel

\* A sink has got the item at hand when the fan-out has passed it.
FanOut ==
  /\ \A s, t \in Sinks : Got(s) \ {drain.item} = Got(t) \ {drain.item}
  /\ \A s \in Sinks : drain.item \in Got(s) <=> s < drain.at

\* The inductive invariant.
IInv == TypeOK /\ Control /\ Unique /\ Apart /\ Order /\ Overflow /\ Flush /\ FanOut

-----------------------------------------------------------------------------
(* Sequences as queues.                                                    *)

LEMMA ItemsType ==
  ASSUME NEW S, NEW q \in Seq(S)
  PROVE  /\ Items(q) \subseteq S
         /\ DOMAIN q = 1 .. Len(q) /\ Len(q) \in Nat
         /\ \A i \in DOMAIN q : q[i] \in S /\ q[i] \in Items(q)
<1>1. DOMAIN q = 1 .. Len(q) /\ Len(q) \in Nat
  BY LenProperties
<1>2. \A i \in DOMAIN q : q[i] \in S
  BY <1>1, ElementOfSeq
<1>3. QED
  BY <1>1, <1>2 DEF Items

\* What is appended joins the items, and comes after all of them.
LEMMA AppendLemma ==
  ASSUME NEW S, NEW q \in Seq(S), NEW e \in S
  PROVE  /\ Append(q, e) \in Seq(S)
         /\ Len(Append(q, e)) = Len(q) + 1
         /\ DOMAIN Append(q, e) = 1 .. Len(q) + 1
         /\ \A i \in 1 .. Len(q) : Append(q, e)[i] = q[i]
         /\ Append(q, e)[Len(q) + 1] = e
         /\ Items(Append(q, e)) = Items(q) \cup {e}
         /\ Distinct(q) /\ e \notin Items(q) => Distinct(Append(q, e))
<1> DEFINE r == Append(q, e)
<1>1. /\ r \in Seq(S) /\ Len(r) = Len(q) + 1 /\ r[Len(q) + 1] = e
      /\ \A i \in 1 .. Len(q) : r[i] = q[i]
  BY AppendProperties
<1>2. /\ DOMAIN r = 1 .. Len(r) /\ DOMAIN q = 1 .. Len(q) /\ Len(q) \in Nat
  BY <1>1, LenProperties
<1> HIDE DEF r
<1>3. Items(r) = Items(q) \cup {e}
  <2>1. \A i \in DOMAIN r : i \in DOMAIN q \/ i = Len(q) + 1
    BY <1>1, <1>2
  <2>2. Items(r) \subseteq Items(q) \cup {e}
    BY <1>1, <1>2, <2>1 DEF Items
  <2>3. \A i \in DOMAIN q : i \in DOMAIN r /\ r[i] = q[i]
    BY <1>1, <1>2
  <2>4. Len(q) + 1 \in DOMAIN r
    BY <1>1, <1>2
  <2>5. QED
    BY <1>1, <2>2, <2>3, <2>4 DEF Items
<1>4. ASSUME Distinct(q), e \notin Items(q), NEW i \in DOMAIN r, NEW j \in DOMAIN r, i # j
      PROVE  r[i] # r[j]
  <2>1. \A k \in DOMAIN q : q[k] # e
    BY <1>4 DEF Items
  <2>2. QED
    BY <1>1, <1>2, <1>4, <2>1 DEF Distinct
<1>5. QED
  BY <1>1, <1>2, <1>3, <1>4 DEF Distinct, r

\* What is taken from the head leaves the items.
LEMMA TailLemma ==
  ASSUME NEW S, NEW q \in Seq(S), q # <<>>
  PROVE  /\ Head(q) \in S /\ Head(q) = q[1]
         /\ Tail(q) \in Seq(S)
         /\ Len(Tail(q)) = Len(q) - 1 /\ Len(q) > 0
         /\ DOMAIN Tail(q) = 1 .. Len(q) - 1
         /\ \A i \in 1 .. Len(q) - 1 : Tail(q)[i] = q[i + 1]
         /\ Items(q) = {Head(q)} \cup Items(Tail(q))
         /\ Distinct(q) => Distinct(Tail(q)) /\ Head(q) \notin Items(Tail(q))
<1> DEFINE r == Tail(q)
<1>1. Len(q) \in Nat \ {0} /\ DOMAIN q = 1 .. Len(q)
  BY EmptySeq, LenProperties
<1>2. /\ Head(q) \in S /\ r \in Seq(S) /\ Len(r) = Len(q) - 1
      /\ \A i \in 1 .. Len(r) : r[i] = q[i + 1]
  BY HeadTailProperties
<1>3. Head(q) = q[1]
  BY <1>1
<1>4. DOMAIN r = 1 .. Len(r)
  BY <1>2, LenProperties
<1> HIDE DEF r
<1>5. Items(q) = {Head(q)} \cup Items(r)
  <2>1. ASSUME NEW i \in DOMAIN q PROVE q[i] \in {q[1]} \cup Items(r)
    <3>1. CASE i = 1
      BY <3>1
    <3>2. CASE i # 1
      <4>1. i - 1 \in DOMAIN r /\ r[i - 1] = q[i]
        BY <3>2, <1>1, <1>2, <1>4
      <4>2. QED
        BY <4>1 DEF Items
    <3>3. QED
      BY <3>1, <3>2
  <2>2. \A i \in DOMAIN r : i + 1 \in DOMAIN q /\ r[i] = q[i + 1]
    BY <1>1, <1>2, <1>4
  <2>3. 1 \in DOMAIN q
    BY <1>1
  <2>4. QED
    BY <1>3, <2>1, <2>2, <2>3 DEF Items
<1>6. ASSUME Distinct(q) PROVE Distinct(r) /\ Head(q) \notin Items(r)
  <2>1. \A i \in DOMAIN r : i \in Nat /\ i + 1 \in DOMAIN q /\ i + 1 # 1 /\ r[i] = q[i + 1]
    BY <1>1, <1>2, <1>4
  <2>2. Distinct(r)
    BY <2>1, <1>6 DEF Distinct
  <2>3. Head(q) \notin Items(r)
    BY <2>1, <1>1, <1>3, <1>6 DEF Distinct, Items
  <2>4. QED
    BY <2>2, <2>3
<1>7. QED
  BY <1>1, <1>2, <1>3, <1>4, <1>5, <1>6 DEF r

-----------------------------------------------------------------------------
(* Types.                                                                  *)

LEMMA InitLemma == Init => IInv
<1> SUFFICES ASSUME Init PROVE IInv
  OBVIOUS
<1>1. Busy = {} /\ Held = {}
  BY DEF Init, Busy, Held, At, Idle
<1>2. Items(queue) = {}
  BY DEF Init, Items
<1>3. \A s \in Sinks : Items(delivered[s]) = {} /\ failed[s] = {} /\ Got(s) = {} /\ Items(ToWrite(s)) = {}
  BY DEF Init, Items, Got, ToWrite
<1>4. 1 \in Sinks
  BY EmitterAssumption DEF Sinks
<1>5. TypeOK
  BY <1>4, EmitterAssumption DEF Init, TypeOK, Idle, Item
<1>6. Control
  BY <1>2 DEF Init, Control, Idle, At
<1>7. Unique
  BY <1>1, <1>2, <1>3 DEF Init, Unique, Every
<1>8. Apart
  BY <1>1, <1>2, <1>3 DEF Init, Apart, Disjoint, Distinct
<1>9. Order
  BY <1>1, <1>2 DEF Init, Order
<1>10. Overflow
  <2>1. ~Freeing
    BY DEF Init, Freeing, At, Idle
  <2>2. Cardinality({}) = 0 /\ IsFiniteSet({})
    BY FS_EmptySet
  <2>3. Len(queue) = 0 /\ dropped = {} /\ dropCount = 0 /\ refused = {}
    BY DEF Init
  <2>4. \A p \in Producers : ~At(p, "again")
    BY DEF Init, At, Idle
  <2>5. QED
    BY <2>1, <2>2, <2>3, <2>4, EmitterAssumption DEF Overflow
<1>11. Flush
  BY DEF Init, Flush
<1>12. FanOut
  BY <1>3 DEF Init, FanOut, Sinks
<1>13. QED
  BY <1>5, <1>6, <1>7, <1>8, <1>9, <1>10, <1>11, <1>12 DEF IInv

\* A step of a thread in _enqueue moves that thread alone.
LEMMA TypeLemma == TypeOK /\ Control /\ [Next]_vars => TypeOK'
<1> SUFFICES ASSUME TypeOK, Control, [Next]_vars PROVE TypeOK'
  OBVIOUS
<1> USE DEF Item
<1>1. Sentinel \notin Event /\ QueueMax \in Nat /\ NEvents \in Nat /\ 1 \in Sinks /\ NSinks \in Nat
  BY EmitterAssumption DEF Sinks
<1>2. ASSUME NEW p \in Producers, Number(p) PROVE TypeOK'
  <2>1. seq \in 0 .. NEvents - 1 /\ seq + 1 \in 0 .. NEvents
    BY <1>1, <1>2 DEF Number, TypeOK
  <2>2. [src |-> p, seq |-> seq] \in Event
    BY <2>1 DEF Event
  <2>3. producer' \in [Producers -> [pc : {"idle", "put", "get", "again"}, event : Item]]
    BY <2>2, <1>2 DEF Number, TypeOK
  <2>4. QED
    BY <2>1, <2>3, <1>2 DEF Number, TypeOK, ends
<1>3. ASSUME NEW p \in Producers, ~At(p, "idle")
      PROVE  producer[p].event \in Event /\ producer[p].event \in Item
  BY <1>3 DEF Control
<1>4. ASSUME NEW p \in Producers, ~At(p, "idle"), queue' = Append(queue, producer[p].event)
      PROVE  queue' \in Seq(Item)
  BY <1>3, <1>4, AppendProperties DEF TypeOK
<1>5. ASSUME NEW p \in Producers, Finish(p)
      PROVE  producer' \in [Producers -> [pc : {"idle", "put", "get", "again"}, event : Item]]
  BY <1>5 DEF Finish, Idle, TypeOK
<1>6. ASSUME queue # <<>> PROVE Head(queue) \in Item /\ Tail(queue) \in Seq(Item)
  BY <1>6, HeadTailProperties DEF TypeOK
<1>7. ASSUME NEW p \in Producers, Put(p) PROVE TypeOK'
  <2>1. queue' \in Seq(Item)
    BY <1>4, <1>7 DEF Put, At
  <2>2. producer' \in [Producers -> [pc : {"idle", "put", "get", "again"}, event : Item]]
    BY <1>5, <1>7 DEF Put
  <2>3. QED
    BY <2>1, <2>2, <1>7 DEF Put, TypeOK, ends
<1>8. ASSUME NEW p \in Producers, PutFindsFull(p) PROVE TypeOK'
  <2>1. producer' \in [Producers -> [pc : {"idle", "put", "get", "again"}, event : Item]]
    <3>1. producer' = [producer EXCEPT ![p].pc = "get"]
      BY <1>8 DEF PutFindsFull
    <3>2. producer \in [Producers -> [pc : {"idle", "put", "get", "again"}, event : Item]]
      BY DEF TypeOK
    <3>3. QED
      BY <3>1, <3>2
  <2>2. dropCount' \in Nat
    BY <1>8 DEF PutFindsFull, TypeOK
  <2>3. UNCHANGED <<queue, seq, drain, stopper, running, sink, delivered, failed, dropped,
                    refused, owed>>
    BY <1>8 DEF PutFindsFull, ends
  <2>4. QED
    BY <2>1, <2>2, <2>3 DEF TypeOK
<1>9. ASSUME NEW p \in Producers, DropOldest(p) PROVE TypeOK'
  <2>1. producer' \in [Producers -> [pc : {"idle", "put", "get", "again"}, event : Item]]
    <3>1. producer' = [producer EXCEPT ![p].pc = "again"]
      BY <1>9 DEF DropOldest
    <3>2. producer \in [Producers -> [pc : {"idle", "put", "get", "again"}, event : Item]]
      BY DEF TypeOK
    <3>3. QED
      BY <3>1, <3>2
  <2>2. queue' \in Seq(Item) /\ dropped' \subseteq Item
    <3>1. /\ queue = <<>> => queue' = queue /\ dropped' = dropped
          /\ queue # <<>> => queue' = Tail(queue) /\ dropped' = dropped \cup {Head(queue)}
      BY <1>9 DEF DropOldest
    <3>2. queue \in Seq(Item) /\ dropped \subseteq Item
      BY DEF TypeOK
    <3>3. QED
      BY <1>6, <3>1, <3>2
  <2>3. QED
    BY <2>1, <2>2, <1>9 DEF DropOldest, TypeOK
<1>10. ASSUME NEW p \in Producers, PutAgain(p) PROVE TypeOK'
  <2>1. queue' \in Seq(Item) /\ refused' \subseteq Event
    <3>1. producer[p].event \in Event /\ ~At(p, "idle")
      BY <1>3, <1>10 DEF PutAgain, At
    <3>2. QED
      BY <3>1, <1>4, <1>10 DEF PutAgain, TypeOK
  <2>2. producer' \in [Producers -> [pc : {"idle", "put", "get", "again"}, event : Item]]
    BY <1>5, <1>10 DEF PutAgain
  <2>3. QED
    BY <2>1, <2>2, <1>10 DEF PutAgain, TypeOK
<1>11. CASE Take
  BY <1>1, <1>6, <1>11 DEF Take, TypeOK, ends
<1>12. CASE BeginWrite
  BY <1>12 DEF BeginWrite, TypeOK, ends
<1>13. ASSUME drain.pc \in {"deliver", "write"} PROVE drain.item \in Event
  BY <1>13 DEF Control, TypeOK
<1>14. CASE SinkIsGone
  BY <1>1, <1>13, <1>14 DEF SinkIsGone, TypeOK
<1>15. ASSUME NextSink
       PROVE  drain' \in [pc : {"get", "deliver", "write", "done", "dead"}, item : Item, at : Sinks]
  <2>1. drain.at \in Nat /\ drain.at >= 1
    BY <1>1 DEF TypeOK, Sinks
  <2>2. CASE drain.at < NSinks
    <3>1. drain.at + 1 \in Sinks
      BY <1>1, <2>1, <2>2 DEF Sinks
    <3>2. QED
      BY <2>2, <3>1, <1>15, ZenonT(40) DEF NextSink, TypeOK
  <2>3. CASE ~(drain.at < NSinks)
    BY <2>3, <1>1, <1>15 DEF NextSink, NextItem
  <2>4. QED
    BY <2>2, <2>3
<1>16. CASE WriteSucceeds
  <2>1. drain.at \in Sinks /\ delivered[drain.at] \in Seq(Event) /\ drain.item \in Event
    BY <1>13, <1>16 DEF WriteSucceeds, TypeOK
  <2>2. Append(delivered[drain.at], drain.item) \in Seq(Event)
    BY <2>1, AppendProperties
  <2>3. delivered' \in [Sinks -> Seq(Event)]
    BY <2>1, <2>2, <1>16 DEF WriteSucceeds, TypeOK
  <2>4. QED
    BY <2>3, <1>15, <1>16 DEF WriteSucceeds, TypeOK
<1>17. CASE WriteFails
  <2>1. failed' \in [Sinks -> SUBSET Event]
    BY <1>13, <1>17 DEF WriteFails, TypeOK
  <2>2. QED
    BY <2>1, <1>15, <1>17 DEF WriteFails, TypeOK
<1>18. CASE CallStop
  BY <1>18 DEF CallStop, TypeOK, ends
<1>19. CASE PutSentinel
  <2>1. queue' \in Seq(Item)
    BY <1>19, AppendProperties DEF PutSentinel, TypeOK
  <2>2. owed' \subseteq Event
    <3>1. Sentinel \notin Items(queue) /\ Items(queue) \subseteq Item
      BY <1>19, ItemsType DEF PutSentinel, Control, TypeOK
    <3>2. QED
      BY <3>1, <1>19 DEF PutSentinel, TypeOK
  <2>3. QED
    BY <2>1, <2>2, <1>19 DEF PutSentinel, TypeOK, ends
<1>20. CASE PutSentinelTimesOut
  BY <1>20 DEF PutSentinelTimesOut, TypeOK, ends
<1>21. CASE Join
  BY <1>21 DEF Join, TypeOK, ends
<1>22. CASE JoinTimesOut
  BY <1>22 DEF JoinTimesOut, TypeOK, ends
<1>23. CASE CloseSink \/ DropSink
  BY <1>23 DEF CloseSink, DropSink, TypeOK, ends
<1>24. CASE UNCHANGED vars
  BY <1>24 DEF vars, TypeOK, ends
<1>25. QED
  BY <1>2, <1>7, <1>8, <1>9, <1>10, <1>11, <1>12, <1>14, <1>16, <1>17, <1>18, <1>19, <1>20,
     <1>21, <1>22, <1>23, <1>24 DEF Next, Enqueue, Drain, Stop

-----------------------------------------------------------------------------
(* What the steps of a thread in _enqueue do to the events in hand.        *)

LEMMA NumberLemma ==
  ASSUME TypeOK, Control, NEW p \in Producers, Number(p)
  PROVE  /\ [src |-> p, seq |-> seq] \in Event
         /\ producer' = [producer EXCEPT ![p] = [pc |-> "put", event |-> [src |-> p, seq |-> seq]]]
         /\ Held' = Held \cup {[src |-> p, seq |-> seq]}
<1>1. [src |-> p, seq |-> seq] \in Event
  BY EmitterAssumption DEF Number, TypeOK, Event
<1>2. producer' = [producer EXCEPT ![p] = [pc |-> "put", event |-> [src |-> p, seq |-> seq]]]
  BY DEF Number
<1>3. /\ \A q \in Producers : q # p => producer'[q] = producer[q]
      /\ producer'[p] = [pc |-> "put", event |-> [src |-> p, seq |-> seq]]
  BY <1>2 DEF TypeOK
<1>4. p \notin Busy /\ Busy' = Busy \cup {p}
  BY <1>3 DEF Number, Busy, At
<1> DEFINE e == [src |-> p, seq |-> seq]
<1>5. producer'[p].event = e /\ \A q \in Busy : producer'[q].event = producer[q].event
  BY <1>3, <1>4 DEF Busy
<1> HIDE DEF e
<1>6. Held' = Held \cup {e}
  BY <1>4, <1>5 DEF Held
<1>7. QED
  BY <1>1, <1>2, <1>6 DEF e

LEMMA FinishLemma ==
  ASSUME TypeOK, Control, NEW p \in Producers, ~At(p, "idle"), Finish(p)
  PROVE  /\ \A q \in Producers : q # p => producer'[q] = producer[q]
         /\ producer'[p] = Idle
         /\ producer[p].event \in Event /\ producer[p].event \in Held
         /\ Held' = Held \ {producer[p].event}
<1>1. /\ \A q \in Producers : q # p => producer'[q] = producer[q]
      /\ producer'[p] = Idle
  BY DEF TypeOK, Finish
<1>2. producer[p].event \in Event /\ producer[p].event.src = p
  BY DEF Control
<1>3. Busy' = Busy \ {p} /\ p \in Busy
  BY <1>1 DEF Busy, At, Idle
<1>4. \A q \in Busy : q # p => producer[q].event # producer[p].event
  BY <1>2 DEF Control, Busy
<1>5. \A q \in Busy \ {p} : producer'[q].event = producer[q].event
  BY <1>1 DEF Busy
<1> DEFINE e == producer[p].event
<1> HIDE DEF e
<1>6. e \in Held
  BY <1>3 DEF Held, e
<1>7. Held' = {producer[q].event : q \in Busy \ {p}}
  BY <1>3, <1>5 DEF Held
<1>8. Held' = Held \ {e}
  BY <1>3, <1>4, <1>7 DEF Held, e
<1>9. QED
  BY <1>1, <1>2, <1>6, <1>8 DEF e

LEMMA AdvanceLemma ==
  ASSUME TypeOK, NEW p \in Producers, ~At(p, "idle"),
         NEW pc \in {"get", "again"}, producer' = [producer EXCEPT ![p].pc = pc]
  PROVE  /\ \A q \in Producers : q # p => producer'[q] = producer[q]
         /\ producer'[p].pc = pc /\ producer'[p].event = producer[p].event
         /\ Held' = Held
<1>1. /\ \A q \in Producers : q # p => producer'[q] = producer[q]
      /\ producer'[p].pc = pc /\ producer'[p].event = producer[p].event
  BY DEF TypeOK
<1>2. Busy' = Busy
  BY <1>1 DEF Busy, At
<1>3. \A q \in Producers : producer'[q].event = producer[q].event
  BY <1>1
<1>4. QED
  BY <1>1, <1>2, <1>3 DEF Held

LEMMA StillLemma ==
  ASSUME producer' = producer
  PROVE  Held' = Held /\ Busy' = Busy /\ (Freeing' <=> Freeing)
BY DEF Held, Busy, At, Freeing

\* What the fan-out has yet to do.
LEMMA ToWriteLemma ==
  ASSUME TypeOK, Control, NEW s \in Sinks
  PROVE  /\ Items(ToWrite(s)) =
              IF drain.pc = "deliver" \/ (drain.pc = "write" /\ drain.at <= s) THEN {drain.item} ELSE {}
         /\ Items(ToWrite(s)) \subseteq {drain.item} \cap Event
<1>1. Items(<<drain.item>>) = {drain.item} /\ Items(<<>>) = {}
  BY DEF Items
<1>2. drain.pc \in {"deliver", "write"} => drain.item \in Event
  BY DEF TypeOK, Control, Item
<1>3. QED
  BY <1>1, <1>2 DEF ToWrite

-----------------------------------------------------------------------------
(* Where the threads stand.                                                *)

\* What Control says of the threads in _enqueue, and of the other two.
Hands ==
  /\ \A p \in Producers :
       IF At(p, "idle") THEN producer[p].event = Sentinel
       ELSE producer[p].event \in Event /\ producer[p].event.src = p
  /\ \A p, q \in Producers : producer[p].pc \in {"get", "again"} /\ producer[q].pc \in {"get", "again"} => p = q

LEMMA HandsLemma == TypeOK /\ Control /\ [Next]_vars => Hands'
<1> SUFFICES ASSUME TypeOK, Control, [Next]_vars PROVE Hands'
  OBVIOUS
<1>1. ASSUME NEW p \in Producers, Number(p) PROVE Hands'
  <2>1. /\ \A q \in Producers : q # p => producer'[q] = producer[q]
        /\ producer'[p].pc = "put" /\ producer'[p].event = [src |-> p, seq |-> seq]
        /\ [src |-> p, seq |-> seq] \in Event
    BY <1>1, NumberLemma DEF TypeOK
  <2>2. producer'[p].event \in Event /\ producer'[p].event.src = p
    BY <2>1
  <2>3. QED
    BY <2>1, <2>2 DEF Hands, Control, At
<1>2. ASSUME NEW p \in Producers, ~At(p, "idle"), Finish(p) PROVE Hands'
  <2>1. (\A q \in Producers : q # p => producer'[q] = producer[q]) /\ producer'[p] = Idle
    BY <1>2, FinishLemma
  <2>2. QED
    BY <2>1 DEF Hands, Control, At, Idle
<1>3. ASSUME NEW p \in Producers, NEW pc \in {"get", "again"}, ~At(p, "idle"),
             LockFree \/ At(p, "get"),
             producer' = [producer EXCEPT ![p].pc = pc]
      PROVE  Hands'
  <2>1. /\ \A q \in Producers : q # p => producer'[q] = producer[q]
        /\ producer'[p].pc = pc /\ producer'[p].event = producer[p].event
    BY <1>3, AdvanceLemma
  <2>2. \A q \in Producers : q # p => producer[q].pc \notin {"get", "again"}
    BY <1>3 DEF Control, LockFree, At
  <2>3. QED
    BY <1>3, <2>1, <2>2 DEF Hands, Control, At
<1>4. ASSUME UNCHANGED producer PROVE Hands'
  BY <1>4 DEF Hands, Control, At
<1>5. ASSUME NEW p \in Producers, Put(p) PROVE Hands'
  BY <1>2, <1>5 DEF Put, At
<1>6. ASSUME NEW p \in Producers, PutFindsFull(p) PROVE Hands'
  BY <1>3, <1>6 DEF PutFindsFull, At
<1>7. ASSUME NEW p \in Producers, DropOldest(p) PROVE Hands'
  BY <1>3, <1>7 DEF DropOldest, At
<1>8. ASSUME NEW p \in Producers, PutAgain(p) PROVE Hands'
  BY <1>2, <1>8 DEF PutAgain, At
<1>9. CASE Drain
  BY <1>4, <1>9 DEF Drain, Take, BeginWrite, SinkIsGone, WriteSucceeds, WriteFails
<1>10. CASE Stop
  BY <1>4, <1>10 DEF Stop, CallStop, PutSentinel, PutSentinelTimesOut, Join, JoinTimesOut, CloseSink, DropSink
<1>11. CASE UNCHANGED vars
  BY <1>4, <1>11 DEF vars
<1>12. QED
  BY <1>1, <1>5, <1>6, <1>7, <1>8, <1>9, <1>10, <1>11 DEF Next, Enqueue

LEMMA ControlLemma == TypeOK /\ Control /\ Distinct(queue) /\ [Next]_vars => Control'
<1> SUFFICES ASSUME TypeOK, Control, Distinct(queue), [Next]_vars PROVE Control'
  OBVIOUS
<1>1. Hands'
  BY HandsLemma
<1> USE <1>1 DEF Hands
<1>2. queue \in Seq(Item) /\ Sentinel \in Item /\ Event \subseteq Item /\ Sentinel \notin Event
  BY EmitterAssumption DEF TypeOK, Item
<1>3. ASSUME UNCHANGED <<drain, stopper, sink>>,
             Sentinel \in Items(queue') => Sentinel \in Items(queue),
             Sentinel \in dropped' => Sentinel \in Items(queue) \cup dropped
      PROVE  Control'
  BY <1>3 DEF Control
<1>4. ASSUME NEW p \in Producers, ~At(p, "idle"), queue' = Append(queue, producer[p].event)
      PROVE  Sentinel \in Items(queue') => Sentinel \in Items(queue)
  <2>1. producer[p].event \in Event
    BY <1>4 DEF Control
  <2>2. Items(queue') = Items(queue) \cup {producer[p].event}
    BY <1>2, <1>4, <2>1, AppendLemma
  <2>3. QED
    BY <1>2, <2>1, <2>2
<1>5. ASSUME NEW p \in Producers, Number(p) PROVE Control'
  BY <1>3, <1>5 DEF Number, ends
<1>6. ASSUME NEW p \in Producers, Put(p) PROVE Control'
  BY <1>3, <1>4, <1>6 DEF Put, At, ends
<1>7. ASSUME NEW p \in Producers, PutFindsFull(p) PROVE Control'
  BY <1>3, <1>7 DEF PutFindsFull, ends
<1>8. ASSUME queue # <<>>, queue' = Tail(queue)
      PROVE  /\ Items(queue) = {Head(queue)} \cup Items(queue')
             /\ Head(queue) \notin Items(queue')
             /\ Head(queue) \in Item
  BY <1>2, <1>8, TailLemma
<1>9. ASSUME NEW p \in Producers, DropOldest(p) PROVE Control'
  BY <1>3, <1>8, <1>9 DEF DropOldest
<1>10. ASSUME NEW p \in Producers, PutAgain(p) PROVE Control'
  BY <1>3, <1>4, <1>10 DEF PutAgain, At
<1>11. CASE Take
  <2>1. /\ Items(queue) = {Head(queue)} \cup Items(queue')
        /\ Head(queue) \notin Items(queue') /\ Head(queue) \in Item
    BY <1>8, <1>11 DEF Take
  <2>2. UNCHANGED <<stopper, sink, dropped>> /\ drain.pc = "get"
    BY <1>11 DEF Take, ends
  <2>3. CASE Head(queue) = Sentinel
    <3>1. drain'.pc = "done" /\ drain'.item = drain.item /\ drain'.at = drain.at
      BY <2>3, <1>11 DEF Take, TypeOK
    <3>2. QED
      BY <2>1, <2>2, <2>3, <3>1 DEF Control
  <2>4. CASE Head(queue) # Sentinel
    <3>1. drain' = [pc |-> "deliver", item |-> Head(queue), at |-> 1]
      BY <2>4, <1>11 DEF Take
    <3>2. QED
      BY <2>1, <2>2, <2>4, <3>1 DEF Control
  <2>5. QED
    BY <2>3, <2>4
<1>12. CASE BeginWrite
  <2>1. /\ drain'.pc = "write" /\ drain'.item = drain.item /\ drain'.at = drain.at
        /\ UNCHANGED <<stopper, sink, queue, dropped>> /\ drain.pc = "deliver"
    BY <1>12 DEF BeginWrite, TypeOK, ends
  <2>2. QED
    BY <2>1 DEF Control
<1>13. CASE SinkIsGone
  BY <1>13 DEF SinkIsGone, Control
<1>14. ASSUME NextSink, drain.pc = "write", UNCHANGED <<queue, stopper, sink, dropped>> PROVE Control'
  <2>1. CASE drain.at < NSinks
    <3>1. drain'.pc = drain.pc /\ drain'.item = drain.item
      BY <2>1, <1>14 DEF NextSink, TypeOK
    <3>2. QED
      BY <1>14, <3>1 DEF Control
  <2>2. CASE ~(drain.at < NSinks)
    BY <2>2, <1>14 DEF NextSink, NextItem, Control
  <2>3. QED
    BY <2>1, <2>2
<1>15. CASE WriteSucceeds
  BY <1>14, <1>15 DEF WriteSucceeds
<1>16. CASE WriteFails
  BY <1>14, <1>16 DEF WriteFails
<1>17. CASE CallStop
  <2>1. /\ stopper.pc = "idle" /\ stopper'.pc = "put" /\ UNCHANGED <<queue, drain, sink, dropped>>
    BY <1>17 DEF CallStop, TypeOK, ends
  <2>2. QED
    BY <2>1 DEF Control
<1>18. CASE PutSentinel
  <2>1. /\ stopper.pc = "put" /\ stopper'.pc = "join" /\ UNCHANGED <<drain, sink, dropped>>
    BY <1>18 DEF PutSentinel, TypeOK, ends
  <2>2. QED
    BY <2>1 DEF Control
<1>19. CASE PutSentinelTimesOut
  BY <1>19 DEF PutSentinelTimesOut, Control, ends
<1>20. CASE Join
  <2>1. /\ stopper.pc = "join" /\ stopper'.pc = "close" /\ stopper'.late = stopper.late
        /\ drain.pc \in {"done", "dead"} /\ UNCHANGED <<queue, drain, sink, dropped>>
    BY <1>20 DEF Join, DrainIsOver, TypeOK, ends
  <2>2. QED
    BY <2>1 DEF Control
<1>21. CASE JoinTimesOut
  BY <1>21 DEF JoinTimesOut, Control, ends
<1>22. CASE CloseSink \/ DropSink
  <2>1. /\ \/ stopper.pc = "close" /\ stopper'.pc = "drop" /\ sink' = "closed"
           \/ stopper.pc = "drop" /\ stopper'.pc = "done" /\ sink' = "none"
        /\ stopper'.late = stopper.late /\ UNCHANGED <<queue, drain, dropped>>
    BY <1>22 DEF CloseSink, DropSink, TypeOK, ends
  <2>2. QED
    BY <2>1 DEF Control
<1>23. CASE UNCHANGED vars
  BY <1>3, <1>23 DEF vars, ends
<1>24. QED
  BY <1>5, <1>6, <1>7, <1>9, <1>10, <1>11, <1>12, <1>13, <1>15, <1>16, <1>17, <1>18, <1>19,
     <1>20, <1>21, <1>22, <1>23 DEF Next, Enqueue, Drain, Stop

-----------------------------------------------------------------------------
(* Where the items are.                                                    *)

\* The fan-out leaves one sink behind.
LEMMA NextSinkLemma ==
  ASSUME TypeOK, Control, drain.pc = "write", NextSink
  PROVE  /\ drain.at \in Sinks /\ drain.item \in Event
         /\ \A s \in Sinks :
              /\ ToWrite(s)' = IF s = drain.at THEN <<>> ELSE ToWrite(s)
              /\ Items(ToWrite(s)') = IF s = drain.at THEN {} ELSE Items(ToWrite(s))
         /\ ToWrite(drain.at) = <<drain.item>> /\ Items(ToWrite(drain.at)) = {drain.item}
         /\ IF drain.at < NSinks THEN drain'.pc = "write" /\ drain'.item = drain.item /\ drain'.at = drain.at + 1
            ELSE drain' = [pc |-> "get", item |-> Sentinel, at |-> 1]
<1>1. /\ drain.at \in Sinks /\ drain.item \in Event /\ NSinks \in Nat
      /\ \A s \in Sinks : s \in Nat /\ s <= NSinks
  BY EmitterAssumption DEF TypeOK, Control, Item, Sinks
<1>2. IF drain.at < NSinks THEN drain'.pc = "write" /\ drain'.item = drain.item /\ drain'.at = drain.at + 1
      ELSE drain' = [pc |-> "get", item |-> Sentinel, at |-> 1]
  BY DEF NextSink, NextItem, TypeOK
<1>3. Items(<<drain.item>>) = {drain.item} /\ Items(<<>>) = {}
  BY DEF Items
<1>4. ASSUME NEW s \in Sinks
      PROVE  ToWrite(s)' = IF s = drain.at THEN <<>> ELSE ToWrite(s)
  <2>1. CASE drain.at < NSinks
    BY <1>1, <1>2, <2>1 DEF ToWrite
  <2>2. CASE ~(drain.at < NSinks)
    BY <1>1, <1>2, <2>2 DEF ToWrite
  <2>3. QED
    BY <2>1, <2>2
<1>5. ToWrite(drain.at) = <<drain.item>>
  BY <1>1 DEF ToWrite
<1>6. QED
  BY <1>1, <1>2, <1>3, <1>4, <1>5

\* A new number is no other's.
LEMMA FreshLemma ==
  ASSUME Unique, NEW p, NEW x, x = [src |-> p, seq |-> seq], x # Sentinel, seq \in Nat
  PROVE  x \notin Every
BY DEF Unique

LEMMA PlacesLemma ==
  ASSUME TypeOK, Control, NEW s \in Sinks
  PROVE  /\ Held \subseteq Every /\ Items(queue) \subseteq Every /\ dropped \subseteq Every
         /\ refused \subseteq Every /\ Got(s) \subseteq Every /\ Items(ToWrite(s)) \subseteq Every
         /\ Held \subseteq Event /\ Items(queue) \subseteq Item /\ dropped \subseteq Item
         /\ refused \subseteq Event /\ Got(s) \subseteq Event /\ Items(ToWrite(s)) \subseteq Event
<1>1. Items(ToWrite(s)) \subseteq {drain.item} \cap Event
  BY ToWriteLemma
<1>2. Held \subseteq Event
  BY DEF Held, Busy, Control
<1>3. Items(queue) \subseteq Item
  BY ItemsType DEF TypeOK
<1>4. Items(delivered[s]) \subseteq Event
  BY ItemsType DEF TypeOK
<1>5. Got(s) \subseteq Event
  BY <1>4 DEF Got, TypeOK
<1>6. QED
  BY <1>1, <1>2, <1>3, <1>5 DEF Every, TypeOK

Spread(s) ==
  Disjoint(Held, Items(ToWrite(s)), Items(queue), Items(delivered[s]), failed[s], dropped, refused)

LEMMA ApartLemma == TypeOK /\ Control /\ Unique /\ Apart /\ [Next]_vars => Apart'
<1> SUFFICES ASSUME TypeOK, Control, Unique, Apart, [Next]_vars PROVE Apart'
  OBVIOUS
<1>1. queue \in Seq(Item) /\ Sentinel \in Item /\ Event \subseteq Item /\ Sentinel \notin Event
  BY EmitterAssumption DEF TypeOK, Item
<1>2. Distinct(queue) /\ \A s \in Sinks : Spread(s) /\ Distinct(delivered[s])
  BY DEF Apart, Spread
<1>3. SUFFICES Distinct(queue') /\ \A s \in Sinks : Spread(s)' /\ Distinct(delivered'[s])
  BY DEF Apart, Spread
<1> DEFINE Goal == Distinct(queue') /\ \A s \in Sinks : Spread(s)' /\ Distinct(delivered'[s])
<1> DEFINE QueueStep == Distinct(queue') /\ \A s \in Sinks : Spread(s)'
<1>4. ASSUME UNCHANGED delivered, QueueStep PROVE Goal
  BY <1>2, <1>4
<1>5. ASSUME UNCHANGED drain, NEW s \in Sinks PROVE Items(ToWrite(s)') = Items(ToWrite(s))
  BY <1>5 DEF ToWrite
<1>6. ASSUME NEW p \in Producers, Number(p) PROVE Goal
  <2> DEFINE e == [src |-> p, seq |-> seq]
  <2>1. e \in Event /\ Held' = Held \cup {e} /\ e # Sentinel /\ seq \in Nat
    BY <1>1, <1>6, NumberLemma DEF TypeOK
  <2>2. e \notin Every
    BY <2>1, FreshLemma
  <2> HIDE DEF e
  <2>3. UNCHANGED <<queue, drain, delivered, failed, dropped, refused>>
    BY <1>6 DEF Number, ends
  <2>4. ASSUME NEW s \in Sinks PROVE Spread(s)'
    <3>1. /\ e \notin Items(ToWrite(s)) /\ e \notin Items(queue) /\ e \notin dropped
          /\ e \notin refused /\ e \notin Items(delivered[s]) /\ e \notin failed[s]
      BY <2>2, PlacesLemma DEF Got
    <3>2. Items(ToWrite(s)') = Items(ToWrite(s))
      BY <1>5, <2>3
    <3>3. QED
      BY <1>2, <2>1, <2>3, <3>1, <3>2 DEF Spread, Disjoint
  <2>5. QED
    BY <1>2, <1>4, <2>3, <2>4
<1>7. ASSUME NEW p \in Producers, ~At(p, "idle"), Finish(p), queue' = Append(queue, producer[p].event),
             UNCHANGED <<drain, delivered, failed, dropped, refused>>
      PROVE  Goal
  <2> DEFINE e == producer[p].event
  <2>1. e \in Event /\ e \in Held /\ Held' = Held \ {e}
    BY <1>7, FinishLemma
  <2>2. 1 \in Sinks
    BY EmitterAssumption DEF Sinks
  <2>3. e \notin Items(queue)
    BY <1>2, <2>1, <2>2 DEF Spread, Disjoint
  <2>4. Items(queue') = Items(queue) \cup {e} /\ Distinct(queue')
    BY <1>1, <1>2, <1>7, <2>1, <2>3, AppendLemma
  <2> HIDE DEF e
  <2>5. ASSUME NEW s \in Sinks PROVE Spread(s)'
    <3>1. Items(ToWrite(s)') = Items(ToWrite(s))
      BY <1>5, <1>7
    <3>2. QED
      BY <1>2, <1>7, <2>1, <2>4, <3>1 DEF Spread, Disjoint
  <2>6. QED
    BY <1>4, <1>7, <2>4, <2>5
<1>8. ASSUME NEW p \in Producers, Put(p) PROVE Goal
  BY <1>7, <1>8 DEF Put, At, ends
<1>9. ASSUME UNCHANGED <<queue, drain, delivered, failed, dropped, refused>>, Held' = Held
      PROVE  Goal
  <2>1. ASSUME NEW s \in Sinks PROVE Spread(s)'
    <3>1. Items(ToWrite(s)') = Items(ToWrite(s))
      BY <1>5, <1>9
    <3>2. QED
      BY <1>2, <1>9, <3>1 DEF Spread, Disjoint
  <2>2. QED
    BY <1>2, <1>4, <1>9, <2>1
<1>10. ASSUME NEW p \in Producers, PutFindsFull(p) PROVE Goal
  BY <1>9, <1>10, AdvanceLemma DEF PutFindsFull, At, ends
<1>11. ASSUME queue # <<>>
       PROVE  /\ Items(queue) = {Head(queue)} \cup Items(Tail(queue))
              /\ Head(queue) \notin Items(Tail(queue)) /\ Distinct(Tail(queue))
  BY <1>1, <1>2, <1>11, TailLemma
<1>12. ASSUME NEW p \in Producers, DropOldest(p) PROVE Goal
  <2>1. Held' = Held /\ UNCHANGED <<drain, delivered, failed, refused>>
    BY <1>12, AdvanceLemma DEF DropOldest, At
  <2>2. CASE queue = <<>>
    BY <1>9, <1>12, <2>1, <2>2 DEF DropOldest
  <2>3. CASE queue # <<>>
    <3>1. queue' = Tail(queue) /\ dropped' = dropped \cup {Head(queue)}
      BY <1>12, <2>3 DEF DropOldest
    <3>2. ASSUME NEW s \in Sinks PROVE Spread(s)'
      <4>1. Items(ToWrite(s)') = Items(ToWrite(s))
        BY <1>5, <2>1
      <4>2. QED
        BY <1>2, <1>11, <2>1, <2>3, <3>1, <4>1 DEF Spread, Disjoint
    <3>3. QED
      BY <1>4, <1>11, <2>1, <2>3, <3>1, <3>2
  <2>4. QED
    BY <2>2, <2>3
<1>13. ASSUME NEW p \in Producers, PutAgain(p) PROVE Goal
  <2>1. ~At(p, "idle") /\ Finish(p) /\ UNCHANGED <<drain, delivered, failed, dropped>>
    BY <1>13 DEF PutAgain, At
  <2>2. CASE Full
    <3>1. UNCHANGED queue /\ refused' = refused \cup {producer[p].event}
      BY <1>13, <2>2 DEF PutAgain
    <3>2. producer[p].event \in Held /\ Held' = Held \ {producer[p].event}
      BY <2>1, FinishLemma
    <3>3. ASSUME NEW s \in Sinks PROVE Spread(s)'
      <4>1. Items(ToWrite(s)') = Items(ToWrite(s))
        BY <1>5, <2>1
      <4>2. QED
        BY <1>2, <2>1, <3>1, <3>2, <4>1 DEF Spread, Disjoint
    <3>4. QED
      BY <1>2, <1>4, <2>1, <3>1, <3>3
  <2>3. CASE ~Full
    BY <1>7, <1>13, <2>1, <2>3 DEF PutAgain
  <2>4. QED
    BY <2>2, <2>3
<1>14. CASE Take
  <2>1. /\ queue # <<>> /\ queue' = Tail(queue) /\ drain.pc = "get"
        /\ UNCHANGED <<producer, delivered, failed, dropped, refused>>
    BY <1>14 DEF Take, ends
  <2>2. Held' = Held
    BY <2>1, StillLemma
  <2>3. ASSUME NEW s \in Sinks PROVE Spread(s)'
    <3>1. Items(ToWrite(s)) = {}
      BY <2>1, ToWriteLemma
    <3>2. Items(ToWrite(s)') \subseteq {Head(queue)}
      <4>1. CASE Head(queue) = Sentinel
        BY <1>14, <4>1 DEF Take, TypeOK, ToWrite, Items
      <4>2. CASE Head(queue) # Sentinel
        BY <1>14, <4>2 DEF Take, ToWrite, Items
      <4>3. QED
        BY <4>1, <4>2
    <3>3. QED
      BY <1>2, <1>11, <2>1, <2>2, <3>1, <3>2 DEF Spread, Disjoint
  <2>4. QED
    BY <1>4, <1>11, <2>1, <2>3
<1>15. CASE BeginWrite
  <2>1. UNCHANGED <<queue, producer, delivered, failed, dropped, refused>>
    BY <1>15 DEF BeginWrite, ends
  <2>2. Held' = Held
    BY <2>1, StillLemma
  <2>3. ASSUME NEW s \in Sinks PROVE Spread(s)'
    <3>1. /\ drain.pc = "deliver" /\ drain.at = 1 /\ drain'.pc = "write"
          /\ drain'.item = drain.item /\ drain'.at = drain.at
      BY <1>15 DEF BeginWrite, TypeOK, Control
    <3>2. ToWrite(s)' = ToWrite(s)
      BY <3>1 DEF ToWrite, Sinks
    <3>3. QED
      BY <1>2, <2>1, <2>2, <3>2 DEF Spread, Disjoint
  <2>4. QED
    BY <1>2, <1>4, <2>1, <2>3
<1>16. CASE SinkIsGone
  <2>1. /\ drain.pc = "deliver" /\ drain'.pc = "dead"
        /\ UNCHANGED <<queue, producer, delivered, dropped, refused>>
    BY <1>16 DEF SinkIsGone
  <2>2. Held' = Held
    BY <2>1, StillLemma
  <2>3. ASSUME NEW s \in Sinks PROVE Spread(s)'
    <3>1. failed'[s] = failed[s] \cup {drain.item}
      BY <1>16 DEF SinkIsGone
    <3>2. Items(ToWrite(s)) = {drain.item}
      BY <2>1, ToWriteLemma
    <3>3. Items(ToWrite(s)') = {}
      BY <2>1 DEF ToWrite, Items
    <3>4. QED
      BY <1>2, <2>1, <2>2, <3>1, <3>2, <3>3 DEF Spread, Disjoint
  <2>4. QED
    BY <1>2, <1>4, <2>1, <2>3
<1>17. CASE WriteSucceeds
  <2>1. /\ drain.pc = "write" /\ NextSink /\ UNCHANGED <<queue, producer, failed, dropped, refused>>
        /\ delivered' = [delivered EXCEPT ![drain.at] = Append(@, drain.item)]
    BY <1>17 DEF WriteSucceeds
  <2>2. /\ drain.at \in Sinks /\ drain.item \in Event
        /\ \A s \in Sinks : Items(ToWrite(s)') = IF s = drain.at THEN {} ELSE Items(ToWrite(s))
        /\ Items(ToWrite(drain.at)) = {drain.item}
    BY <2>1, NextSinkLemma
  <2>3. Held' = Held
    BY <2>1, StillLemma
  <2>4. ASSUME NEW s \in Sinks, s # drain.at PROVE Spread(s)' /\ Distinct(delivered'[s])
    <3>1. delivered'[s] = delivered[s]
      BY <2>1, <2>4 DEF TypeOK
    <3>2. QED
      BY <1>2, <2>1, <2>2, <2>3, <2>4, <3>1 DEF Spread, Disjoint
  <2>5. ASSUME NEW s \in Sinks, s = drain.at PROVE Spread(s)' /\ Distinct(delivered'[s])
    <3>1. delivered[s] \in Seq(Event) /\ delivered'[s] = Append(delivered[s], drain.item)
      BY <2>1, <2>2, <2>5 DEF TypeOK
    <3>2. drain.item \notin Items(delivered[s])
      BY <1>2, <2>2, <2>5 DEF Spread, Disjoint
    <3>3. /\ Items(delivered'[s]) = Items(delivered[s]) \cup {drain.item}
          /\ Distinct(delivered'[s])
      BY <1>2, <2>2, <3>1, <3>2, AppendLemma
    <3>4. Items(ToWrite(s)) = {drain.item} /\ Items(ToWrite(s)') = {}
      BY <2>2, <2>5
    <3>5. QED
      BY <1>2, <2>1, <2>3, <3>3, <3>4 DEF Spread, Disjoint
  <2>6. QED
    BY <1>2, <2>1, <2>4, <2>5
<1>18. CASE WriteFails
  <2>1. /\ drain.pc = "write" /\ NextSink /\ UNCHANGED <<queue, producer, delivered, dropped, refused>>
        /\ failed' = [failed EXCEPT ![drain.at] = @ \cup {drain.item}]
    BY <1>18 DEF WriteFails
  <2>2. /\ drain.at \in Sinks
        /\ \A s \in Sinks : Items(ToWrite(s)') = IF s = drain.at THEN {} ELSE Items(ToWrite(s))
        /\ Items(ToWrite(drain.at)) = {drain.item}
    BY <2>1, NextSinkLemma
  <2>3. Held' = Held
    BY <2>1, StillLemma
  <2>4. ASSUME NEW s \in Sinks, s # drain.at PROVE Spread(s)'
    <3>1. failed'[s] = failed[s]
      BY <2>1, <2>4 DEF TypeOK
    <3>2. QED
      BY <1>2, <2>1, <2>2, <2>3, <2>4, <3>1 DEF Spread, Disjoint
  <2>5. ASSUME NEW s \in Sinks, s = drain.at PROVE Spread(s)'
    <3>1. failed'[s] = failed[s] \cup {drain.item}
      BY <2>1, <2>2, <2>5 DEF TypeOK
    <3>2. Items(ToWrite(s)) = {drain.item} /\ Items(ToWrite(s)') = {}
      BY <2>2, <2>5
    <3>3. QED
      BY <1>2, <2>1, <2>3, <3>1, <3>2 DEF Spread, Disjoint
  <2>6. QED
    BY <1>2, <1>4, <2>1, <2>4, <2>5
<1>19. CASE PutSentinel
  <2>1. /\ stopper.pc = "put" /\ queue' = Append(queue, Sentinel)
        /\ UNCHANGED <<producer, drain, delivered, failed, dropped, refused>>
    BY <1>19 DEF PutSentinel, ends
  <2>2. Held' = Held /\ Sentinel \notin Items(queue) /\ Sentinel \notin dropped
    BY <2>1, StillLemma DEF Control
  <2>3. Items(queue') = Items(queue) \cup {Sentinel} /\ Distinct(queue')
    BY <1>1, <1>2, <2>1, <2>2, AppendLemma
  <2>4. ASSUME NEW s \in Sinks PROVE Spread(s)'
    <3>1. Items(ToWrite(s)') = Items(ToWrite(s))
      BY <1>5, <2>1
    <3>2. /\ Sentinel \notin Held /\ Sentinel \notin Items(ToWrite(s)) /\ Sentinel \notin refused
          /\ Sentinel \notin Items(delivered[s]) /\ Sentinel \notin failed[s]
      BY <1>1, PlacesLemma DEF Got
    <3>3. QED
      BY <1>2, <2>1, <2>2, <2>3, <3>1, <3>2 DEF Spread, Disjoint
  <2>5. QED
    BY <1>4, <2>1, <2>3, <2>4
<1>20. ASSUME UNCHANGED <<queue, producer, drain, delivered, failed, dropped, refused>> PROVE Goal
  BY <1>9, <1>20, StillLemma
<1>21. CASE CallStop \/ PutSentinelTimesOut \/ Join \/ JoinTimesOut \/ CloseSink \/ DropSink
  BY <1>20, <1>21 DEF CallStop, PutSentinelTimesOut, Join, JoinTimesOut, CloseSink, DropSink, ends
<1>22. CASE UNCHANGED vars
  BY <1>20, <1>22 DEF vars, ends
<1>23. QED
  BY <1>6, <1>8, <1>10, <1>12, <1>13, <1>14, <1>15, <1>16, <1>17, <1>18, <1>19, <1>21, <1>22
  DEF Next, Enqueue, Drain, Stop

-----------------------------------------------------------------------------
(* The numbers of the events.                                              *)

LEMMA EveryLemma ==
  ASSUME NEW X, Held' \subseteq X, drain'.item \in X, Items(queue') \subseteq X,
         dropped' \subseteq X, refused' \subseteq X,
         \A s \in Sinks : Items(delivered'[s]) \subseteq X /\ failed'[s] \subseteq X
  PROVE  Every' \subseteq X
BY DEF Every, Got

LEMMA UniqueLemma == TypeOK /\ Control /\ Unique /\ [Next]_vars => Unique'
<1> SUFFICES ASSUME TypeOK, Control, Unique, [Next]_vars PROVE Unique'
  OBVIOUS
<1>1. queue \in Seq(Item) /\ Sentinel \in Item /\ Event \subseteq Item /\ Sentinel \notin Event
  BY EmitterAssumption DEF TypeOK, Item
<1> DEFINE X == Every \cup {Sentinel}
<1>2. /\ Held \subseteq X /\ drain.item \in X /\ Items(queue) \subseteq X /\ dropped \subseteq X
      /\ refused \subseteq X /\ \A s \in Sinks : Items(delivered[s]) \subseteq X /\ failed[s] \subseteq X
  BY DEF Every, Got
<1>3. Sentinel \in X
  OBVIOUS
<1>4. ASSUME UNCHANGED seq, Every' \subseteq X PROVE Unique'
  BY <1>4 DEF Unique
<1> HIDE DEF X
<1>5. ASSUME UNCHANGED <<seq, drain, delivered, failed>>, Held' \subseteq X,
             Items(queue') \subseteq X, dropped' \subseteq X, refused' \subseteq X
      PROVE  Unique'
  BY <1>2, <1>4, <1>5, EveryLemma
<1>6. ASSUME NEW p \in Producers, Number(p) PROVE Unique'
  <2> DEFINE e == [src |-> p, seq |-> seq]
  <2>1. e \in Event /\ Held' = Held \cup {e}
    BY <1>6, NumberLemma
  <2>2. seq' = seq + 1 /\ seq \in Nat /\ UNCHANGED <<queue, drain, delivered, failed, dropped, refused>>
    BY <1>6 DEF Number, ends, TypeOK
  <2>3. Every' \subseteq Every \cup {e}
    BY <2>1, <2>2 DEF Every, Got
  <2>4. e.seq = seq
    OBVIOUS
  <2>5. \A f \in Every \ {Sentinel} : f \in Event
    <3>1. \A s \in Sinks : Got(s) \subseteq Event
      BY PlacesLemma
    <3>2. 1 \in Sinks
      BY EmitterAssumption DEF Sinks
    <3>3. Held \subseteq Event /\ Items(queue) \subseteq Item /\ dropped \subseteq Item /\ refused \subseteq Event
      BY <3>2, PlacesLemma
    <3>4. QED
      BY <3>1, <3>3 DEF Every, TypeOK, Item
  <2>6. \A f \in Every \ {Sentinel} : f.seq < seq /\ f.seq \in Nat
    BY <2>5 DEF Unique, Event
  <2> HIDE DEF e
  <2>7. \A f \in Every' \ {Sentinel} : f.seq < seq'
    BY <2>2, <2>3, <2>4, <2>6
  <2>8. \A f, g \in Every' \ {Sentinel} : f.seq = g.seq => f = g
    <3> TAKE f, g \in Every' \ {Sentinel}
    <3>1. CASE f # e /\ g # e
      BY <2>3, <3>1 DEF Unique
    <3>2. CASE f = e /\ g # e
      BY <2>2, <2>3, <2>4, <2>6, <3>2
    <3>3. CASE f # e /\ g = e
      BY <2>2, <2>3, <2>4, <2>6, <3>3
    <3>4. QED
      BY <3>1, <3>2, <3>3
  <2>9. QED
    BY <2>7, <2>8 DEF Unique
<1>7. ASSUME NEW p \in Producers, ~At(p, "idle"), queue' = Append(queue, producer[p].event)
      PROVE  Items(queue') \subseteq X
  <2>1. producer[p].event \in Item /\ producer[p].event \in Held
    BY <1>1, <1>7 DEF Control, Held, Busy
  <2>2. QED
    BY <1>1, <1>2, <1>7, <2>1, AppendLemma
<1>8. ASSUME NEW p \in Producers, ~At(p, "idle"), Finish(p) PROVE Held' \subseteq X
  BY <1>2, <1>8, FinishLemma
<1>9. ASSUME queue # <<>>
      PROVE  Items(Tail(queue)) \subseteq X /\ Head(queue) \in X
  <2>1. Items(queue) = {Head(queue)} \cup Items(Tail(queue))
    BY <1>1, <1>9, TailLemma
  <2>2. QED
    BY <1>2, <2>1
<1>10. ASSUME NEW p \in Producers, Put(p) PROVE Unique'
  BY <1>2, <1>5, <1>7, <1>8, <1>10 DEF Put, At, ends
<1>11. ASSUME NEW p \in Producers, PutFindsFull(p) PROVE Unique'
  BY <1>2, <1>5, <1>11, AdvanceLemma DEF PutFindsFull, At, ends
<1>12. ASSUME NEW p \in Producers, DropOldest(p) PROVE Unique'
  <2>1. Held' = Held /\ UNCHANGED <<seq, drain, delivered, failed, refused>>
    BY <1>12, AdvanceLemma DEF DropOldest, At
  <2>2. Items(queue') \subseteq X /\ dropped' \subseteq X
    BY <1>2, <1>9, <1>12 DEF DropOldest
  <2>3. QED
    BY <1>2, <1>5, <2>1, <2>2
<1>13. ASSUME NEW p \in Producers, PutAgain(p) PROVE Unique'
  <2>1. ~At(p, "idle") /\ Finish(p) /\ UNCHANGED <<seq, drain, delivered, failed, dropped>>
    BY <1>13 DEF PutAgain, At
  <2>2. producer[p].event \in Held
    BY <2>1, FinishLemma
  <2>3. Items(queue') \subseteq X /\ refused' \subseteq X
    BY <1>2, <1>7, <1>13, <2>1, <2>2 DEF PutAgain
  <2>4. QED
    BY <1>2, <1>5, <1>8, <2>1, <2>3
<1>14. ASSUME UNCHANGED <<seq, producer, dropped, refused>>, drain'.item \in X, Items(queue') \subseteq X,
              \A s \in Sinks : Items(delivered'[s]) \subseteq X /\ failed'[s] \subseteq X
       PROVE  Unique'
  BY <1>2, <1>4, <1>14, EveryLemma, StillLemma
<1>15. CASE Take
  <2>1. queue # <<>> /\ queue' = Tail(queue) /\ UNCHANGED <<seq, producer, delivered, failed, dropped, refused>>
    BY <1>15 DEF Take, ends
  <2>2. drain'.item \in X
    <3>1. CASE Head(queue) = Sentinel
      BY <1>2, <1>15, <3>1 DEF Take, TypeOK
    <3>2. CASE Head(queue) # Sentinel
      BY <1>9, <1>15, <2>1, <3>2 DEF Take
    <3>3. QED
      BY <3>1, <3>2
  <2>3. QED
    BY <1>2, <1>9, <1>14, <2>1, <2>2
<1>16. CASE BeginWrite
  <2>1. drain'.item = drain.item /\ UNCHANGED <<seq, producer, queue, delivered, failed, dropped, refused>>
    BY <1>16 DEF BeginWrite, TypeOK, ends
  <2>2. QED
    BY <1>2, <1>14, <2>1
<1>17. CASE SinkIsGone
  <2>1. drain'.item = Sentinel /\ UNCHANGED <<seq, producer, queue, delivered, dropped, refused>>
    BY <1>17 DEF SinkIsGone
  <2>2. \A s \in Sinks : failed'[s] = failed[s] \cup {drain.item}
    BY <1>17 DEF SinkIsGone
  <2>3. QED
    BY <1>2, <1>3, <1>14, <2>1, <2>2
<1>18. ASSUME drain.pc = "write", NextSink PROVE drain'.item \in X /\ drain.at \in Sinks /\ drain.item \in Event
  BY <1>2, <1>3, <1>18, NextSinkLemma
<1>19. CASE WriteSucceeds
  <2>1. /\ drain.pc = "write" /\ NextSink /\ UNCHANGED <<seq, producer, queue, failed, dropped, refused>>
        /\ delivered' = [delivered EXCEPT ![drain.at] = Append(@, drain.item)]
    BY <1>19 DEF WriteSucceeds
  <2>2. ASSUME NEW s \in Sinks PROVE Items(delivered'[s]) \subseteq X
    <3>1. CASE s # drain.at
      BY <1>2, <2>1, <3>1 DEF TypeOK
    <3>2. CASE s = drain.at
      <4>1. delivered[s] \in Seq(Event) /\ delivered'[s] = Append(delivered[s], drain.item)
        BY <2>1, <3>2 DEF TypeOK
      <4>2. QED
        BY <1>2, <1>18, <2>1, <4>1, AppendLemma
    <3>3. QED
      BY <3>1, <3>2
  <2>3. QED
    BY <1>2, <1>14, <1>18, <2>1, <2>2
<1>20. CASE WriteFails
  <2>1. /\ drain.pc = "write" /\ NextSink /\ UNCHANGED <<seq, producer, queue, delivered, dropped, refused>>
        /\ failed' = [failed EXCEPT ![drain.at] = @ \cup {drain.item}]
    BY <1>20 DEF WriteFails
  <2>2. \A s \in Sinks : failed'[s] \subseteq X
    BY <1>2, <2>1 DEF TypeOK
  <2>3. QED
    BY <1>2, <1>14, <1>18, <2>1, <2>2
<1>21. CASE PutSentinel
  <2>1. queue' = Append(queue, Sentinel) /\ UNCHANGED <<seq, producer, drain, delivered, failed, dropped, refused>>
    BY <1>21 DEF PutSentinel, ends
  <2>2. Items(queue') \subseteq X
    BY <1>1, <1>2, <1>3, <2>1, AppendLemma
  <2>3. QED
    BY <1>2, <1>14, <2>1, <2>2
<1>22. ASSUME UNCHANGED <<seq, producer, queue, drain, delivered, failed, dropped, refused>> PROVE Unique'
  BY <1>2, <1>14, <1>22
<1>23. CASE CallStop \/ PutSentinelTimesOut \/ Join \/ JoinTimesOut \/ CloseSink \/ DropSink
  BY <1>22, <1>23 DEF CallStop, PutSentinelTimesOut, Join, JoinTimesOut, CloseSink, DropSink, ends
<1>24. CASE UNCHANGED vars
  BY <1>22, <1>24 DEF vars, ends
<1>25. QED
  BY <1>6, <1>10, <1>11, <1>12, <1>13, <1>15, <1>16, <1>17, <1>19, <1>20, <1>21, <1>23, <1>24
  DEF Next, Enqueue, Drain, Stop

-----------------------------------------------------------------------------
(* Order.                                                                  *)

LEMMA OrderLemma == TypeOK /\ Control /\ Unique /\ Order /\ [Next]_vars => Order'
<1> SUFFICES ASSUME TypeOK, Control, Unique, Order, [Next]_vars PROVE Order'
  OBVIOUS
<1>1. /\ queue \in Seq(Item) /\ Sentinel \in Item /\ Event \subseteq Item /\ Sentinel \notin Event
      /\ DOMAIN queue = 1 .. Len(queue) /\ Len(queue) \in Nat
  BY EmitterAssumption, ItemsType DEF TypeOK, Item
<1> DEFINE Sorted == \A i, j \in DOMAIN queue :
              i < j /\ queue[i] # Sentinel /\ queue[j] # Sentinel => Older(queue[i], queue[j])
<1>2. /\ Sorted
      /\ \A e \in dropped \ {Sentinel}, f \in Items(queue) \ {Sentinel} : Older(e, f)
      /\ \A f \in Held, e \in (Items(queue) \cup dropped) \ {Sentinel} : Older(e, f)
  BY DEF Order
<1>3. ASSUME UNCHANGED queue, dropped' = dropped, Held' \subseteq Held PROVE Order'
  BY <1>2, <1>3 DEF Order
<1>4. ASSUME NEW p \in Producers, Number(p) PROVE Order'
  <2> DEFINE x == [src |-> p, seq |-> seq]
  <2>1. Held' = Held \cup {x} /\ UNCHANGED <<queue, dropped>>
    BY <1>4, NumberLemma DEF Number, ends
  <2>2. 1 \in Sinks
    BY EmitterAssumption DEF Sinks
  <2>3. \A e \in (Items(queue) \cup dropped) \ {Sentinel} : e.seq < seq
    BY <2>2, PlacesLemma DEF Unique
  <2>4. \A e \in (Items(queue) \cup dropped) \ {Sentinel} : Older(e, x)
    BY <2>3 DEF Older
  <2> HIDE DEF x
  <2>5. QED
    BY <1>2, <2>1, <2>4 DEF Order
<1>5. ASSUME NEW p \in Producers, ~At(p, "idle"), Finish(p), queue' = Append(queue, producer[p].event),
             UNCHANGED dropped
      PROVE  Order'
  <2> DEFINE x == producer[p].event
  <2>1. x \in Event /\ x \in Held /\ Held' = Held \ {x} /\ x.src = p
    BY <1>5, FinishLemma DEF Control
  <2>2. x \in Item
    BY <1>1, <2>1
  <2>3. /\ DOMAIN queue' = 1 .. Len(queue) + 1
        /\ \A i \in 1 .. Len(queue) : queue'[i] = queue[i]
        /\ queue'[Len(queue) + 1] = x
        /\ Items(queue') = Items(queue) \cup {x}
    BY <1>1, <1>5, <2>2, AppendLemma
  <2>4. \A f \in Held' : f.src # p
    <3>1. \A q \in Busy' : producer'[q].event.src = q /\ q # p /\ q \in Producers
      BY <1>5, FinishLemma DEF Busy, At, Idle, Control
    <3>2. QED
      BY <3>1 DEF Held
  <2> HIDE DEF x
  <2>5. Sorted'
    <3> SUFFICES ASSUME NEW i \in DOMAIN queue', NEW j \in DOMAIN queue', i < j,
                        queue'[i] # Sentinel, queue'[j] # Sentinel
                 PROVE  Older(queue'[i], queue'[j])
      OBVIOUS
    <3>1. CASE j \in 1 .. Len(queue)
      <4>1. i \in 1 .. Len(queue)
        BY <1>1, <2>3, <3>1
      <4>2. QED
        BY <1>1, <1>2, <2>3, <3>1, <4>1
    <3>2. CASE j = Len(queue) + 1
      <4>1. i \in 1 .. Len(queue)
        BY <1>1, <2>3, <3>2
      <4>2. queue'[i] \in Items(queue) \ {Sentinel}
        BY <1>1, <2>3, <4>1 DEF Items
      <4>3. QED
        BY <1>2, <2>1, <2>3, <3>2, <4>2
    <3>3. QED
      BY <1>1, <2>3, <3>1, <3>2
  <2>6. \A e \in dropped' \ {Sentinel}, f \in Items(queue') \ {Sentinel} : Older(e, f)
    BY <1>2, <1>5, <2>1, <2>3
  <2>7. \A f \in Held', e \in (Items(queue') \cup dropped') \ {Sentinel} : Older(e, f)
    <3> TAKE f \in Held', e \in (Items(queue') \cup dropped') \ {Sentinel}
    <3>1. CASE e = x
      BY <2>1, <2>4, <3>1 DEF Older
    <3>2. CASE e # x
      BY <1>2, <1>5, <2>1, <2>3, <3>2
    <3>3. QED
      BY <3>1, <3>2
  <2>8. QED
    BY <2>5, <2>6, <2>7 DEF Order
<1>6. ASSUME queue # <<>>, queue' = Tail(queue)
      PROVE  /\ Sorted'
             /\ Items(queue) = {Head(queue)} \cup Items(queue')
             /\ \A f \in Items(queue') \ {Sentinel} : Head(queue) # Sentinel => Older(Head(queue), f)
  <2>1. /\ Head(queue) = queue[1] /\ Len(queue) > 0
        /\ DOMAIN queue' = 1 .. Len(queue) - 1
        /\ \A i \in 1 .. Len(queue) - 1 : queue'[i] = queue[i + 1]
        /\ Items(queue) = {Head(queue)} \cup Items(queue')
    BY <1>1, <1>6, TailLemma
  <2>2. \A i \in DOMAIN queue' : i \in Nat /\ i + 1 \in DOMAIN queue /\ 1 < i + 1 /\ queue'[i] = queue[i + 1]
    BY <1>1, <2>1
  <2>3. Sorted'
    <3> SUFFICES ASSUME NEW i \in DOMAIN queue', NEW j \in DOMAIN queue', i < j,
                        queue'[i] # Sentinel, queue'[j] # Sentinel
                 PROVE  Older(queue'[i], queue'[j])
      OBVIOUS
    <3>1. i + 1 < j + 1
      BY <2>2
    <3>2. QED
      BY <1>2, <2>2, <3>1
  <2>4. ASSUME Head(queue) # Sentinel, NEW i \in DOMAIN queue', queue'[i] # Sentinel
        PROVE  Older(Head(queue), queue'[i])
    <3>1. 1 \in DOMAIN queue
      BY <1>1, <2>1
    <3>2. QED
      BY <1>2, <2>1, <2>2, <2>4, <3>1
  <2>5. QED
    BY <2>1, <2>3, <2>4 DEF Items
<1>7. ASSUME NEW p \in Producers, Put(p) PROVE Order'
  BY <1>5, <1>7 DEF Put, At, ends
<1>8. ASSUME NEW p \in Producers, PutFindsFull(p) PROVE Order'
  BY <1>3, <1>8, AdvanceLemma DEF PutFindsFull, At, ends
<1>9. ASSUME NEW p \in Producers, DropOldest(p) PROVE Order'
  <2>1. Held' = Held
    BY <1>9, AdvanceLemma DEF DropOldest, At
  <2>2. CASE queue = <<>>
    BY <1>3, <1>9, <2>1, <2>2 DEF DropOldest
  <2>3. CASE queue # <<>>
    <3>1. queue' = Tail(queue) /\ dropped' = dropped \cup {Head(queue)}
      BY <1>9, <2>3 DEF DropOldest
    <3>2. QED
      BY <1>2, <1>6, <2>1, <2>3, <3>1 DEF Order
  <2>4. QED
    BY <2>2, <2>3
<1>10. ASSUME NEW p \in Producers, PutAgain(p) PROVE Order'
  <2>1. ~At(p, "idle") /\ Finish(p) /\ UNCHANGED dropped
    BY <1>10 DEF PutAgain, At
  <2>2. CASE Full
    <3>1. Held' \subseteq Held
      BY <2>1, FinishLemma
    <3>2. QED
      BY <1>3, <1>10, <2>1, <2>2, <3>1 DEF PutAgain
  <2>3. CASE ~Full
    BY <1>5, <1>10, <2>1, <2>3 DEF PutAgain
  <2>4. QED
    BY <2>2, <2>3
<1>11. CASE Take
  <2>1. queue # <<>> /\ queue' = Tail(queue) /\ UNCHANGED <<producer, dropped>>
    BY <1>11 DEF Take, ends
  <2>2. Held' = Held
    BY <2>1, StillLemma
  <2>3. QED
    BY <1>2, <1>6, <2>1, <2>2 DEF Order
<1>12. CASE PutSentinel
  <2>1. queue' = Append(queue, Sentinel) /\ UNCHANGED <<producer, dropped>>
    BY <1>12 DEF PutSentinel, ends
  <2>2. Held' = Held
    BY <2>1, StillLemma
  <2>3. /\ DOMAIN queue' = 1 .. Len(queue) + 1
        /\ \A i \in 1 .. Len(queue) : queue'[i] = queue[i]
        /\ queue'[Len(queue) + 1] = Sentinel
        /\ Items(queue') = Items(queue) \cup {Sentinel}
    BY <1>1, <2>1, AppendLemma
  <2>4. Sorted'
    BY <1>1, <1>2, <2>3
  <2>5. QED
    BY <1>2, <2>1, <2>2, <2>3, <2>4 DEF Order
<1>13. ASSUME UNCHANGED <<queue, producer, dropped>> PROVE Order'
  BY <1>3, <1>13, StillLemma
<1>14. CASE BeginWrite \/ SinkIsGone \/ WriteSucceeds \/ WriteFails
  BY <1>13, <1>14 DEF BeginWrite, SinkIsGone, WriteSucceeds, WriteFails, ends
<1>15. CASE CallStop \/ PutSentinelTimesOut \/ Join \/ JoinTimesOut \/ CloseSink \/ DropSink
  BY <1>13, <1>15 DEF CallStop, PutSentinelTimesOut, Join, JoinTimesOut, CloseSink, DropSink, ends
<1>16. CASE UNCHANGED vars
  BY <1>13, <1>16 DEF vars, ends
<1>17. QED
  BY <1>4, <1>7, <1>8, <1>9, <1>10, <1>11, <1>12, <1>14, <1>15, <1>16
  DEF Next, Enqueue, Drain, Stop

-----------------------------------------------------------------------------
(* What overflow costs.                                                    *)

LEMMA OverflowLemma == TypeOK /\ Control /\ Overflow /\ [Next]_vars => Overflow'
<1> SUFFICES ASSUME TypeOK, Control, Overflow, [Next]_vars PROVE Overflow'
  OBVIOUS
<1> DEFINE Early == stopper.pc \in {"idle", "put"}
           Room(p) == At(p, "again") => ~Full
           Count == IF Freeing THEN 1 ELSE 0
<1>1. /\ queue \in Seq(Item) /\ Len(queue) \in Nat /\ QueueMax \in Nat \ {0} /\ dropCount \in Nat
      /\ Len(queue) <= QueueMax /\ IsFiniteSet(dropped) /\ Cardinality(dropped) \in Nat
      /\ Cardinality(dropped) + Count <= dropCount
      /\ Early => refused = {} /\ \A p \in Producers : Room(p)
  BY EmitterAssumption, ItemsType, FS_CardinalityType DEF TypeOK, Overflow
<1>2. \A p, q \in Producers : producer[p].pc \in {"get", "again"} /\ producer[q].pc \in {"get", "again"} => p = q
  BY DEF Control
<1>3. Full <=> Len(queue) >= QueueMax
  BY DEF Full
<1>4. ASSUME Len(queue') \in Nat, Len(queue') <= Len(queue), UNCHANGED <<producer, dropCount, dropped, refused>>,
             Early' => Early
      PROVE  Overflow'
  <2>1. Freeing' <=> Freeing
    BY <1>4, StillLemma
  <2>2. ASSUME NEW p \in Producers, Early' PROVE Room(p)'
    BY <1>1, <1>4, <2>2 DEF Full, At
  <2>3. QED
    BY <1>1, <1>4, <2>1, <2>2 DEF Overflow
<1>5. ASSUME NEW p \in Producers, Number(p) PROVE Overflow'
  <2>1. UNCHANGED <<queue, dropCount, dropped, refused, stopper>> /\ At(p, "idle")
    BY <1>5 DEF Number, ends
  <2>2. \A q \in Producers : (At(q, "get")' <=> At(q, "get")) /\ (At(q, "again")' <=> At(q, "again"))
    <3> DEFINE e == [src |-> p, seq |-> seq]
    <3>1. producer' = [producer EXCEPT ![p] = [pc |-> "put", event |-> e]]
      BY <1>5, NumberLemma
    <3> HIDE DEF e
    <3>2. (\A q \in Producers : q # p => producer'[q] = producer[q]) /\ producer'[p].pc = "put"
      BY <3>1 DEF TypeOK
    <3>3. QED
      BY <2>1, <3>2 DEF At
  <2>3. Freeing' <=> Freeing
    BY <2>2 DEF Freeing
  <2>4. QED
    BY <1>1, <2>1, <2>2, <2>3 DEF Overflow, Full
<1>6. ASSUME NEW p \in Producers, ~At(p, "idle"), ~At(p, "get"), Finish(p), LockFree \/ At(p, "again")
      PROVE  ~Freeing /\ ~Freeing' /\ \A q \in Producers : ~At(q, "again")'
  <2>1. (\A q \in Producers : q # p => producer'[q] = producer[q]) /\ producer'[p] = Idle
    BY <1>6, FinishLemma
  <2>2. \A q \in Producers : q # p => producer[q].pc \notin {"get", "again"}
    BY <1>2, <1>6 DEF LockFree, At
  <2>3. QED
    BY <1>6, <2>1, <2>2 DEF Freeing, At, Idle
<1>7. ASSUME NEW p \in Producers, ~At(p, "idle"), ~Full, queue' = Append(queue, producer[p].event)
      PROVE  Len(queue') <= QueueMax
  <2>1. producer[p].event \in Item
    BY <1>7 DEF TypeOK
  <2>2. Len(queue') = Len(queue) + 1
    BY <1>1, <1>7, <2>1, AppendLemma
  <2>3. QED
    BY <1>1, <1>3, <1>7, <2>2
<1>8. ASSUME NEW p \in Producers, Put(p) PROVE Overflow'
  <2>1. /\ ~At(p, "idle") /\ ~At(p, "get") /\ Finish(p) /\ LockFree /\ ~Full
        /\ queue' = Append(queue, producer[p].event)
        /\ UNCHANGED <<dropCount, dropped, refused, stopper>>
    BY <1>8 DEF Put, At, ends
  <2>2. Len(queue') <= QueueMax /\ ~Freeing /\ ~Freeing' /\ \A q \in Producers : ~At(q, "again")'
    BY <1>6, <1>7, <2>1
  <2>3. QED
    BY <1>1, <2>1, <2>2 DEF Overflow
<1>9. ASSUME NEW p \in Producers, PutFindsFull(p) PROVE Overflow'
  <2>1. /\ At(p, "put") /\ LockFree /\ dropCount' = dropCount + 1
        /\ producer' = [producer EXCEPT ![p].pc = "get"]
        /\ UNCHANGED <<queue, dropped, refused, stopper>>
    BY <1>9 DEF PutFindsFull, ends
  <2>2. /\ \A q \in Producers : q # p => producer'[q] = producer[q]
        /\ producer'[p].pc = "get"
    BY <2>1, AdvanceLemma DEF At
  <2>3. ~Freeing /\ \A q \in Producers : ~At(q, "again")'
    BY <2>1, <2>2 DEF LockFree, Freeing, At
  <2>4. QED
    BY <1>1, <2>1, <2>3 DEF Overflow
<1>10. ASSUME queue # <<>> PROVE Len(Tail(queue)) = Len(queue) - 1 /\ Len(queue) > 0
  BY <1>1, <1>10, TailLemma
<1>11. ASSUME NEW p \in Producers, DropOldest(p) PROVE Overflow'
  <2>1. /\ At(p, "get") /\ producer' = [producer EXCEPT ![p].pc = "again"]
        /\ UNCHANGED <<dropCount, refused, stopper>>
    BY <1>11 DEF DropOldest
  <2>2. /\ \A q \in Producers : q # p => producer'[q] = producer[q]
        /\ producer'[p].pc = "again"
    BY <2>1, AdvanceLemma DEF At
  <2>3. Freeing /\ ~Freeing'
    BY <1>2, <2>1, <2>2 DEF Freeing, At
  <2>4. CASE queue = <<>>
    <3>1. UNCHANGED <<queue, dropped>> /\ Len(queue) = 0
      BY <1>11, <2>4 DEF DropOldest
    <3>2. ~Full'
      BY <1>1, <3>1 DEF Full
    <3>3. QED
      BY <1>1, <2>1, <2>3, <3>1, <3>2 DEF Overflow
  <2>5. CASE queue # <<>>
    <3>1. queue' = Tail(queue) /\ dropped' = dropped \cup {Head(queue)}
      BY <1>11, <2>5 DEF DropOldest
    <3>2. Len(queue') = Len(queue) - 1 /\ ~Full'
      BY <1>1, <1>10, <2>5, <3>1 DEF Full
    <3>3. IsFiniteSet(dropped') /\ Cardinality(dropped') \in Nat /\ Cardinality(dropped') <= Cardinality(dropped) + 1
      <4> DEFINE h == Head(queue)
      <4>1. /\ IsFiniteSet(dropped \cup {h})
            /\ Cardinality(dropped \cup {h}) = Cardinality(dropped) \/ Cardinality(dropped \cup {h}) = Cardinality(dropped) + 1
        BY <1>1, FS_AddElement
      <4>2. QED
        BY <1>1, <3>1, <4>1
    <3>4. QED
      BY <1>1, <2>1, <2>3, <3>2, <3>3 DEF Overflow
  <2>6. QED
    BY <2>4, <2>5
<1>12. ASSUME NEW p \in Producers, PutAgain(p) PROVE Overflow'
  <2>1. /\ At(p, "again") /\ ~At(p, "idle") /\ ~At(p, "get") /\ Finish(p)
        /\ UNCHANGED <<dropCount, dropped, stopper>>
    BY <1>12 DEF PutAgain, At
  <2>2. ~Freeing /\ ~Freeing' /\ \A q \in Producers : ~At(q, "again")'
    BY <1>6, <2>1
  <2>3. CASE Full
    <3>1. UNCHANGED queue /\ ~Early
      BY <1>1, <1>12, <2>1, <2>3 DEF PutAgain
    <3>2. QED
      BY <1>1, <2>1, <2>2, <3>1 DEF Overflow
  <2>4. CASE ~Full
    <3>1. Len(queue') <= QueueMax /\ UNCHANGED refused
      BY <1>7, <1>12, <2>1, <2>4 DEF PutAgain
    <3>2. QED
      BY <1>1, <2>1, <2>2, <3>1 DEF Overflow
  <2>5. QED
    BY <2>3, <2>4
<1>13. CASE Take
  BY <1>1, <1>4, <1>10, <1>13 DEF Take, ends
<1>14. CASE PutSentinel
  <2>1. /\ queue' = Append(queue, Sentinel) /\ ~Full /\ stopper'.pc = "join"
        /\ UNCHANGED <<producer, dropCount, dropped, refused>>
    BY <1>14 DEF PutSentinel, TypeOK, ends
  <2>2. Len(queue') = Len(queue) + 1
    BY <1>1, <2>1, AppendLemma DEF Item
  <2>3. Freeing' <=> Freeing
    BY <2>1, StillLemma
  <2>4. QED
    BY <1>1, <1>3, <2>1, <2>2, <2>3 DEF Overflow
<1>15. CASE BeginWrite \/ SinkIsGone \/ WriteSucceeds \/ WriteFails
  BY <1>1, <1>4, <1>15 DEF BeginWrite, SinkIsGone, WriteSucceeds, WriteFails, ends
<1>16. CASE CallStop
  BY <1>1, <1>4, <1>16 DEF CallStop, ends
<1>17. CASE PutSentinelTimesOut \/ Join \/ JoinTimesOut \/ CloseSink \/ DropSink
  <2>1. stopper'.pc \notin {"idle", "put"} /\ UNCHANGED <<queue, producer, dropCount, dropped, refused>>
    BY <1>17 DEF PutSentinelTimesOut, Join, JoinTimesOut, CloseSink, DropSink, TypeOK, ends
  <2>2. QED
    BY <1>1, <1>4, <2>1
<1>18. CASE UNCHANGED vars
  BY <1>1, <1>4, <1>18 DEF vars, ends
<1>19. QED
  BY <1>5, <1>8, <1>9, <1>11, <1>12, <1>13, <1>14, <1>15, <1>16, <1>17, <1>18
  DEF Next, Enqueue, Drain, Stop

-----------------------------------------------------------------------------
(* The fan-out.                                                            *)

\* A sink has got what it was offered, whether it took it or not.
LEMMA GotLemma ==
  ASSUME TypeOK, Control, WriteSucceeds \/ WriteFails
  PROVE  \A s \in Sinks : Got(s)' = IF s = drain.at THEN Got(s) \cup {drain.item} ELSE Got(s)
<1>1. drain.at \in Sinks /\ drain.item \in Event
  BY NextSinkLemma DEF WriteSucceeds, WriteFails
<1>2. CASE WriteSucceeds
  <2>1. UNCHANGED failed /\ delivered' = [delivered EXCEPT ![drain.at] = Append(@, drain.item)]
    BY <1>2 DEF WriteSucceeds
  <2>2. ASSUME NEW s \in Sinks, s # drain.at PROVE Got(s)' = Got(s)
    BY <2>1, <2>2 DEF Got, TypeOK
  <2>3. ASSUME NEW s \in Sinks, s = drain.at PROVE Got(s)' = Got(s) \cup {drain.item}
    <3>1. delivered[s] \in Seq(Event) /\ delivered'[s] = Append(delivered[s], drain.item)
      BY <1>1, <2>1, <2>3 DEF TypeOK
    <3>2. Items(delivered'[s]) = Items(delivered[s]) \cup {drain.item}
      BY <1>1, <3>1, AppendLemma
    <3>3. QED
      BY <2>1, <3>2 DEF Got
  <2>4. QED
    BY <2>2, <2>3
<1>3. CASE WriteFails
  <2>1. UNCHANGED delivered /\ failed' = [failed EXCEPT ![drain.at] = @ \cup {drain.item}]
    BY <1>3 DEF WriteFails
  <2>2. QED
    BY <1>1, <2>1 DEF Got, TypeOK
<1>4. QED
  BY <1>2, <1>3

LEMMA FanOutLemma == TypeOK /\ Control /\ Apart /\ FanOut /\ [Next]_vars => FanOut'
<1> SUFFICES ASSUME TypeOK, Control, Apart, FanOut, [Next]_vars PROVE FanOut'
  OBVIOUS
<1>1. /\ Sentinel \notin Event /\ NSinks \in Nat /\ drain.at \in Nat
      /\ \A s \in Sinks : s \in Nat /\ s >= 1 /\ s <= NSinks
  BY EmitterAssumption DEF Sinks, TypeOK
<1>2. \A s \in Sinks : Sentinel \notin Got(s)
  BY <1>1, PlacesLemma
<1>3. /\ \A s, t \in Sinks : Got(s) \ {drain.item} = Got(t) \ {drain.item}
      /\ \A s \in Sinks : drain.item \in Got(s) <=> s < drain.at
  BY DEF FanOut
<1>4. ASSUME UNCHANGED <<delivered, failed>>, drain'.item = drain.item, drain'.at = drain.at PROVE FanOut'
  BY <1>3, <1>4 DEF FanOut, Got
<1>5. ASSUME NEW p \in Producers, Enqueue(p) PROVE FanOut'
  BY <1>4, <1>5 DEF Enqueue, Number, Put, PutFindsFull, DropOldest, PutAgain, ends
<1>6. CASE Stop
  BY <1>4, <1>6 DEF Stop, CallStop, PutSentinel, PutSentinelTimesOut, Join, JoinTimesOut, CloseSink, DropSink, ends
<1>7. CASE BeginWrite
  BY <1>4, <1>7 DEF BeginWrite, TypeOK, ends
<1>8. ASSUME drain.pc # "write" PROVE drain.at = 1 /\ \A s, t \in Sinks : Got(s) = Got(t) /\ drain.item \notin Got(s)
  <2>1. drain.at = 1
    BY <1>8 DEF Control
  <2>2. \A s \in Sinks : drain.item \notin Got(s)
    BY <1>1, <1>3, <2>1
  <2>3. QED
    BY <1>3, <2>1, <2>2
<1>9. CASE Take
  <2>1. drain.pc = "get" /\ drain.item = Sentinel /\ queue # <<>> /\ UNCHANGED <<delivered, failed>>
    BY <1>9 DEF Take, Control, ends
  <2>2. CASE Head(queue) = Sentinel
    BY <1>4, <1>9, <2>1, <2>2 DEF Take, TypeOK
  <2>3. CASE Head(queue) # Sentinel
    <3>1. drain'.item = Head(queue) /\ drain'.at = 1
      BY <1>9, <2>3 DEF Take
    <3>2. Head(queue) \in Items(queue)
      BY <2>1, TailLemma DEF TypeOK
    <3>3. \A s \in Sinks : Head(queue) \notin Got(s)
      BY <3>2 DEF Apart, Disjoint, Got
    <3>4. \A s \in Sinks : Got(s)' = Got(s) /\ ~(s < 1)
      BY <1>1, <2>1 DEF Got
    <3>5. QED
      BY <1>8, <2>1, <3>1, <3>3, <3>4 DEF FanOut
  <2>4. QED
    BY <2>2, <2>3
<1>10. CASE SinkIsGone
  <2>1. drain.pc = "deliver" /\ drain'.item = Sentinel /\ drain'.at = 1
    BY <1>10 DEF SinkIsGone
  <2>2. \A s \in Sinks : Got(s)' = Got(s) \cup {drain.item} /\ ~(s < 1)
    BY <1>1, <1>10 DEF SinkIsGone, Got
  <2>3. drain.item # Sentinel
    BY <2>1 DEF Control
  <2>4. QED
    BY <1>2, <1>8, <2>1, <2>2, <2>3 DEF FanOut
<1>11. CASE WriteSucceeds \/ WriteFails
  <2>1. \A s \in Sinks : Got(s)' = IF s = drain.at THEN Got(s) \cup {drain.item} ELSE Got(s)
    BY <1>11, GotLemma
  <2>2. /\ drain.at \in Sinks /\ drain.item \in Event
        /\ IF drain.at < NSinks THEN drain'.item = drain.item /\ drain'.at = drain.at + 1
           ELSE drain'.item = Sentinel /\ drain'.at = 1
    BY <1>11, NextSinkLemma DEF WriteSucceeds, WriteFails
  <2>3. CASE drain.at < NSinks
    <3>1. \A s \in Sinks : s < drain.at + 1 <=> s < drain.at \/ s = drain.at
      BY <1>1
    <3>2. \A s \in Sinks : Got(s)' \ {drain.item} = Got(s) \ {drain.item}
      BY <2>1
    <3>3. \A s \in Sinks : drain.item \in Got(s)' <=> s < drain.at \/ s = drain.at
      BY <1>3, <2>1
    <3>4. QED
      BY <1>3, <2>2, <2>3, <3>1, <3>2, <3>3 DEF FanOut
  <2>4. CASE ~(drain.at < NSinks)
    <3>1. \A s \in Sinks : (s < drain.at \/ s = drain.at) /\ ~(s < 1)
      BY <1>1, <2>4
    <3>2. \A s \in Sinks : Got(s)' = (Got(s) \ {drain.item}) \cup {drain.item}
      BY <1>3, <2>1, <3>1
    <3>3. \A s, t \in Sinks : Got(s)' = Got(t)' /\ Sentinel \notin Got(s)'
      BY <1>1, <1>2, <1>3, <2>2, <3>2
    <3>4. QED
      BY <2>2, <2>4, <3>1, <3>3 DEF FanOut
  <2>5. QED
    BY <2>3, <2>4
<1>12. CASE UNCHANGED vars
  BY <1>4, <1>12 DEF vars, ends
<1>13. QED
  BY <1>5, <1>6, <1>7, <1>9, <1>10, <1>11, <1>12 DEF Next, Drain

-----------------------------------------------------------------------------
(* What stop() waits for.                                                  *)

Cover(s) == Got(s) \cup dropped \cup Items(ToWrite(s)) \cup Items(queue)
Ahead == \A i \in DOMAIN queue : queue[i] \in owed => \E j \in DOMAIN queue : i < j /\ queue[j] = Sentinel

LEMMA TailIsAhead ==
  ASSUME TypeOK, Ahead, queue # <<>>, queue' = Tail(queue), UNCHANGED owed
  PROVE  Ahead' /\ Items(queue) = {Head(queue)} \cup Items(queue')
<1>1. /\ DOMAIN queue = 1 .. Len(queue) /\ Len(queue) \in Nat /\ Len(queue) > 0
      /\ DOMAIN queue' = 1 .. Len(queue) - 1
      /\ \A i \in 1 .. Len(queue) - 1 : queue'[i] = queue[i + 1]
      /\ Items(queue) = {Head(queue)} \cup Items(queue')
  BY ItemsType, TailLemma DEF TypeOK
<1>2. ASSUME NEW i \in DOMAIN queue', queue'[i] \in owed
      PROVE  \E j \in DOMAIN queue' : i < j /\ queue'[j] = Sentinel
  <2>1. i + 1 \in DOMAIN queue /\ queue[i + 1] \in owed /\ i \in Nat
    BY <1>1, <1>2
  <2>2. PICK j \in DOMAIN queue : i + 1 < j /\ queue[j] = Sentinel
    BY <2>1 DEF Ahead
  <2>3. j - 1 \in DOMAIN queue' /\ i < j - 1 /\ queue'[j - 1] = Sentinel
    BY <1>1, <2>1, <2>2
  <2>4. QED
    BY <2>3
<1>3. QED
  BY <1>1, <1>2 DEF Ahead

LEMMA FlushLemma == TypeOK /\ Control /\ Unique /\ Apart /\ Flush /\ FanOut /\ [Next]_vars => Flush'
<1> SUFFICES ASSUME TypeOK, Control, Unique, Apart, Flush, FanOut, [Next]_vars PROVE Flush'
  OBVIOUS
<1>1. /\ queue \in Seq(Item) /\ Sentinel \in Item /\ Event \subseteq Item /\ Sentinel \notin Event
      /\ owed \subseteq Event /\ DOMAIN queue = 1 .. Len(queue) /\ Len(queue) \in Nat
  BY EmitterAssumption, ItemsType DEF TypeOK, Item
<1>2. /\ stopper.pc \in {"idle", "put"} => owed = {}
      /\ owed \cap Held = {} /\ Ahead /\ \A s \in Sinks : owed \subseteq Cover(s)
  BY DEF Flush, Ahead, Cover
<1>3. SUFFICES /\ stopper'.pc \in {"idle", "put"} => owed' = {}
               /\ owed' \cap Held' = {} /\ Ahead' /\ \A s \in Sinks : owed' \subseteq Cover(s)'
  BY DEF Flush, Ahead, Cover
<1> DEFINE Goal == /\ stopper'.pc \in {"idle", "put"} => owed' = {}
                   /\ owed' \cap Held' = {} /\ Ahead' /\ \A s \in Sinks : owed' \subseteq Cover(s)'
<1>4. ASSUME UNCHANGED drain, NEW s \in Sinks PROVE Items(ToWrite(s)') = Items(ToWrite(s))
  BY <1>4 DEF ToWrite
<1>5. ASSUME UNCHANGED <<queue, owed>> PROVE Ahead'
  BY <1>2, <1>5 DEF Ahead
<1>6. ASSUME NEW p \in Producers, Number(p) PROVE Goal
  <2> DEFINE e == [src |-> p, seq |-> seq]
  <2>1. e \in Event /\ Held' = Held \cup {e} /\ e # Sentinel /\ seq \in Nat
    BY <1>1, <1>6, NumberLemma DEF TypeOK
  <2>2. e \notin Every
    BY <2>1, FreshLemma
  <2> HIDE DEF e
  <2>3. UNCHANGED <<queue, drain, stopper, delivered, failed, dropped, owed>>
    BY <1>6 DEF Number, ends
  <2>4. 1 \in Sinks
    BY EmitterAssumption DEF Sinks
  <2>5. owed \subseteq Every
    BY <1>2, <2>4, PlacesLemma DEF Cover
  <2>6. \A s \in Sinks : Cover(s)' = Cover(s)
    BY <1>4, <2>3 DEF Cover, Got
  <2>7. QED
    BY <1>2, <1>5, <2>1, <2>2, <2>3, <2>5, <2>6
<1>7. ASSUME NEW p \in Producers, ~At(p, "idle"), Finish(p), queue' = Append(queue, producer[p].event),
             UNCHANGED <<drain, stopper, delivered, failed, dropped, owed>>
      PROVE  Goal
  <2>1. /\ producer[p].event \in Held /\ Held' \subseteq Held /\ producer[p].event \in Item
        /\ producer[p].event \notin owed
    BY <1>1, <1>2, <1>7, FinishLemma
  <2>2. /\ DOMAIN queue' = 1 .. Len(queue) + 1
        /\ \A i \in 1 .. Len(queue) : queue'[i] = queue[i]
        /\ queue'[Len(queue) + 1] = producer[p].event
        /\ Items(queue) \subseteq Items(queue')
    BY <1>1, <1>7, <2>1, AppendLemma
  <2>3. Ahead'
    <3> SUFFICES ASSUME NEW i \in DOMAIN queue', queue'[i] \in owed
                 PROVE  \E j \in DOMAIN queue' : i < j /\ queue'[j] = Sentinel
      BY <1>7 DEF Ahead
    <3>1. i \in DOMAIN queue /\ queue[i] \in owed
      BY <1>1, <2>1, <2>2
    <3>2. PICK j \in DOMAIN queue : i < j /\ queue[j] = Sentinel
      BY <1>2, <3>1 DEF Ahead
    <3>3. QED
      BY <1>1, <2>2, <3>2
  <2>4. \A s \in Sinks : Cover(s) \subseteq Cover(s)'
    BY <1>4, <1>7, <2>2 DEF Cover, Got
  <2>5. QED
    BY <1>2, <1>7, <2>1, <2>3, <2>4
<1>8. ASSUME NEW p \in Producers, Put(p) PROVE Goal
  BY <1>7, <1>8 DEF Put, At, ends
<1>9. ASSUME UNCHANGED <<queue, drain, delivered, failed, dropped, owed>>, Held' \subseteq Held,
             stopper'.pc \in {"idle", "put"} => stopper.pc \in {"idle", "put"}
      PROVE  Goal
  <2>1. \A s \in Sinks : Cover(s)' = Cover(s)
    BY <1>4, <1>9 DEF Cover, Got
  <2>2. QED
    BY <1>2, <1>5, <1>9, <2>1
<1>10. ASSUME NEW p \in Producers, PutFindsFull(p) PROVE Goal
  BY <1>9, <1>10, AdvanceLemma DEF PutFindsFull, At, ends
<1>11. ASSUME NEW p \in Producers, DropOldest(p) PROVE Goal
  <2>1. Held' = Held /\ UNCHANGED <<drain, stopper, delivered, failed, owed>>
    BY <1>11, AdvanceLemma DEF DropOldest, At
  <2>2. CASE queue = <<>>
    BY <1>9, <1>11, <2>1, <2>2 DEF DropOldest
  <2>3. CASE queue # <<>>
    <3>1. queue' = Tail(queue) /\ dropped' = dropped \cup {Head(queue)}
      BY <1>11, <2>3 DEF DropOldest
    <3>2. Ahead' /\ Items(queue) = {Head(queue)} \cup Items(queue')
      BY <1>2, <2>1, <2>3, <3>1, TailIsAhead
    <3>3. \A s \in Sinks : Cover(s)' = Cover(s)
      BY <1>4, <2>1, <3>1, <3>2 DEF Cover, Got
    <3>4. QED
      BY <1>2, <2>1, <3>2, <3>3
  <2>4. QED
    BY <2>2, <2>3
<1>12. ASSUME NEW p \in Producers, PutAgain(p) PROVE Goal
  <2>1. ~At(p, "idle") /\ Finish(p) /\ UNCHANGED <<drain, stopper, delivered, failed, dropped, owed>>
    BY <1>12 DEF PutAgain, At
  <2>2. CASE Full
    BY <1>9, <1>12, <2>1, <2>2, FinishLemma DEF PutAgain
  <2>3. CASE ~Full
    BY <1>7, <1>12, <2>1, <2>3 DEF PutAgain
  <2>4. QED
    BY <2>2, <2>3
<1>13. ASSUME UNCHANGED <<stopper, producer, dropped, owed>>, Ahead',
              \A s \in Sinks : Cover(s) \ {Sentinel} \subseteq Cover(s)'
       PROVE  Goal
  <2>1. Held' = Held
    BY <1>13, StillLemma
  <2>2. QED
    BY <1>1, <1>2, <1>13, <2>1
<1>14. CASE Take
  <2>1. /\ queue # <<>> /\ queue' = Tail(queue) /\ drain.pc = "get"
        /\ UNCHANGED <<producer, stopper, delivered, failed, dropped, owed>>
    BY <1>14 DEF Take, ends
  <2>2. Ahead' /\ Items(queue) = {Head(queue)} \cup Items(queue')
    BY <1>2, <2>1, TailIsAhead
  <2>3. ASSUME NEW s \in Sinks PROVE Cover(s) \ {Sentinel} \subseteq Cover(s)'
    <3>1. Items(ToWrite(s)) = {}
      BY <2>1, ToWriteLemma
    <3>2. Head(queue) # Sentinel => Items(ToWrite(s)') = {Head(queue)}
      BY <1>14 DEF Take, ToWrite, Items
    <3>3. QED
      BY <2>1, <2>2, <3>1, <3>2 DEF Cover, Got
  <2>4. QED
    BY <1>13, <2>1, <2>2, <2>3
<1>15. CASE BeginWrite
  <2>1. /\ drain.pc = "deliver" /\ drain.at = 1 /\ drain'.pc = "write"
        /\ drain'.item = drain.item /\ drain'.at = drain.at
        /\ UNCHANGED <<queue, producer, stopper, delivered, failed, dropped, owed>>
    BY <1>15 DEF BeginWrite, TypeOK, Control, ends
  <2>2. \A s \in Sinks : ToWrite(s)' = ToWrite(s)
    BY <2>1 DEF ToWrite, Sinks
  <2>3. QED
    BY <1>5, <1>13, <2>1, <2>2 DEF Cover, Got
<1>16. CASE SinkIsGone
  <2>1. /\ drain.pc = "deliver" /\ drain'.pc = "dead"
        /\ UNCHANGED <<queue, producer, stopper, delivered, dropped, owed>>
    BY <1>16 DEF SinkIsGone
  <2>2. ASSUME NEW s \in Sinks PROVE Cover(s) \subseteq Cover(s)'
    <3>1. failed'[s] = failed[s] \cup {drain.item}
      BY <1>16 DEF SinkIsGone
    <3>2. Items(ToWrite(s)) = {drain.item}
      BY <2>1, ToWriteLemma
    <3>3. QED
      BY <2>1, <3>1, <3>2 DEF Cover, Got
  <2>3. QED
    BY <1>5, <1>13, <2>1, <2>2
<1>17. ASSUME drain.pc = "write", NextSink, UNCHANGED <<queue, producer, stopper, dropped, owed>>,
              \A s \in Sinks : Got(s)' = IF s = drain.at THEN Got(s) \cup {drain.item} ELSE Got(s)
       PROVE  Goal
  <2>1. /\ \A s \in Sinks : Items(ToWrite(s)') = IF s = drain.at THEN {} ELSE Items(ToWrite(s))
        /\ Items(ToWrite(drain.at)) = {drain.item}
    BY <1>17, NextSinkLemma
  <2>2. ASSUME NEW s \in Sinks PROVE Cover(s) \subseteq Cover(s)'
    <3>1. CASE s = drain.at
      BY <1>17, <2>1, <3>1 DEF Cover
    <3>2. CASE s # drain.at
      BY <1>17, <2>1, <3>2 DEF Cover
    <3>3. QED
      BY <3>1, <3>2
  <2>3. QED
    BY <1>5, <1>13, <1>17, <2>2
<1>18. CASE WriteSucceeds \/ WriteFails
  BY <1>17, <1>18, GotLemma DEF WriteSucceeds, WriteFails
<1>19. CASE PutSentinel
  <2>1. /\ stopper.pc = "put" /\ stopper'.pc = "join" /\ queue' = Append(queue, Sentinel)
        /\ owed' = Items(queue) \cup ({drain.item} \ {Sentinel})
        /\ UNCHANGED <<producer, drain, delivered, failed, dropped>>
    BY <1>19 DEF PutSentinel, TypeOK, ends
  <2>2. Held' = Held /\ Sentinel \notin Items(queue)
    BY <2>1, StillLemma DEF Control
  <2>3. /\ DOMAIN queue' = 1 .. Len(queue) + 1
        /\ \A i \in 1 .. Len(queue) : queue'[i] = queue[i]
        /\ queue'[Len(queue) + 1] = Sentinel
        /\ Items(queue') = Items(queue) \cup {Sentinel}
    BY <1>1, <2>1, AppendLemma
  <2>4. /\ NSinks \in Sinks /\ NSinks \in Nat /\ drain.at \in Sinks /\ drain.at \in Nat
        /\ \A s \in Sinks : s \in Nat /\ s <= NSinks
    BY EmitterAssumption DEF Sinks, TypeOK
  <2>5. ASSUME drain.item # Sentinel, NEW s \in Sinks PROVE drain.item \in Got(s) \cup Items(ToWrite(s))
    <3>1. drain.pc \in {"deliver", "write"} /\ (drain.pc = "deliver" => drain.at = 1)
      BY <2>5 DEF Control
    <3>2. CASE s < drain.at
      BY <3>2 DEF FanOut
    <3>3. CASE ~(s < drain.at)
      <4>1. drain.at <= s
        BY <2>4, <3>3
      <4>2. QED
        BY <3>1, <4>1, ToWriteLemma
    <3>4. QED
      BY <3>2, <3>3
  <2>6. owed' \cap Held' = {}
    <3>1. drain.item # Sentinel => drain.item \in Items(ToWrite(NSinks))
      <4>1. drain.item # Sentinel => drain.pc \in {"deliver", "write"}
        BY DEF Control
      <4>2. drain.at <= NSinks
        BY <2>4
      <4>3. QED
        BY <2>4, <4>1, <4>2, ToWriteLemma
    <3>2. Held \cap (Items(ToWrite(NSinks)) \cup Items(queue)) = {}
      BY <2>4 DEF Apart, Disjoint
    <3>3. QED
      BY <2>1, <2>2, <3>1, <3>2
  <2>7. Ahead'
    <3> SUFFICES ASSUME NEW i \in DOMAIN queue', queue'[i] \in owed'
                 PROVE  \E j \in DOMAIN queue' : i < j /\ queue'[j] = Sentinel
      BY DEF Ahead
    <3>1. i # Len(queue) + 1
      BY <2>1, <2>2, <2>3
    <3>2. i \in Nat /\ i < Len(queue) + 1 /\ Len(queue) + 1 \in DOMAIN queue'
      BY <1>1, <2>3, <3>1
    <3>3. QED
      BY <2>3, <3>2
  <2>8. \A s \in Sinks : owed' \subseteq Cover(s)'
    BY <1>4, <2>1, <2>3, <2>5 DEF Cover, Got
  <2>9. QED
    BY <2>1, <2>6, <2>7, <2>8
<1>20. CASE CallStop
  BY <1>9, <1>20, StillLemma DEF CallStop, ends
<1>21. CASE PutSentinelTimesOut \/ Join \/ JoinTimesOut \/ CloseSink \/ DropSink
  <2>1. stopper'.pc \notin {"idle", "put"} /\ UNCHANGED <<queue, producer, drain, delivered, failed, dropped, owed>>
    BY <1>21 DEF PutSentinelTimesOut, Join, JoinTimesOut, CloseSink, DropSink, TypeOK, ends
  <2>2. QED
    BY <1>9, <2>1, StillLemma
<1>22. CASE UNCHANGED vars
  BY <1>9, <1>22, StillLemma DEF vars, ends
<1>23. QED
  BY <1>6, <1>8, <1>10, <1>11, <1>12, <1>14, <1>15, <1>16, <1>18, <1>19, <1>20, <1>21, <1>22
  DEF Next, Enqueue, Drain, Stop

-----------------------------------------------------------------------------
(* The invariant, and what follows from it.                                *)

\* Every reachable state of the emitter satisfies the inductive invariant.
THEOREM Invariance == Spec => []IInv
<1>1. Init => IInv
  BY InitLemma
<1>2. IInv /\ [Next]_vars => IInv'
  <2> SUFFICES ASSUME IInv, [Next]_vars PROVE IInv'
    OBVIOUS
  <2>1. TypeOK /\ Control /\ Unique /\ Apart /\ Order /\ Overflow /\ Flush /\ FanOut
    BY DEF IInv
  <2>2. Distinct(queue)
    BY <2>1 DEF Apart
  <2>3. TypeOK' /\ Control'
    BY <2>1, <2>2, TypeLemma, ControlLemma
  <2>4. Unique' /\ Apart' /\ Order'
    BY <2>1, UniqueLemma, ApartLemma, OrderLemma
  <2>5. Overflow' /\ Flush' /\ FanOut'
    BY <2>1, OverflowLemma, FlushLemma, FanOutLemma
  <2>6. QED
    BY <2>3, <2>4, <2>5 DEF IInv
<1>3. QED
  BY <1>1, <1>2, PTL DEF Spec

\* Every variable of the emitter keeps its type.
THEOREM TypeCorrect == Spec => []TypeOK
<1>1. IInv => TypeOK
  BY DEF IInv
<1>2. QED
  BY <1>1, Invariance, PTL

\* What the threads have in hand is what they hold, and the sentinel.
LEMMA InHandLemma ==
  ASSUME TypeOK, Control, NEW s \in Sinks
  PROVE  InHand(s) \subseteq Held \cup {Sentinel} \cup Items(ToWrite(s))
<1>1. ASSUME NEW p \in Producers PROVE producer[p].event \in Held \cup {Sentinel}
  BY <1>1 DEF Control, Held, Busy
<1>2. QED
  BY <1>1 DEF InHand

\* No event is in two places at once, as far as any one sink is concerned, none is
\* queued or written to a sink twice, and none is written under the number of another.
THEOREM EventsAreNeverTwice == Spec => []NoEventTwice
<1>1. IInv => NoEventTwice
  <2> SUFFICES ASSUME IInv, NEW s \in Sinks
               PROVE  /\ \A i, j \in DOMAIN Places(s) : i # j => Places(s)[i] \cap Places(s)[j] \subseteq {Sentinel}
                      /\ \A i, j \in DOMAIN delivered[s] : i # j => delivered[s][i].seq # delivered[s][j].seq
                      /\ \A i, j \in DOMAIN queue : i # j => queue[i] # queue[j]
    BY DEF NoEventTwice
  <2>1. TypeOK /\ Control /\ Unique /\ Apart
    BY DEF IInv
  <2>2. /\ Disjoint(Held, Items(ToWrite(s)), Items(queue), Items(delivered[s]), failed[s], dropped, refused)
        /\ Distinct(delivered[s]) /\ Distinct(queue)
    BY <2>1 DEF Apart
  <2>3. ASSUME NEW a, NEW b, NEW c, NEW d, NEW e, NEW f,
               InHand(s) = a, Items(queue) = b, Items(delivered[s]) = c, failed[s] = d, dropped = e, refused = f
        PROVE  /\ a \cap (b \cup c \cup d \cup e \cup f) \subseteq {Sentinel}
               /\ b \cap (c \cup d \cup e \cup f) = {} /\ c \cap (d \cup e \cup f) = {}
               /\ d \cap (e \cup f) = {} /\ e \cap f = {}
    BY <2>1, <2>2, <2>3, InHandLemma DEF Disjoint
  <2>4. \A i, j \in DOMAIN Places(s) : i # j => Places(s)[i] \cap Places(s)[j] \subseteq {Sentinel}
    <3> DEFINE a == InHand(s)  b == Items(queue)  c == Items(delivered[s])  d == failed[s]
    <3>1. /\ a \cap (b \cup c \cup d \cup dropped \cup refused) \subseteq {Sentinel}
          /\ b \cap (c \cup d \cup dropped \cup refused) = {} /\ c \cap (d \cup dropped \cup refused) = {}
          /\ d \cap (dropped \cup refused) = {} /\ dropped \cap refused = {}
      BY <2>3
    <3>2. Places(s) = <<a, b, c, d, dropped, refused>>
      BY DEF Places
    <3> HIDE DEF a, b, c, d
    <3>3. QED
      BY <3>1, <3>2
  <2>5. ASSUME NEW i \in DOMAIN delivered[s], NEW j \in DOMAIN delivered[s], i # j
        PROVE  delivered[s][i].seq # delivered[s][j].seq
    <3>1. delivered[s] \in Seq(Event)
      BY <2>1 DEF TypeOK
    <3>2. /\ delivered[s][i] \in Event /\ delivered[s][j] \in Event
          /\ delivered[s][i] \in Every /\ delivered[s][j] \in Every
      BY <2>1, <2>5, <3>1, ItemsType, PlacesLemma DEF Got
    <3>3. delivered[s][i] # delivered[s][j]
      BY <2>2, <2>5 DEF Distinct
    <3>4. QED
      BY <2>1, <3>2, <3>3, EmitterAssumption DEF Unique
  <2>6. QED
    BY <2>2, <2>4, <2>5 DEF Distinct
<1>2. QED
  BY <1>1, Invariance, PTL

\* The queue keeps to its size, overflow costs the oldest events, and before the
\* sentinel is queued neither the new event nor more than the log line counts.
THEOREM OverflowIsOldest == Spec => []OverflowDropsTheOldest
<1>1. IInv => OverflowDropsTheOldest
  <2> SUFFICES ASSUME IInv PROVE OverflowDropsTheOldest
    OBVIOUS
  <2>1. \A e \in dropped \ {Sentinel}, f \in Items(queue) \ {Sentinel} : e.src = f.src => e.seq < f.seq
    BY DEF IInv, Order, Older
  <2>2. Cardinality(dropped) <= dropCount
    <3>1. Cardinality(dropped) \in Nat /\ dropCount \in Nat
      BY FS_CardinalityType DEF IInv, TypeOK, Overflow
    <3>2. Cardinality(dropped) + (IF Freeing THEN 1 ELSE 0) <= dropCount
      BY DEF IInv, Overflow
    <3> HIDE DEF IInv
    <3>3. QED
      BY <3>1, <3>2
  <2>3. QED
    BY <2>1, <2>2 DEF IInv, Overflow, OverflowDropsTheOldest
<1>2. QED
  BY <1>1, Invariance, PTL

\* A stop() that met no timeout has flushed what was ahead of its sentinel.
THEOREM StopFlushes == Spec => []CleanStopFlushes
<1>1. IInv => CleanStopFlushes
  <2> SUFFICES ASSUME IInv, stopper.pc = "done", ~stopper.late, NEW s \in Sinks, NEW e \in owed
               PROVE  e \in Items(delivered[s]) \cup failed[s] \cup dropped
    BY DEF CleanStopFlushes
  <2>1. TypeOK /\ Control /\ Flush
    BY DEF IInv
  <2>2. drain.pc = "done" /\ Sentinel \notin Items(queue)
    BY <2>1 DEF Control
  <2>3. Items(ToWrite(s)) = {}
    BY <2>1, <2>2, ToWriteLemma
  <2>4. e \notin Items(queue)
    <3> SUFFICES ASSUME NEW i \in DOMAIN queue, queue[i] = e PROVE FALSE
      BY DEF Items
    <3>1. PICK j \in DOMAIN queue : queue[j] = Sentinel
      BY <2>1 DEF Flush
    <3>2. QED
      BY <2>2, <3>1 DEF Items
  <2>5. QED
    BY <2>1, <2>3, <2>4 DEF Flush, Got
<1>2. QED
  BY <1>1, Invariance, PTL

\* A sink that fails costs the others nothing.
THEOREM IsolatedSinks == Spec => []SinksAreIsolated
<1>1. IInv => SinksAreIsolated
  <2> SUFFICES ASSUME IInv, drain.pc # "write", NEW s \in Sinks, NEW t \in Sinks
               PROVE  Got(s) = Got(t)
    BY DEF SinksAreIsolated, Got
  <2>1. Control /\ FanOut
    BY DEF IInv
  <2>2. drain.at = 1 /\ ~(s < 1) /\ ~(t < 1)
    BY <2>1, EmitterAssumption DEF Control, Sinks
  <2>3. QED
    BY <2>1, <2>2 DEF FanOut
<1>2. QED
  BY <1>1, Invariance, PTL

-----------------------------------------------------------------------------
(* The emitter implements the lossy queue, for each sink.                  *)

Coming(s) == ToWrite(s) \o queue
LoseAt(a, i) == SubSeq(a, 1, i - 1) \o SubSeq(a, i + 1, Len(a))

Loses(a, r, i) ==
  /\ Len(r) = Len(a) - 1
  /\ \A j \in 1 .. Len(r) : r[j] = IF j < i THEN a[j] ELSE a[j + 1]

LEMMA LoseLemma ==
  ASSUME NEW S, NEW a \in Seq(S), NEW r \in Seq(S), NEW i \in 1 .. Len(a), Loses(a, r, i)
  PROVE  r = LoseAt(a, i)
<1>0. Len(r) = Len(a) - 1 /\ \A j \in 1 .. Len(r) : r[j] = IF j < i THEN a[j] ELSE a[j + 1]
  BY DEF Loses
<1> DEFINE x == SubSeq(a, 1, i - 1)
           y == SubSeq(a, i + 1, Len(a))
<1>1. Len(a) \in Nat /\ Len(r) \in Nat /\ i \in Int /\ \A j \in 1 .. Len(a) : a[j] \in S
  BY <1>0, LenProperties, ElementOfSeq
<1>2. x \in Seq(S) /\ Len(x) = i - 1 /\ \A j \in 1 .. i - 1 : x[j] = a[j]
  <2>1. \A j \in 1 .. i - 1 : a[j] \in S
    BY <1>1
  <2>2. QED
    BY <1>1, <2>1, SubSeqProperties
<1>3. y \in Seq(S) /\ Len(y) = Len(a) - i /\ \A j \in 1 .. Len(a) - i : y[j] = a[i + j]
  <2>1. \A j \in i + 1 .. Len(a) : a[j] \in S
    BY <1>1
  <2>2. QED
    BY <1>1, <2>1, SubSeqProperties
<1> HIDE DEF x, y
<1>4. /\ x \o y \in Seq(S) /\ Len(x \o y) = Len(r)
      /\ \A j \in 1 .. Len(r) : (x \o y)[j] = IF j <= i - 1 THEN x[j] ELSE y[j - (i - 1)]
  BY <1>0, <1>1, <1>2, <1>3, ConcatProperties
<1>5. ASSUME NEW j \in 1 .. Len(r) PROVE r[j] = (x \o y)[j]
  <2>1. CASE j < i
    BY <1>0, <1>1, <1>2, <1>4, <2>1
  <2>2. CASE ~(j < i)
    <3>1. j - (i - 1) \in 1 .. Len(a) - i /\ i + (j - (i - 1)) = j + 1
      BY <1>0, <1>1, <2>2
    <3>2. QED
      BY <1>0, <1>1, <1>3, <1>4, <2>2, <3>1
  <2>3. QED
    BY <2>1, <2>2
<1>6. r = x \o y
  BY <1>4, <1>5, SeqEqual
<1>7. QED
  BY <1>6 DEF LoseAt, x, y

\* What is on its way to a sink, when the head of the queue is lost and when the
\* item at hand is.
LEMMA ComingLemma ==
  ASSUME NEW S, NEW w \in Seq(S), NEW q \in Seq(S), Len(w) <= 1
  PROVE  /\ w \o q \in Seq(S) /\ Items(w \o q) = Items(w) \cup Items(q)
         /\ w = <<>> => w \o q = q
         /\ \A e \in S : Append(w \o q, e) = w \o Append(q, e)
         /\ q # <<>> => \E i \in DOMAIN (w \o q) : w \o Tail(q) = LoseAt(w \o q, i)
         /\ w # <<>> => /\ w \o q # <<>> /\ Head(w \o q) = w[1] /\ Tail(w \o q) = q
                        /\ \E i \in DOMAIN (w \o q) : q = LoseAt(w \o q, i)
<1> DEFINE a == w \o q
<1>1. /\ Len(w) \in 0 .. 1 /\ DOMAIN w = 1 .. Len(w) /\ Len(q) \in Nat /\ DOMAIN q = 1 .. Len(q)
      /\ w # <<>> => Len(w) = 1
  <2>1. Len(w) \in Nat /\ DOMAIN w = 1 .. Len(w) /\ Len(q) \in Nat /\ DOMAIN q = 1 .. Len(q)
    BY LenProperties
  <2>2. w # <<>> => Len(w) \in Nat \ {0}
    BY EmptySeq
  <2>3. QED
    BY <2>1, <2>2
<1>2. /\ a \in Seq(S) /\ Len(a) = Len(w) + Len(q)
      /\ \A i \in 1 .. Len(w) + Len(q) : a[i] = IF i <= Len(w) THEN w[i] ELSE q[i - Len(w)]
  BY ConcatProperties
<1>3. DOMAIN a = 1 .. Len(w) + Len(q)
  BY <1>2, LenProperties
<1> HIDE DEF a
<1>4. Items(a) = Items(w) \cup Items(q)
  <2>1. ASSUME NEW i \in DOMAIN a PROVE a[i] \in Items(w) \cup Items(q)
    <3>1. CASE i <= Len(w)
      BY <1>1, <1>2, <1>3, <3>1 DEF Items
    <3>2. CASE ~(i <= Len(w))
      <4>1. i - Len(w) \in DOMAIN q /\ a[i] = q[i - Len(w)]
        BY <1>1, <1>2, <1>3, <3>2
      <4>2. QED
        BY <4>1 DEF Items
    <3>3. QED
      BY <3>1, <3>2
  <2>2. \A i \in DOMAIN w : i \in DOMAIN a /\ a[i] = w[i]
    BY <1>1, <1>2, <1>3
  <2>3. \A i \in DOMAIN q : i + Len(w) \in DOMAIN a /\ a[i + Len(w)] = q[i]
    BY <1>1, <1>2, <1>3
  <2>4. QED
    BY <2>1, <2>2, <2>3 DEF Items
<1>5. w = <<>> => a = q
  BY ConcatEmptySeq DEF a
<1>6. ASSUME NEW e \in S PROVE Append(a, e) = w \o Append(q, e)
  <2>1. Append(a, e) = a \o <<e>> /\ Append(q, e) = q \o <<e>> /\ <<e>> \in Seq(S)
    BY <1>2, AppendIsConcat
  <2>2. QED
    BY <2>1, ConcatAssociative DEF a
<1>7. ASSUME q # <<>> PROVE \E i \in DOMAIN a : w \o Tail(q) = LoseAt(a, i)
  <2> DEFINE t == Tail(q)
             r == w \o t
             i == Len(w) + 1
  <2>1. t \in Seq(S) /\ Len(t) = Len(q) - 1 /\ Len(q) > 0 /\ \A j \in 1 .. Len(q) - 1 : t[j] = q[j + 1]
    BY <1>7, TailLemma
  <2> HIDE DEF t
  <2>2. /\ r \in Seq(S) /\ Len(r) = Len(w) + Len(t)
        /\ \A j \in 1 .. Len(w) + Len(t) : r[j] = IF j <= Len(w) THEN w[j] ELSE t[j - Len(w)]
    BY <2>1, ConcatProperties
  <2> HIDE DEF r
  <2>3. i \in 1 .. Len(a) /\ Len(r) = Len(a) - 1
    BY <1>1, <1>2, <2>1, <2>2
  <2>4. ASSUME NEW j \in 1 .. Len(r) PROVE r[j] = IF j < i THEN a[j] ELSE a[j + 1]
    <3>1. CASE j < i
      BY <1>1, <1>2, <2>1, <2>2, <3>1
    <3>2. CASE ~(j < i)
      <4>1. j - Len(w) \in 1 .. Len(q) - 1 /\ j + 1 \in 1 .. Len(w) + Len(q) /\ (j - Len(w)) + 1 = (j + 1) - Len(w)
        BY <1>1, <2>1, <2>2, <3>2
      <4>2. r[j] = t[j - Len(w)] /\ a[j + 1] = q[(j + 1) - Len(w)]
        BY <1>1, <1>2, <2>1, <2>2, <3>2, <4>1
      <4>3. t[j - Len(w)] = q[(j - Len(w)) + 1]
        BY <2>1, <4>1
      <4>4. QED
        BY <3>2, <4>1, <4>2, <4>3
    <3>3. QED
      BY <3>1, <3>2
  <2> HIDE DEF i
  <2>5. r = LoseAt(a, i)
    <3>1. Loses(a, r, i)
      BY <2>3, <2>4 DEF Loses
    <3>2. a \in Seq(S) /\ r \in Seq(S)
      BY <1>2, <2>2
    <3>3. QED
      BY <2>3, <3>1, <3>2, LoseLemma
  <2>6. QED
    BY <1>2, <1>3, <2>3, <2>5 DEF r, t
<1>8. ASSUME w # <<>>
      PROVE  a # <<>> /\ Head(a) = w[1] /\ Tail(a) = q /\ \E i \in DOMAIN a : q = LoseAt(a, i)
  <2>1. Len(w) = 1 /\ 1 \in DOMAIN a /\ a[1] = w[1]
    BY <1>1, <1>2, <1>3, <1>8
  <2>2. a # <<>>
    BY <1>1, <1>2, <2>1, EmptySeq
  <2>3. /\ Tail(a) \in Seq(S) /\ Len(Tail(a)) = Len(q) /\ Head(a) = a[1]
        /\ \A j \in 1 .. Len(q) : Tail(a)[j] = a[j + 1]
    BY <1>1, <1>2, <2>1, <2>2, TailLemma
  <2>4. \A j \in 1 .. Len(q) : Tail(a)[j] = q[j]
    BY <1>1, <1>2, <2>1, <2>3
  <2>5. Tail(a) = q
    BY <2>3, <2>4, SeqEqual
  <2>6. \A j \in 1 .. Len(q) : q[j] = a[j + 1] /\ ~(j < 1)
    BY <2>3, <2>4
  <2>7. Loses(a, q, 1) /\ 1 \in 1 .. Len(a)
    BY <1>1, <1>2, <2>1, <2>6 DEF Loses
  <2>8. q = LoseAt(a, 1)
    BY <1>2, <2>7, LoseLemma
  <2>9. QED
    BY <2>1, <2>2, <2>3, <2>5, <2>8
<1>9. QED
  BY <1>2, <1>4, <1>5, <1>6, <1>7, <1>8 DEF a

LEMMA HeadTailConcat ==
  ASSUME NEW S, NEW q \in Seq(S), q # <<>>
  PROVE  <<Head(q)>> \o Tail(q) = q
<1> DEFINE w == <<Head(q)>>
           t == Tail(q)
<1>1. /\ Head(q) \in S /\ Head(q) = q[1] /\ t \in Seq(S) /\ Len(t) = Len(q) - 1
      /\ \A i \in 1 .. Len(q) - 1 : t[i] = q[i + 1]
  BY TailLemma
<1>2. w \in Seq(S) /\ Len(w) = 1 /\ w[1] = q[1] /\ Len(q) \in Nat
  BY <1>1, LenProperties
<1> HIDE DEF w, t
<1>3. /\ w \o t \in Seq(S) /\ Len(w \o t) = Len(q)
      /\ \A i \in 1 .. Len(q) : (w \o t)[i] = IF i <= 1 THEN w[i] ELSE t[i - 1]
  <2>1. /\ w \o t \in Seq(S) /\ Len(w \o t) = Len(w) + Len(t)
        /\ \A i \in 1 .. Len(w) + Len(t) :
             (w \o t)[i] = IF i <= Len(w) THEN w[i] ELSE t[i - Len(w)]
    <3>1. w \in Seq(S) /\ t \in Seq(S)
      BY <1>1, <1>2
    <3>2. QED
      BY <3>1, ConcatProperties
  <2>2. Len(w) + Len(t) = Len(q)
    BY <1>1, <1>2
  <2>3. QED
    BY <1>2, <2>1, <2>2
<1>4. ASSUME NEW i \in 1 .. Len(q) PROVE (w \o t)[i] = q[i]
  <2>1. CASE i = 1
    BY <1>2, <1>3, <2>1
  <2>2. CASE i # 1
    <3>1. i - 1 \in 1 .. Len(q) - 1 /\ (i - 1) + 1 = i
      BY <1>2, <2>2
    <3>2. QED
      BY <1>1, <1>3, <2>2, <3>1
  <2>3. QED
    BY <2>1, <2>2
<1>5. QED
  BY <1>3, <1>4, SeqEqual DEF w, t

LEMMA ComingFacts ==
  ASSUME TypeOK, Control, NEW s \in Sinks
  PROVE  /\ ToWrite(s) \in Seq(Item) /\ Len(ToWrite(s)) <= 1 /\ queue \in Seq(Item)
         /\ Items(Coming(s)) = Items(ToWrite(s)) \cup Items(queue)
<1>1. ToWrite(s) \in Seq(Item) /\ Len(ToWrite(s)) <= 1
  BY DEF ToWrite, TypeOK
<1>2. queue \in Seq(Item)
  BY DEF TypeOK
<1>3. QED
  BY <1>1, <1>2, ComingLemma DEF Coming

\* What a step does to what is coming, and to what the sink has got, is what a
\* step of the lossy queue does.
AcceptStep(s) ==
  \E e \in Item :
    /\ e \notin Items(Coming(s)) /\ e \notin Items(delivered[s])
    /\ Coming(s)' = Append(Coming(s), e) /\ delivered'[s] = delivered[s]
DeliverStep(s) ==
  /\ Coming(s) # <<>> /\ delivered'[s] = Append(delivered[s], Head(Coming(s)))
  /\ Coming(s)' = Tail(Coming(s))
LoseStep(s) ==
  \E i \in DOMAIN Coming(s) : Coming(s)' = LoseAt(Coming(s), i) /\ delivered'[s] = delivered[s]
StillStep(s) == Coming(s)' = Coming(s) /\ delivered'[s] = delivered[s]
FifoStep(s) == AcceptStep(s) \/ DeliverStep(s) \/ LoseStep(s) \/ StillStep(s)

LEMMA FifoStepLemma == ASSUME NEW s \in Sinks, FifoStep(s) PROVE Fifo(s)!Step
<1>1. CASE AcceptStep(s)
  <2>1. PICK e \in Item :
          /\ e \notin Items(Coming(s)) /\ e \notin Items(delivered[s])
          /\ Coming(s)' = Append(Coming(s), e) /\ delivered'[s] = delivered[s]
    BY <1>1 DEF AcceptStep
  <2>2. Fifo(s)!Accept(e)
    BY <2>1 DEF Fifo!Accept, Coming, Items
  <2>3. QED
    BY <2>2 DEF Fifo!Step, Fifo!Next
<1>2. CASE DeliverStep(s)
  BY <1>2 DEF DeliverStep, Fifo!Step, Fifo!Next, Fifo!Deliver, Coming
<1>3. CASE LoseStep(s)
  <2>1. PICK i \in DOMAIN Coming(s) : Coming(s)' = LoseAt(Coming(s), i) /\ delivered'[s] = delivered[s]
    BY <1>3 DEF LoseStep
  <2>2. Fifo(s)!Lose(i)
    BY <2>1 DEF Fifo!Lose, Coming, LoseAt
  <2>3. QED
    BY <2>1, <2>2 DEF Fifo!Step, Fifo!Next, Coming
<1>4. CASE StillStep(s)
  BY <1>4 DEF StillStep, Fifo!Step, Coming
<1>5. QED
  BY <1>1, <1>2, <1>3, <1>4 DEF FifoStep

LEMMA RefineLemma ==
  ASSUME TypeOK, Control, Apart, Unique, [Next]_vars, NEW s \in Sinks
  PROVE  FifoStep(s)
<1>1. /\ ToWrite(s) \in Seq(Item) /\ Len(ToWrite(s)) <= 1 /\ queue \in Seq(Item)
      /\ Items(Coming(s)) = Items(ToWrite(s)) \cup Items(queue)
      /\ Sentinel \in Item /\ Sentinel \notin Event /\ Event \subseteq Item
  BY ComingFacts, EmitterAssumption DEF Item
<1>2. UNCHANGED drain => ToWrite(s)' = ToWrite(s)
  BY DEF ToWrite
<1>3. ASSUME UNCHANGED <<queue, delivered>>, ToWrite(s)' = ToWrite(s) PROVE FifoStep(s)
  BY <1>3 DEF FifoStep, StillStep, Coming
<1>4. ASSUME NEW e \in Item, queue' = Append(queue, e), UNCHANGED <<drain, delivered>>,
             e \notin Items(ToWrite(s)), e \notin Items(queue), e \notin Items(delivered[s])
      PROVE  FifoStep(s)
  <2>1. Coming(s)' = Append(Coming(s), e)
    BY <1>1, <1>2, <1>4, ComingLemma, SMTT(30) DEF Coming
  <2>2. QED
    BY <1>1, <1>4, <2>1 DEF FifoStep, AcceptStep
<1>5. ASSUME NEW p \in Producers, ~At(p, "idle"), Finish(p), queue' = Append(queue, producer[p].event),
             UNCHANGED <<drain, delivered>>
      PROVE  FifoStep(s)
  <2>1. producer[p].event \in Held /\ producer[p].event \in Item
    BY <1>1, <1>5, FinishLemma
  <2>2. /\ producer[p].event \notin Items(ToWrite(s)) /\ producer[p].event \notin Items(queue)
        /\ producer[p].event \notin Items(delivered[s])
    BY <2>1 DEF Apart, Disjoint
  <2>3. QED
    BY <1>4, <1>5, <2>1, <2>2
<1>6. ASSUME queue # <<>>, queue' = Tail(queue), ToWrite(s)' = ToWrite(s), UNCHANGED delivered
      PROVE  FifoStep(s)
  <2>1. \E i \in DOMAIN Coming(s) : Coming(s)' = LoseAt(Coming(s), i)
    <3>1. \E i \in DOMAIN (ToWrite(s) \o queue) : ToWrite(s) \o Tail(queue) = LoseAt(ToWrite(s) \o queue, i)
      <4>1. ToWrite(s) \in Seq(Item) /\ queue \in Seq(Item) /\ Len(ToWrite(s)) <= 1 /\ queue # <<>>
        BY <1>1, <1>6
      <4>2. ASSUME NEW w \in Seq(Item), NEW q \in Seq(Item), Len(w) <= 1, q # <<>>
            PROVE  \E i \in DOMAIN (w \o q) : w \o Tail(q) = LoseAt(w \o q, i)
        BY <4>2, ComingLemma, SMTT(30)
      <4>3. QED
        BY <4>1, <4>2
    <3>2. Coming(s)' = ToWrite(s) \o Tail(queue)
      BY <1>6 DEF Coming
    <3>3. QED
      BY <3>1, <3>2 DEF Coming
  <2>2. QED
    BY <1>6, <2>1 DEF FifoStep, LoseStep
<1>7. ASSUME ToWrite(s) # <<>>, ToWrite(s)' = <<>>, UNCHANGED queue, delivered'[s] = delivered[s]
      PROVE  FifoStep(s)
  <2>1. Coming(s)' = queue
    BY <1>1, <1>7, ConcatEmptySeq DEF Coming
  <2>2. \E i \in DOMAIN Coming(s) : queue = LoseAt(Coming(s), i)
    BY <1>1, <1>7, ComingLemma DEF Coming
  <2>3. QED
    BY <1>7, <2>1, <2>2 DEF FifoStep, LoseStep
<1>8. ASSUME NEW p \in Producers, Enqueue(p) PROVE FifoStep(s)
  <2>1. CASE Number(p) \/ PutFindsFull(p)
    BY <1>2, <1>3, <2>1 DEF Number, PutFindsFull, ends
  <2>2. CASE Put(p)
    BY <1>5, <2>2 DEF Put, At, ends
  <2>3. CASE DropOldest(p)
    BY <1>2, <1>3, <1>6, <2>3 DEF DropOldest
  <2>4. CASE PutAgain(p)
    BY <1>2, <1>3, <1>5, <2>4 DEF PutAgain, At
  <2>5. QED
    BY <1>8, <2>1, <2>2, <2>3, <2>4 DEF Enqueue
<1>9. CASE Take
  <2>1. queue # <<>> /\ queue' = Tail(queue) /\ drain.pc = "get" /\ UNCHANGED delivered
    BY <1>9 DEF Take, ends
  <2>2. ToWrite(s) = <<>>
    BY <2>1 DEF ToWrite
  <2>3. CASE Head(queue) = Sentinel
    <3>1. ToWrite(s)' = <<>>
      BY <1>9, <2>3 DEF Take, ToWrite, TypeOK
    <3>2. QED
      BY <1>6, <2>1, <2>2, <3>1
  <2>4. CASE Head(queue) # Sentinel
    <3>1. ToWrite(s)' = <<Head(queue)>>
      BY <1>9, <2>4 DEF Take, ToWrite
    <3>2. Coming(s)' = <<Head(queue)>> \o Tail(queue) /\ Coming(s) = queue
      BY <1>1, <2>1, <2>2, <3>1, ConcatEmptySeq DEF Coming
    <3>3. <<Head(queue)>> \o Tail(queue) = queue
      BY <1>1, <2>1, HeadTailConcat
    <3>4. QED
      BY <2>1, <3>2, <3>3 DEF FifoStep, StillStep
  <2>5. QED
    BY <2>3, <2>4
<1>10. CASE BeginWrite
  <2>1. /\ drain.pc = "deliver" /\ drain.at = 1 /\ drain'.pc = "write"
        /\ drain'.item = drain.item /\ drain'.at = drain.at /\ UNCHANGED <<queue, delivered>>
    BY <1>10 DEF BeginWrite, TypeOK, Control, ends
  <2>2. ToWrite(s)' = ToWrite(s)
    BY <2>1 DEF ToWrite, Sinks
  <2>3. QED
    BY <1>3, <2>1, <2>2
<1>11. CASE SinkIsGone
  <2>1. drain.pc = "deliver" /\ drain'.pc = "dead" /\ UNCHANGED <<queue, delivered>>
    BY <1>11 DEF SinkIsGone
  <2>2. ToWrite(s) # <<>> /\ ToWrite(s)' = <<>>
    BY <2>1 DEF ToWrite
  <2>3. QED
    BY <1>7, <2>1, <2>2
<1>12. ASSUME drain.pc = "write", NextSink
       PROVE  /\ drain.at \in Sinks /\ drain.item \in Event
              /\ ToWrite(s)' = IF s = drain.at THEN <<>> ELSE ToWrite(s)
              /\ s = drain.at => ToWrite(s) = <<drain.item>>
  BY <1>12, NextSinkLemma
<1>13. CASE WriteSucceeds
  <2>1. /\ drain.pc = "write" /\ NextSink /\ UNCHANGED queue
        /\ delivered' = [delivered EXCEPT ![drain.at] = Append(@, drain.item)]
    BY <1>13 DEF WriteSucceeds
  <2>2. CASE s # drain.at
    <3>1. delivered'[s] = delivered[s]
      BY <2>1, <2>2 DEF TypeOK
    <3>2. ToWrite(s)' = ToWrite(s)
      BY <1>12, <2>1, <2>2
    <3>3. QED
      BY <2>1, <3>1, <3>2 DEF FifoStep, StillStep, Coming
  <2>3. CASE s = drain.at
    <3>1. delivered'[s] = Append(delivered[s], drain.item)
      BY <2>1, <2>3 DEF TypeOK
    <3>2. ToWrite(s) = <<drain.item>> /\ ToWrite(s)' = <<>>
      BY <1>12, <2>1, <2>3
    <3>3. ToWrite(s) # <<>> /\ ToWrite(s)[1] = drain.item
      BY <3>2
    <3>4. Coming(s) # <<>> /\ Head(Coming(s)) = drain.item /\ Tail(Coming(s)) = queue
      BY <1>1, <3>3, ComingLemma DEF Coming
    <3>5. Coming(s)' = queue
      BY <1>1, <2>1, <3>2, ConcatEmptySeq DEF Coming
    <3>6. QED
      BY <3>1, <3>4, <3>5 DEF FifoStep, DeliverStep
  <2>4. QED
    BY <2>2, <2>3
<1>14. CASE WriteFails
  <2>1. drain.pc = "write" /\ NextSink /\ UNCHANGED <<queue, delivered>>
    BY <1>14 DEF WriteFails
  <2>2. CASE s # drain.at
    BY <1>3, <1>12, <2>1, <2>2
  <2>3. CASE s = drain.at
    BY <1>7, <1>12, <2>1, <2>3, SMTT(30)
  <2>4. QED
    BY <2>2, <2>3
<1>15. CASE PutSentinel
  <2>1. /\ stopper.pc = "put" /\ queue' = Append(queue, Sentinel) /\ UNCHANGED <<drain, delivered>>
    BY <1>15 DEF PutSentinel, ends
  <2>2. Sentinel \notin Items(queue)
    BY <2>1 DEF Control
  <2>3. Sentinel \notin Items(ToWrite(s)) /\ Sentinel \notin Items(delivered[s])
    BY <1>1, PlacesLemma DEF Got
  <2>4. QED
    BY <1>1, <1>4, <2>1, <2>2, <2>3
<1>16. CASE CallStop \/ PutSentinelTimesOut \/ Join \/ JoinTimesOut \/ CloseSink \/ DropSink
  BY <1>2, <1>3, <1>16 DEF CallStop, PutSentinelTimesOut, Join, JoinTimesOut, CloseSink, DropSink, ends
<1>17. CASE UNCHANGED vars
  BY <1>2, <1>3, <1>17 DEF vars, ends
<1>18. QED
  BY <1>8, <1>9, <1>10, <1>11, <1>13, <1>14, <1>15, <1>16, <1>17 DEF Next, Drain, Stop

\* To each sink the emitter delivers in the order of acceptance, every event at most
\* once: it implements the lossy queue.
THEOREM Refinement == Spec => DeliversInOrder
<1>1. Init => \A s \in Sinks : Fifo(s)!Init
  <2> SUFFICES ASSUME Init, NEW s \in Sinks PROVE Fifo(s)!Init
    OBVIOUS
  <2>1. ToWrite(s) = <<>> /\ queue = <<>> /\ delivered[s] = <<>>
    BY DEF Init, ToWrite
  <2>2. ToWrite(s) \o queue = <<>>
    BY <2>1
  <2>3. QED
    BY <2>1, <2>2 DEF Fifo!Init
<1>2. IInv /\ [Next]_vars => [\A s \in Sinks : Fifo(s)!Step]_vars
  <2> SUFFICES ASSUME IInv, [Next]_vars, NEW s \in Sinks PROVE Fifo(s)!Step
    OBVIOUS
  <2>1. FifoStep(s)
    BY RefineLemma DEF IInv
  <2>2. QED
    BY <2>1, FifoStepLemma
<1>3. QED
  BY <1>1, <1>2, Invariance, PTL DEF Spec, DeliversInOrder

-----------------------------------------------------------------------------
(* What a reader of a sink may rely on.                                     *)

\* The events of one thread arrive in the order of their numbers.
ThreadsKeepTheirOrder ==
  \A s \in Sinks : \A i, j \in DOMAIN delivered[s] :
    i < j /\ delivered[s][i].src = delivered[s][j].src => delivered[s][i].seq < delivered[s][j].seq

\* What the drain thread has yet to take.
Untaken == (Items(queue) \cup Held) \ {Sentinel}

\* What a sink got is older than what it has yet to get.
InOrder ==
  /\ drain.item # Sentinel => \A f \in Untaken : Older(drain.item, f)
  /\ \A s \in Sinks :
       /\ \A i, j \in DOMAIN delivered[s] : i < j => Older(delivered[s][i], delivered[s][j])
       /\ \A e \in Items(delivered[s]), f \in Untaken \cup Items(ToWrite(s)) : Older(e, f)

\* What is taken is older than what stays behind.
LEMMA HeadIsOldestLemma ==
  ASSUME IInv, queue # <<>>, queue' = Tail(queue), UNCHANGED producer
  PROVE  /\ Untaken' \subseteq Untaken
         /\ Head(queue) # Sentinel => Head(queue) \in Untaken /\ \A f \in Untaken' : Older(Head(queue), f)
<1>1. /\ queue \in Seq(Item) /\ DOMAIN queue = 1 .. Len(queue) /\ Len(queue) \in Nat
  BY ItemsType DEF IInv, TypeOK
<1>2. /\ Head(queue) = queue[1] /\ Len(queue) > 0
      /\ DOMAIN queue' = 1 .. Len(queue) - 1
      /\ \A i \in 1 .. Len(queue) - 1 : queue'[i] = queue[i + 1]
      /\ Items(queue) = {Head(queue)} \cup Items(queue')
  BY <1>1, TailLemma
<1>3. Held' = Held
  BY StillLemma
<1>4. ASSUME Head(queue) # Sentinel, NEW f \in Items(queue') \ {Sentinel} PROVE Older(Head(queue), f)
  <2>1. PICK i \in DOMAIN queue' : queue'[i] = f
    BY DEF Items
  <2>2. i + 1 \in DOMAIN queue /\ 1 \in DOMAIN queue /\ 1 < i + 1 /\ queue[i + 1] = f
    BY <1>1, <1>2, <2>1
  <2>3. QED
    BY <1>2, <1>4, <2>2 DEF IInv, Order
<1>5. ASSUME Head(queue) # Sentinel, NEW f \in Held PROVE Older(Head(queue), f)
  BY <1>2, <1>5 DEF IInv, Order
<1>6. QED
  BY <1>2, <1>3, <1>4, <1>5 DEF Untaken

\* Every step keeps the order.
LEMMA InOrderLemma == ASSUME IInv, InOrder, [Next]_vars PROVE InOrder'
<1>0. /\ TypeOK /\ Control /\ Unique
      /\ Sentinel \notin Event
      /\ \A s \in Sinks : delivered[s] \in Seq(Event)
  BY EmitterAssumption DEF IInv, TypeOK
<1>1. ASSUME Untaken' \subseteq Untaken, UNCHANGED <<drain, delivered>> PROVE InOrder'
  BY <1>1 DEF InOrder, ToWrite
<1>2. ASSUME NEW p \in Producers, Number(p) PROVE InOrder'
  <2> DEFINE x == [src |-> p, seq |-> seq]
  <2>1. Held' = Held \cup {x} /\ UNCHANGED <<queue, drain, delivered>>
    BY <1>0, <1>2, NumberLemma DEF Number, ends
  <2>2. Untaken' \subseteq Untaken \cup {x}
    BY <2>1 DEF Untaken
  <2>3. \A e \in Every \ {Sentinel} : Older(e, x)
    BY <1>0 DEF Unique, Older
  <2> HIDE DEF x
  <2>4. drain.item # Sentinel => \A f \in Untaken' : Older(drain.item, f)
    BY <2>2, <2>3 DEF InOrder, Every
  <2>5. ASSUME NEW s \in Sinks, NEW e \in Items(delivered[s]), NEW f \in Untaken' \cup Items(ToWrite(s))
        PROVE  Older(e, f)
    <3>1. e \in Every \ {Sentinel}
      BY <1>0, PlacesLemma DEF Got
    <3>2. QED
      BY <2>2, <2>3, <2>5, <3>1 DEF InOrder
  <2>6. QED
    BY <2>1, <2>4, <2>5 DEF InOrder, ToWrite
<1>3. ASSUME NEW p \in Producers, ~At(p, "idle"), Finish(p),
             UNCHANGED queue \/ queue' = Append(queue, producer[p].event),
             UNCHANGED <<drain, delivered>>
      PROVE  InOrder'
  <2> DEFINE x == producer[p].event
  <2>1. x \in Held /\ x \in Event /\ Held' \subseteq Held
    BY <1>0, <1>3, FinishLemma
  <2>2. Items(queue') \subseteq Items(queue) \cup {x}
    <3>1. queue \in Seq(Item) /\ x \in Item
      BY <2>1 DEF IInv, TypeOK, Item
    <3>2. CASE UNCHANGED queue
      BY <3>2
    <3>3. CASE queue' = Append(queue, x)
      BY <3>1, <3>3, AppendLemma
    <3>4. QED
      BY <1>3, <3>2, <3>3
  <2> HIDE DEF x
  <2>3. Untaken' \subseteq Untaken
    BY <1>0, <2>1, <2>2 DEF Untaken
  <2>4. QED
    BY <1>1, <1>3, <2>3
<1>4. ASSUME NEW p \in Producers, Put(p) PROVE InOrder'
  BY <1>3, <1>4 DEF Put, At, ends
<1>5. ASSUME NEW p \in Producers, PutFindsFull(p) PROVE InOrder'
  <2>1. Held' = Held /\ UNCHANGED <<queue, drain, delivered>>
    BY <1>0, <1>5, AdvanceLemma DEF PutFindsFull, At, ends
  <2>2. QED
    BY <1>1, <2>1 DEF Untaken
<1>6. ASSUME NEW p \in Producers, DropOldest(p) PROVE InOrder'
  <2>1. Held' = Held /\ UNCHANGED <<drain, delivered>> /\ queue' \in {queue, Tail(queue)}
        /\ (queue = <<>> => queue' = queue)
    BY <1>0, <1>6, AdvanceLemma DEF DropOldest, At
  <2>2. Items(queue') \subseteq Items(queue)
    <3>1. queue \in Seq(Item)
      BY DEF IInv, TypeOK
    <3>2. CASE queue = <<>>
      BY <2>1, <3>2
    <3>3. CASE queue # <<>>
      <4>1. Items(Tail(queue)) \subseteq Items(queue)
        BY <3>1, <3>3, TailLemma
      <4>2. QED
        BY <2>1, <4>1
    <3>4. QED
      BY <3>2, <3>3
  <2>3. QED
    BY <1>1, <2>1, <2>2 DEF Untaken
<1>7. ASSUME NEW p \in Producers, PutAgain(p) PROVE InOrder'
  BY <1>3, <1>7 DEF PutAgain, At
<1>8. CASE Take
  <2>1. /\ queue # <<>> /\ queue' = Tail(queue) /\ UNCHANGED <<producer, delivered>>
        /\ drain.pc = "get"
    BY <1>8 DEF Take, ends
  <2>2. drain'.item = Head(queue) /\ \A s \in Sinks : Items(ToWrite(s))' \subseteq {Head(queue)} \ {Sentinel}
    <3>1. CASE Head(queue) = Sentinel
      <4>1. drain'.pc = "done" /\ drain'.item = Sentinel
        BY <1>0, <1>8, <3>1 DEF Take, TypeOK, Control
      <4>2. QED
        BY <3>1, <4>1 DEF ToWrite, Items
    <3>2. CASE Head(queue) # Sentinel
      <4>1. drain' = [pc |-> "deliver", item |-> Head(queue), at |-> 1]
        BY <1>8, <3>2 DEF Take
      <4>2. QED
        BY <3>2, <4>1 DEF ToWrite, Items
    <3>3. QED
      BY <3>1, <3>2
  <2>3. /\ Untaken' \subseteq Untaken
        /\ Head(queue) # Sentinel => Head(queue) \in Untaken /\ \A f \in Untaken' : Older(Head(queue), f)
    BY <2>1, HeadIsOldestLemma
  <2>4. QED
    BY <2>1, <2>2, <2>3 DEF InOrder
<1>9. ASSUME UNCHANGED <<queue, producer>> PROVE Untaken' = Untaken
  BY <1>9, StillLemma DEF Untaken
<1>10. CASE BeginWrite
  <2>1. UNCHANGED <<queue, producer, delivered>> /\ drain'.item = drain.item
        /\ \A s \in Sinks : Items(ToWrite(s))' = Items(ToWrite(s))
    BY <1>0, <1>10, EmitterAssumption DEF BeginWrite, ends, TypeOK, Control, ToWrite, Sinks
  <2>2. QED
    BY <1>9, <2>1 DEF InOrder
<1>11. CASE SinkIsGone
  <2>1. UNCHANGED <<queue, producer, delivered>> /\ drain'.item = Sentinel
        /\ \A s \in Sinks : Items(ToWrite(s))' = {}
    BY <1>11 DEF SinkIsGone, ToWrite, Items
  <2>2. QED
    BY <1>9, <2>1 DEF InOrder
<1>12. CASE WriteSucceeds \/ WriteFails
  <2>1. drain.pc = "write" /\ NextSink /\ UNCHANGED <<queue, producer>>
    BY <1>12 DEF WriteSucceeds, WriteFails
  <2>2. /\ drain.at \in Sinks /\ drain.item \in Event /\ drain'.item \in {drain.item, Sentinel}
        /\ Items(ToWrite(drain.at)) = {drain.item}
        /\ \A s \in Sinks : Items(ToWrite(s)') = IF s = drain.at THEN {} ELSE Items(ToWrite(s))
    BY <1>0, <2>1, NextSinkLemma
  <2>3. Untaken' = Untaken /\ (drain'.item # Sentinel => \A f \in Untaken' : Older(drain'.item, f))
    BY <1>9, <2>1, <2>2 DEF InOrder
  <2>4. \A s \in Sinks : s # drain.at => delivered'[s] = delivered[s]
    BY <1>0, <1>12 DEF WriteSucceeds, WriteFails, TypeOK
  <2>5. CASE UNCHANGED delivered
    BY <2>2, <2>3, <2>5 DEF InOrder
  <2>6. CASE WriteSucceeds
    <3> DEFINE s == drain.at
               e == drain.item
               D == delivered[s]
    <3>1. D \in Seq(Event) /\ e \in Event /\ s \in Sinks
      BY <1>0, <2>2
    <3>2. delivered'[s] = Append(D, e)
      <4>1. delivered' = [delivered EXCEPT ![drain.at] = Append(@, drain.item)]
        BY <2>6 DEF WriteSucceeds
      <4>2. delivered = [t \in Sinks |-> delivered[t]]
        BY <1>0 DEF TypeOK
      <4>3. QED
        BY <2>2, <4>1, <4>2
    <3>3. /\ \A i, j \in DOMAIN D : i < j => Older(D[i], D[j])
          /\ \A d \in Items(D) : Older(d, e)
          /\ \A d \in Items(D), f \in Untaken : Older(d, f)
          /\ \A f \in Untaken : Older(e, f)
      BY <1>0, <2>2 DEF InOrder
    <3> HIDE DEF s, e, D
    <3>4. /\ DOMAIN Append(D, e) = 1 .. Len(D) + 1 /\ DOMAIN D = 1 .. Len(D) /\ Len(D) \in Nat
          /\ \A i \in 1 .. Len(D) : Append(D, e)[i] = D[i] /\ D[i] \in Items(D)
          /\ Append(D, e)[Len(D) + 1] = e
          /\ Items(Append(D, e)) = Items(D) \cup {e}
      BY <3>1, AppendLemma, ItemsType
    <3>5. ASSUME NEW i \in DOMAIN Append(D, e), NEW j \in DOMAIN Append(D, e), i < j
          PROVE  Older(Append(D, e)[i], Append(D, e)[j])
      <4>1. i \in 1 .. Len(D) /\ (j \in 1 .. Len(D) \/ j = Len(D) + 1)
        BY <3>4, <3>5
      <4>2. CASE j \in 1 .. Len(D)
        BY <3>3, <3>4, <3>5, <4>1, <4>2
      <4>3. CASE j = Len(D) + 1
        BY <3>3, <3>4, <4>1, <4>3
      <4>4. QED
        BY <4>1, <4>2, <4>3
    <3>6. \A d \in Items(Append(D, e)), f \in Untaken : Older(d, f)
      BY <3>3, <3>4
    <3>7. ASSUME NEW t \in Sinks
          PROVE  /\ \A i, j \in DOMAIN delivered'[t] : i < j => Older(delivered'[t][i], delivered'[t][j])
                 /\ \A d \in Items(delivered'[t]), f \in Untaken' \cup Items(ToWrite(t)') : Older(d, f)
      <4>1. CASE t = s
        BY <2>2, <2>3, <3>2, <3>5, <3>6, <4>1 DEF s
      <4>2. CASE t # s
        BY <2>2, <2>3, <2>4, <4>2 DEF InOrder, s
      <4>3. QED
        BY <4>1, <4>2
    <3>8. QED
      BY <2>3, <3>7 DEF InOrder
  <2>7. QED
    BY <1>12, <2>5, <2>6 DEF WriteFails
<1>13. CASE PutSentinel
  <2>1. queue' = Append(queue, Sentinel) /\ UNCHANGED <<producer, drain, delivered>>
    BY <1>13 DEF PutSentinel, ends
  <2>2. Items(queue') = Items(queue) \cup {Sentinel} /\ Held' = Held
    BY <1>0, <2>1, AppendLemma, StillLemma DEF TypeOK, Item
  <2>3. QED
    BY <1>1, <2>1, <2>2 DEF Untaken
<1>14. CASE CallStop \/ PutSentinelTimesOut \/ Join \/ JoinTimesOut \/ CloseSink \/ DropSink
  BY <1>1, <1>9, <1>14 DEF CallStop, PutSentinelTimesOut, Join, JoinTimesOut, CloseSink, DropSink, ends
<1>15. CASE UNCHANGED vars
  BY <1>1, <1>9, <1>15 DEF vars, ends
<1>16. QED
  BY <1>2, <1>4, <1>5, <1>6, <1>7, <1>8, <1>10, <1>11, <1>12, <1>13, <1>14, <1>15
  DEF Next, Enqueue, Drain, Stop

\* Whatever overflows, fails or is lost, and however the threads race for the queue:
\* each sink sees the events of one thread in the order in which it numbered them.
THEOREM EventsStayInOrder == Spec => []ThreadsKeepTheirOrder
<1>1. Init => InOrder
  <2> SUFFICES ASSUME Init PROVE InOrder
    OBVIOUS
  <2>1. drain.item = Sentinel /\ \A s \in Sinks : delivered[s] = <<>>
    BY DEF Init
  <2>2. QED
    BY <2>1 DEF InOrder, Items
<1>2. IInv /\ InOrder /\ [Next]_vars => InOrder'
  BY InOrderLemma
<1>3. InOrder => ThreadsKeepTheirOrder
  BY DEF InOrder, ThreadsKeepTheirOrder, Older
<1>4. QED
  BY <1>1, <1>2, <1>3, Invariance, PTL DEF Spec

-----------------------------------------------------------------------------
(* Liveness, given that an action is enabled when its guard is true: the     *)
(* prover cannot reason about ENABLED, and TLC can.                          *)

ThreadsCanStep ==
  /\ ~LockFree => ENABLED <<HolderStep>>_vars
  /\ \A p \in Producers : At(p, "put") /\ LockFree => ENABLED <<Acquire(p)>>_vars
  /\ stopper.pc \in {"put", "join", "drop"} => ENABLED <<StopStep>>_vars
  /\ stopper.pc = "close" /\ ~FileIsWritten => ENABLED <<StopStep>>_vars

\* What is asked of the lock beyond the fairness of the specification, where the others
\* may run out of events: that it is given to a thread that asks again and again.
LockIsGiven(p) == SF_vars(Acquire(p))

\* stop() goes from its put to its join, to the sink, and returns.
LEMMA StopStepsLemma ==
  ASSUME IInv
  PROVE  /\ [Next]_vars => /\ stopper.pc = "put" => stopper'.pc \in {"put", "join"}
                           /\ stopper.pc = "join" => stopper'.pc \in {"join", "close"}
                           /\ stopper.pc = "close" => stopper'.pc \in {"close", "drop"}
                           /\ stopper.pc = "drop" => stopper'.pc \in {"drop", "done"}
         /\ stopper.pc = "put" /\ StopStep => stopper'.pc = "join"
         /\ stopper.pc = "join" /\ StopStep => stopper'.pc = "close"
         /\ stopper.pc = "close" /\ StopStep => stopper'.pc = "drop"
         /\ stopper.pc = "drop" /\ StopStep => stopper'.pc = "done"
<1>1. stopper \in [pc : {"idle", "put", "join", "close", "drop", "done"}, late : BOOLEAN]
  BY DEF IInv, TypeOK
<1>2. StopStep => \/ stopper.pc = "put" /\ stopper'.pc = "join"
                  \/ stopper.pc = "join" /\ stopper'.pc = "close"
                  \/ stopper.pc = "close" /\ stopper'.pc = "drop"
                  \/ stopper.pc = "drop" /\ stopper'.pc = "done"
  BY <1>1 DEF StopStep, PutSentinel, PutSentinelTimesOut, Join, JoinTimesOut, CloseSink, DropSink
<1>3. CallStop => stopper.pc = "idle"
  BY DEF CallStop
<1>4. (\E p \in Producers : Enqueue(p)) => UNCHANGED stopper
  BY DEF Enqueue, Number, Put, PutFindsFull, DropOldest, PutAgain
<1>5. Drain => UNCHANGED stopper
  BY DEF Drain, Take, BeginWrite, SinkIsGone, WriteSucceeds, WriteFails
<1>6. [Next]_vars => StopStep \/ CallStop \/ UNCHANGED stopper
  BY <1>4, <1>5 DEF Next, Stop, StopStep, vars
<1>7. QED
  BY <1>2, <1>3, <1>6

\* stop() gets to the sink whatever the sinks do; past it, unless a file is being written
\* again and again or for ever, which sink.close() waits for without a timeout.
THEOREM StopComesBack == FairSpec /\ []ThreadsCanStep => StopReturns
<1> DEFINE Putting == stopper.pc = "put"
           Joining == stopper.pc = "join"
           Closing == stopper.pc = "close"
           Dropping == stopper.pc = "drop"
           Returned == stopper.pc = "done"
           Past == stopper.pc \in {"close", "drop", "done"}
<1>1. IInv =>
        /\ [Next]_vars => /\ Putting => Putting' \/ Joining'
                          /\ Joining => Joining' \/ Closing'
                          /\ Closing => Closing' \/ Dropping'
                          /\ Dropping => Dropping' \/ Returned'
        /\ <<StopStep>>_vars => /\ Putting => Joining'
                                /\ Joining => Closing'
                                /\ Closing => Dropping'
                                /\ Dropping => Returned'
  BY StopStepsLemma
<1>2. ThreadsCanStep => /\ Putting \/ Joining \/ Dropping => ENABLED <<StopStep>>_vars
                        /\ Closing /\ ~FileIsWritten => ENABLED <<StopStep>>_vars
  BY DEF ThreadsCanStep
<1>3. /\ Closing => Past
      /\ (Putting ~> Past) /\ (<>[]~FileIsWritten => (Putting ~> Returned)) => StopReturns
  BY DEF StopReturns
<1> HIDE DEF Putting, Joining, Closing, Dropping, Returned, Past
<1>4. FairSpec /\ []ThreadsCanStep => (Putting ~> Past)
  BY <1>1, <1>2, <1>3, Invariance, PTL DEF FairSpec, StopIsFair, Spec
<1>5. FairSpec /\ []ThreadsCanStep => (<>[]~FileIsWritten => (Putting ~> Returned))
  BY <1>1, <1>2, Invariance, PTL DEF FairSpec, StopIsFair, Spec
<1>6. QED
  BY <1>3, <1>4, <1>5

\* The thread that holds the lock after it has dropped the oldest item.
Retrying == \E p \in Producers : At(p, "again")

\* One thread moves, and the others stay where they are.
Move(p, from, to) ==
  /\ producer[p].pc = from /\ producer'[p].pc = to
  /\ \A q \in Producers \ {p} : producer'[q].pc = producer[q].pc

\* Where the threads in _enqueue may go.
LEMMA MoveLemma ==
  ASSUME IInv
  PROVE  /\ [Next]_vars =>
              \/ \A p \in Producers : producer'[p].pc = producer[p].pc
              \/ \E p \in Producers : \/ Move(p, "idle", "put")
                                     \/ Acquire(p)
                                     \/ Move(p, "get", "again")
                                     \/ Move(p, "again", "idle")
         /\ HolderStep => \E p \in Producers : \/ Move(p, "get", "again")
                                               \/ Move(p, "again", "idle")
         /\ \A p \in Producers : Acquire(p) => /\ LockFree
                                               /\ Move(p, "put", "idle") \/ Move(p, "put", "get")
<1>0. producer \in [Producers -> [pc : {"idle", "put", "get", "again"}, event : Item]]
  BY DEF IInv, TypeOK
<1>1. ASSUME NEW p \in Producers, Number(p) PROVE Move(p, "idle", "put")
  BY <1>0, <1>1 DEF Number, Move, At
<1>2. ASSUME NEW p \in Producers, Put(p) PROVE LockFree /\ Move(p, "put", "idle")
  BY <1>0, <1>2 DEF Put, Finish, Idle, Move, At
<1>3. ASSUME NEW p \in Producers, PutFindsFull(p) PROVE LockFree /\ Move(p, "put", "get")
  BY <1>0, <1>3 DEF PutFindsFull, Move, At
<1>4. ASSUME NEW p \in Producers, DropOldest(p) PROVE Move(p, "get", "again")
  BY <1>0, <1>4 DEF DropOldest, Move, At
<1>5. ASSUME NEW p \in Producers, PutAgain(p) PROVE Move(p, "again", "idle")
  BY <1>0, <1>5 DEF PutAgain, Finish, Idle, Move, At
<1>6. Drain \/ Stop \/ UNCHANGED vars => UNCHANGED producer
  BY DEF Drain, Take, BeginWrite, SinkIsGone, WriteSucceeds, WriteFails, Stop, CallStop,
         PutSentinel, PutSentinelTimesOut, Join, JoinTimesOut, CloseSink, DropSink, vars
<1>7. QED
  BY <1>1, <1>2, <1>3, <1>4, <1>5, <1>6 DEF Next, Enqueue, Acquire, HolderStep

\* The lock is held by one thread, which drops the oldest item and puts again.
LEMMA LockStepsLemma ==
  ASSUME IInv, NEW p \in Producers
  PROVE  /\ [Next]_vars => /\ Freeing => Freeing' \/ Retrying'
                           /\ Retrying => Retrying' \/ LockFree'
                           /\ At(p, "put") => At(p, "put")' \/ At(p, "idle")' \/ At(p, "get")'
                           /\ At(p, "get") => At(p, "get")' \/ At(p, "again")'
                           /\ At(p, "again") => At(p, "again")' \/ At(p, "idle")'
         /\ HolderStep => /\ Freeing => Retrying'
                          /\ Retrying => LockFree'
                          /\ At(p, "get") => At(p, "again")'
                          /\ At(p, "again") => At(p, "idle")'
         /\ At(p, "idle") \/ At(p, "put") \/ At(p, "get") \/ At(p, "again")
         /\ LockFree <=> ~Freeing /\ ~Retrying
         /\ At(p, "get") \/ At(p, "again") => ~LockFree
         /\ Acquire(p) => ~At(p, "put")'
<1>0. /\ \A q \in Producers : producer[q].pc \in {"idle", "put", "get", "again"}
      /\ \A q, r \in Producers : producer[q].pc \in {"get", "again"} /\ producer[r].pc \in {"get", "again"}
                               => q = r
  BY DEF IInv, TypeOK, Control
<1> USE DEF At, Freeing, Retrying, LockFree
<1>1. ASSUME NEW q \in Producers, Move(q, "get", "again")
      PROVE  /\ Freeing /\ ~Retrying /\ Retrying'
             /\ At(p, "get") => At(p, "again")'
             /\ ~At(p, "again") /\ (At(p, "put") => At(p, "put")')
  BY <1>0, <1>1 DEF Move
<1>2. ASSUME NEW q \in Producers, Move(q, "again", "idle")
      PROVE  /\ Retrying /\ ~Freeing /\ LockFree'
             /\ At(p, "again") => At(p, "idle")'
             /\ ~At(p, "get") /\ (At(p, "put") => At(p, "put")')
  <2>1. \A r \in Producers : producer[r].pc \in {"get", "again"} => r = q
    BY <1>0, <1>2 DEF Move
  <2>2. \A r \in Producers : producer'[r].pc \notin {"get", "again"}
    BY <1>2, <2>1 DEF Move
  <2>3. QED
    BY <1>2, <2>1, <2>2 DEF Move
<1>3. ASSUME NEW q \in Producers, Move(q, "idle", "put")
      PROVE  /\ Freeing => Freeing'
             /\ Retrying => Retrying'
             /\ producer[p].pc # "idle" => producer'[p].pc = producer[p].pc
  BY <1>3 DEF Move
<1>4. ASSUME NEW q \in Producers, Acquire(q)
      PROVE  /\ ~Freeing /\ ~Retrying
             /\ At(p, "put") => At(p, "put")' \/ At(p, "idle")' \/ At(p, "get")'
             /\ ~At(p, "get") /\ ~At(p, "again")
             /\ p = q => ~At(p, "put")'
  <2>1. LockFree /\ (Move(q, "put", "idle") \/ Move(q, "put", "get"))
    BY <1>4, MoveLemma
  <2>2. QED
    BY <2>1 DEF Move
<1>5. ASSUME \A q \in Producers : producer'[q].pc = producer[q].pc
      PROVE  /\ Freeing => Freeing'
             /\ Retrying => Retrying'
             /\ producer'[p].pc = producer[p].pc
  BY <1>5
<1>6. HolderStep => \E q \in Producers : Move(q, "get", "again") \/ Move(q, "again", "idle")
  BY MoveLemma
<1>7. [Next]_vars => \/ \A q \in Producers : producer'[q].pc = producer[q].pc
                     \/ \E q \in Producers : \/ Move(q, "idle", "put")
                                            \/ Acquire(q)
                                            \/ Move(q, "get", "again")
                                            \/ Move(q, "again", "idle")
  BY MoveLemma
<1>8. /\ At(p, "idle") \/ At(p, "put") \/ At(p, "get") \/ At(p, "again")
      /\ LockFree <=> ~Freeing /\ ~Retrying
      /\ At(p, "get") \/ At(p, "again") => ~LockFree
  BY <1>0
<1>9. [Next]_vars => /\ Freeing => Freeing' \/ Retrying'
                     /\ Retrying => Retrying' \/ LockFree'
  <2> HIDE DEF Freeing, Retrying, LockFree, At
  <2>1. QED
    BY <1>1, <1>2, <1>3, <1>4, <1>5, <1>7
<1>10. [Next]_vars => /\ At(p, "put") => At(p, "put")' \/ At(p, "idle")' \/ At(p, "get")'
                      /\ At(p, "get") => At(p, "get")' \/ At(p, "again")'
                      /\ At(p, "again") => At(p, "again")' \/ At(p, "idle")'
  <2> HIDE DEF Freeing, Retrying, LockFree
  <2>1. QED
    BY <1>1, <1>2, <1>3, <1>4, <1>5, <1>7
<1>11. HolderStep => /\ Freeing => Retrying'
                     /\ Retrying => LockFree'
                     /\ At(p, "get") => At(p, "again")'
                     /\ At(p, "again") => At(p, "idle")'
  <2> HIDE DEF Freeing, Retrying, LockFree, At
  <2>1. QED
    BY <1>1, <1>2, <1>6
<1>12. QED
  BY <1>4, <1>8, <1>9, <1>10, <1>11

\* The fail-open contract: a thread that enqueues comes back, though the drain thread
\* never takes another item and the others never stop enqueuing, if the lock is given
\* in the end to a thread that keeps asking for it.
THEOREM ProducersComeBack ==
  FairSpec /\ []ThreadsCanStep /\ (\A p \in Producers : LockIsGiven(p)) => ProducersNeverBlock
<1> DEFINE Asking(p) == At(p, "put")
           Freer(p) == At(p, "get")
           Retrier(p) == At(p, "again")
           Back(p) == At(p, "idle")
           Free == LockFree
           OneFrees == Freeing
           OneRetries == Retrying
           ComesBack(p) == ~Back(p) ~> Back(p)
<1>1. ASSUME NEW p \in Producers
      PROVE  Spec /\ HolderGoesOn /\ LockIsGiven(p) /\ []ThreadsCanStep => ComesBack(p)
  <2>1. IInv =>
          /\ [Next]_vars => /\ OneFrees => OneFrees' \/ OneRetries'
                            /\ OneRetries => OneRetries' \/ Free'
                            /\ Asking(p) => Asking(p)' \/ Back(p)' \/ Freer(p)'
                            /\ Freer(p) => Freer(p)' \/ Retrier(p)'
                            /\ Retrier(p) => Retrier(p)' \/ Back(p)'
          /\ <<HolderStep>>_vars => /\ OneFrees => OneRetries'
                                    /\ OneRetries => Free'
                                    /\ Freer(p) => Retrier(p)'
                                    /\ Retrier(p) => Back(p)'
          /\ Back(p) \/ Asking(p) \/ Freer(p) \/ Retrier(p)
          /\ Free <=> ~OneFrees /\ ~OneRetries
          /\ Freer(p) \/ Retrier(p) => ~Free
          /\ <<Acquire(p)>>_vars => ~Asking(p)'
    BY LockStepsLemma
  <2>2. ThreadsCanStep =>
          /\ ~Free => ENABLED <<HolderStep>>_vars
          /\ Asking(p) /\ Free => ENABLED <<Acquire(p)>>_vars
    BY DEF ThreadsCanStep
  <2> HIDE DEF Asking, Freer, Retrier, Back, Free, OneFrees, OneRetries
  <2>3. QED
    BY <2>1, <2>2, Invariance, PTL DEF Spec, HolderGoesOn, LockIsGiven
<1>2. Spec /\ HolderGoesOn /\ (\A p \in Producers : LockIsGiven(p)) /\ []ThreadsCanStep
      => \A p \in Producers : ComesBack(p)
  BY <1>1
<1>3. (\A p \in Producers : ComesBack(p)) => ProducersNeverBlock
  BY DEF ProducersNeverBlock
<1>4. QED
  BY <1>2, <1>3 DEF FairSpec, ProducersAreFair
=============================================================================
