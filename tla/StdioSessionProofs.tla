------------------------- MODULE StdioSessionProofs -------------------------
(***************************************************************************)
(* The safety of StdioSession for every number of calls, every set of ids, *)
(* every size of the table and every schedule of the three threads, and    *)
(* its liveness, given that the threads' actions are enabled when they     *)
(* look enabled.                                                           *)
(***************************************************************************)
EXTENDS StdioSession, MessageProcessorProofs

\* Where the threads stand: what each holds at a step tells what it still owes.
Control ==
  /\ tin.pc \in {"own", "start", "track", "close", "forward"} => tin.call # NoCall
  /\ tin.pc = "start" => starts[tin.call] = "none"
  /\ tin.pc = "close" <=> tin.displaced # NoCall
  /\ \A c \in Calls : c > tin.call => starts[c] = "none"
  /\ \A c \in unanswered : c < tin.call \/ (c = tin.call /\ tin.pc \in {"read", "gone"})
  /\ tout.pc # "emit" => tout.call = NoCall
  /\ main # "close" => outstanding = {}

\* The seven keepers are pairwise disjoint and cover the calls started.
Partition(a, b, c, d, e, f, g, all) ==
  /\ a \cup b \cup c \cup d \cup e \cup f \cup g = all
  /\ a \cap (b \cup c \cup d \cup e \cup f \cup g) = {}
  /\ b \cap (c \cup d \cup e \cup f \cup g) = {}
  /\ c \cap (d \cup e \cup f \cup g) = {}
  /\ d \cap (e \cup f \cup g) = {}
  /\ e \cap (f \cup g) = {}
  /\ f \cap g = {}

Kept ==
  Partition(InTrack, CallsIn(pending), Displaced, Popped, outstanding, raised, Closed, Started)

\* The requests the upstream has been sent.
Sent(c) == c \in Calls /\ (c < tin.call \/ (c = tin.call /\ tin.pc \in {"read", "gone"}))

\* The table holds an id for the latest call tracked under it.
Latest ==
  \A i \in DOMAIN pending, c \in Started \ InTrack :
    request[c].id = pending[i].id => c <= pending[i].call

\* An answer, if it is one, is to a request that was sent, and to no younger call than
\* the one it closes.
NotOlder(by, c) == by # NoCall => Sent(by) /\ (by \in Started => by <= c)

Order ==
  /\ Latest
  /\ tout.call # NoCall => NotOlder(tout.by, tout.call)
  /\ \A c \in Calls : \A i \in DOMAIN terminals[c] : NotOlder(terminals[c][i].by, c)

\* The inductive invariant.
IInv ==
  /\ TypeOK
  /\ pending \in Table(Ids, Calls)
  /\ Control
  /\ Kept
  /\ OneTerminalPerCall
  /\ Order

\* Kept is OneKeeper, written out.
LEMMA KeptLemma == Kept => OneKeeper
<1> DEFINE K == Keepers
<1>1. /\ DOMAIN K = 1 .. 7
      /\ K[1] = InTrack /\ K[2] = CallsIn(pending) /\ K[3] = Displaced /\ K[4] = Popped
      /\ K[5] = outstanding /\ K[6] = raised /\ K[7] = Closed
  BY DEF Keepers
<1>2. UNION {K[i] : i \in DOMAIN K} =
        K[1] \cup K[2] \cup K[3] \cup K[4] \cup K[5] \cup K[6] \cup K[7]
  <2>1. DOMAIN K = {1, 2, 3, 4, 5, 6, 7}
    BY <1>1
  <2> HIDE DEF K
  <2>2. QED
    BY <2>1
<1>3. SUFFICES ASSUME Kept PROVE OneKeeper
  OBVIOUS
<1>4. UNION {K[i] : i \in DOMAIN K} = Started
  BY <1>1, <1>2, <1>3 DEF Kept, Partition
<1> HIDE DEF K
<1>5. ASSUME NEW i \in 1 .. 7, NEW j \in 1 .. 7, i # j
      PROVE  K[i] \cap K[j] = {}
  <2>1. ASSUME NEW m \in 1 .. 7, NEW n \in 1 .. 7, m < n
        PROVE  K[m] \cap K[n] = {}
    <3>1. CASE m = 1
      BY <1>1, <1>3, <2>1, <3>1 DEF Kept, Partition
    <3>2. CASE m = 2
      BY <1>1, <1>3, <2>1, <3>2 DEF Kept, Partition
    <3>3. CASE m = 3
      BY <1>1, <1>3, <2>1, <3>3 DEF Kept, Partition
    <3>4. CASE m = 4
      BY <1>1, <1>3, <2>1, <3>4 DEF Kept, Partition
    <3>5. CASE m = 5
      BY <1>1, <1>3, <2>1, <3>5 DEF Kept, Partition
    <3>6. CASE m = 6
      BY <1>1, <1>3, <2>1, <3>6 DEF Kept, Partition
    <3>7. QED
      BY <2>1, <3>1, <3>2, <3>3, <3>4, <3>5, <3>6
  <2>2. CASE i < j
    BY <2>1, <2>2
  <2>3. CASE j < i
    BY <2>1, <2>3
  <2>4. QED
    BY <1>5, <2>2, <2>3
<1>6. QED
  BY <1>1, <1>4, <1>5 DEF OneKeeper, K

\* A session starts with no call, no entry and every thread at its first step.
LEMMA InitLemma == Init => IInv
<1> SUFFICES ASSUME Init PROVE IInv
  OBVIOUS
<1>1. ProcessorInv /\ Started = {} /\ Closed = {} /\ CallsIn(pending) = {}
  BY ProcessorInitLemma DEF Init
<1>2. TypeOK
  BY <1>1 DEF Init, TypeOK, ProcessorInv, ToutReading
<1>3. Control
  BY <1>1 DEF Init, Control, Started, ToutReading, NoCall
<1>4. InTrack = {} /\ Displaced = {} /\ Popped = {} /\ outstanding = {} /\ raised = {}
  BY DEF Init, ProcessorInit, InTrack, Displaced, Popped, ToutReading
<1>5. Kept
  BY <1>1, <1>4 DEF Kept, Partition
<1>6. OneTerminalPerCall
  <2>1. \A c \in Calls : terminals[c] = <<>>
    BY DEF Init, ProcessorInit
  <2>2. Len(<<>>) <= 1
    OBVIOUS
  <2>3. QED
    BY <1>1, <2>1, <2>2 DEF OneTerminalPerCall
<1>7. Order
  <2>1. \A c \in Calls : terminals[c] = <<>>
    BY DEF Init, ProcessorInit
  <2>2. QED
    BY <1>1, <2>1 DEF Init, Order, Latest, ToutReading
<1>8. QED
  BY <1>1, <1>2, <1>3, <1>5, <1>6, <1>7 DEF IInv, ProcessorInv

-----------------------------------------------------------------------------
(* The steps.  Core is what a step preserves; Effect is all that a step may  *)
(* do to the events, and the rest of the invariant follows from it.          *)

\* A step that hands no call to another keeper.
LEMMA QuietLemma ==
  ASSUME Kept, UNCHANGED <<starts, terminals, raised, pending, outstanding>>,
         InTrack' = InTrack, Displaced' = Displaced, Popped' = Popped
  PROVE  Kept' /\ Effect
<1>1. CallsIn(pending)' = CallsIn(pending) /\ Closed' = Closed /\ Started' = Started
  BY DEF Closed, Started
<1>2. QED
  BY <1>1 DEF Kept, Partition, Effect

\* The types of the variables a session adds.
SessionTypes ==
  /\ tin \in [pc : {"read", "own", "start", "track", "close", "forward", "gone"},
              call : Calls \cup {NoCall}, displaced : Calls \cup {NoCall}]
  /\ tout \in [pc : {"read", "emit", "done", "dead"}, call : Calls \cup {NoCall},
               by : Calls \cup {NoCall}, cause : {"end", "error", "raises"}]
  /\ main \in {"wait", "drain", "close", "stop", "exited"}
  /\ outstanding \subseteq Calls
  /\ upstream \in {"running", "exited"}
  /\ unanswered \subseteq Calls
  /\ replied \subseteq Calls
  /\ batch \in {"none", "forwarded"}

Core == ProcessorInv /\ SessionTypes /\ Control /\ Kept

\* The client pump where it emits nothing.
LEMMA ClientQuietLemma ==
  ASSUME Core,
         \/ \E id \in AnyId, kind \in Kinds : ReadRequest(id, kind)
         \/ RejectRequest
         \/ AnswerOwnTool
         \/ StartFails
         \/ Forward
         \/ ForwardBatch
         \/ ClientGone
  PROVE  Core' /\ Effect
<1>0. ProcessorInv /\ SessionTypes /\ Control /\ Kept
  BY DEF Core
<1>1. CASE \E id \in AnyId, kind \in Kinds : ReadRequest(id, kind)
  <2>1. PICK id \in AnyId, kind \in Kinds : ReadRequest(id, kind)
    BY <1>1
  <2>2. tin.call \in Nat /\ NextCall = tin.call + 1 /\ NextCall \in Calls /\ NCalls \in Nat
    BY <1>0, <2>1, ProcessorAssumption DEF SessionTypes, ReadRequest, NextCall, Calls, NoCall
  <2>3. /\ request' = [request EXCEPT ![NextCall] = [id |-> id, kind |-> kind]]
        /\ UNCHANGED <<starts, terminals, raised, pending, emitterOn, tout, main, outstanding>>
        /\ UNCHANGED <<upstream, unanswered, replied, batch>>
        /\ tin' \in [pc : {"own", "start", "forward"}, call : {NextCall}, displaced : {NoCall}]
        /\ tin.pc = "read"
    BY <2>1 DEF ReadRequest, TinAt, events, wire
  <2>4. ProcessorInv'
    <3>1. kind \in AllKinds
      BY ProcessorAssumption
    <3>2. request' \in [Calls -> [id : AnyId, kind : AllKinds]]
      BY <1>0, <2>2, <2>3, <3>1 DEF ProcessorInv, ProcessorTypeOK
    <3>3. QED
      BY <1>0, <2>3, <3>2 DEF ProcessorInv, ProcessorTypeOK
  <2>5. SessionTypes'
    BY <1>0, <2>2, <2>3 DEF SessionTypes
  <2>6. tin.displaced = NoCall
    BY <1>0, <2>3 DEF Control
  <2>7. starts[NextCall] = "none"
    BY <1>0, <2>2 DEF Control
  <2>8. Control'
    <3>1. NextCall # NoCall /\ tin'.call = NextCall /\ tin'.displaced = NoCall
          /\ tin'.pc \in {"own", "start", "forward"}
      BY <2>2, <2>3 DEF NoCall
    <3>2. \A c \in Calls : c > NextCall => c > tin.call
      BY <2>2 DEF Calls
    <3>3. \A c \in unanswered : c < NextCall
      BY <1>0, <2>2 DEF Control, SessionTypes, Calls
    <3>4. QED
      BY <1>0, <2>3, <2>7, <3>1, <3>2, <3>3 DEF Control
  <2>9. InTrack' = InTrack /\ Displaced' = Displaced /\ Popped' = Popped
    BY <2>3, <2>6 DEF InTrack, Displaced, Popped
  <2>10. QED
    BY <1>0, <2>3, <2>4, <2>5, <2>8, <2>9, QuietLemma DEF Core
<1>2. CASE RejectRequest \/ AnswerOwnTool
  <2>1. /\ tin.pc \in {"own", "start"} /\ tin' = [tin EXCEPT !.pc = "read"]
        /\ UNCHANGED <<tout, main, outstanding, upstream, batch>>
        /\ unanswered' = unanswered /\ replied' = replied \cup {tin.call}
        /\ UNCHANGED processor
    BY <1>2 DEF RejectRequest, AnswerOwnTool, TinAt, Proceed, wire
  <2>2. tin'.pc = "read" /\ tin'.call = tin.call /\ tin'.displaced = tin.displaced
    BY <1>0, <2>1 DEF SessionTypes
  <2>3. /\ ProcessorInv'
        /\ UNCHANGED <<request, starts, terminals, raised, pending, emitterOn>>
    BY <1>0, <2>1, ProcessorUnchangedLemma
  <2>4. tin.call \in Calls
    BY <1>0, <2>1 DEF Control, SessionTypes
  <2>5. SessionTypes'
    BY <1>0, <2>1, <2>4 DEF SessionTypes
  <2>6. Control'
    BY <1>0, <2>1, <2>2, <2>3, <2>4 DEF Control
  <2>7. InTrack' = InTrack /\ Displaced' = Displaced /\ Popped' = Popped
    BY <2>1, <2>2 DEF InTrack, Displaced, Popped
  <2>8. QED
    BY <1>0, <2>1, <2>3, <2>5, <2>6, <2>7, QuietLemma DEF Core
<1>3. CASE StartFails
  <2>1. /\ tin.pc = "start" /\ tin' = [tin EXCEPT !.pc = "forward"]
        /\ UNCHANGED <<tout, main, outstanding, upstream, batch>>
        /\ UNCHANGED <<unanswered, replied>>
        /\ UNCHANGED processor
    BY <1>3 DEF StartFails, TinAt, Proceed, wire
  <2>2. tin'.pc = "forward" /\ tin'.call = tin.call /\ tin'.displaced = tin.displaced
    BY <1>0, <2>1 DEF SessionTypes
  <2>3. /\ ProcessorInv'
        /\ UNCHANGED <<request, starts, terminals, raised, pending, emitterOn>>
    BY <1>0, <2>1, ProcessorUnchangedLemma
  <2>5. SessionTypes'
    BY <1>0, <2>1 DEF SessionTypes
  <2>6. Control'
    BY <1>0, <2>1, <2>2, <2>3 DEF Control
  <2>7. InTrack' = InTrack /\ Displaced' = Displaced /\ Popped' = Popped
    BY <2>1, <2>2 DEF InTrack, Displaced, Popped
  <2>8. QED
    BY <1>0, <2>1, <2>3, <2>5, <2>6, <2>7, QuietLemma DEF Core
<1>4. CASE Forward
  <2>1. /\ tin.pc = "forward" /\ tin' = [tin EXCEPT !.pc = "read"]
        /\ UNCHANGED <<tout, main, outstanding, upstream, batch>>
        /\ replied' = replied /\ unanswered' \in {unanswered, unanswered \cup {tin.call}}
        /\ UNCHANGED processor
    BY <1>4 DEF Forward, TinAt, Proceed, wire
  <2>2. tin'.pc = "read" /\ tin'.call = tin.call /\ tin'.displaced = tin.displaced
    BY <1>0, <2>1 DEF SessionTypes
  <2>3. /\ ProcessorInv'
        /\ UNCHANGED <<request, starts, terminals, raised, pending, emitterOn>>
    BY <1>0, <2>1, ProcessorUnchangedLemma
  <2>4. tin.call \in Calls
    BY <1>0, <2>1 DEF Control, SessionTypes
  <2>5. SessionTypes'
    BY <1>0, <2>1, <2>4 DEF SessionTypes
  <2>6. Control'
    BY <1>0, <2>1, <2>2, <2>3, <2>4 DEF Control
  <2>7. InTrack' = InTrack /\ Displaced' = Displaced /\ Popped' = Popped
    BY <2>1, <2>2 DEF InTrack, Displaced, Popped
  <2>8. QED
    BY <1>0, <2>1, <2>3, <2>5, <2>6, <2>7, QuietLemma DEF Core
<1>5. CASE ForwardBatch
  <2>1. /\ batch' = "forwarded"
        /\ UNCHANGED <<tin, tout, main, outstanding, upstream, unanswered, replied>>
        /\ UNCHANGED processor
    BY <1>5 DEF ForwardBatch
  <2>2. /\ ProcessorInv'
        /\ UNCHANGED <<request, starts, terminals, raised, pending, emitterOn>>
    BY <1>0, <2>1, ProcessorUnchangedLemma
  <2>3. SessionTypes' /\ Control'
    BY <1>0, <2>1, <2>2 DEF SessionTypes, Control
  <2>4. InTrack' = InTrack /\ Displaced' = Displaced /\ Popped' = Popped
    BY <2>1 DEF InTrack, Displaced, Popped
  <2>5. QED
    BY <1>0, <2>1, <2>2, <2>3, <2>4, QuietLemma DEF Core
<1>6. CASE ClientGone
  <2>1. /\ tin.pc = "read" /\ tin' = [tin EXCEPT !.pc = "gone"]
        /\ UNCHANGED <<tout, main, outstanding, upstream, batch>>
        /\ UNCHANGED <<unanswered, replied>>
        /\ UNCHANGED processor
    BY <1>6 DEF ClientGone, TinAt, Proceed, wire
  <2>2. tin'.pc = "gone" /\ tin'.call = tin.call /\ tin'.displaced = tin.displaced
    BY <1>0, <2>1 DEF SessionTypes
  <2>3. /\ ProcessorInv'
        /\ UNCHANGED <<request, starts, terminals, raised, pending, emitterOn>>
    BY <1>0, <2>1, ProcessorUnchangedLemma
  <2>5. SessionTypes'
    BY <1>0, <2>1 DEF SessionTypes
  <2>6. Control'
    BY <1>0, <2>1, <2>2, <2>3 DEF Control
  <2>7. InTrack' = InTrack /\ Displaced' = Displaced /\ Popped' = Popped
    BY <2>1, <2>2 DEF InTrack, Displaced, Popped
  <2>8. QED
    BY <1>0, <2>1, <2>3, <2>5, <2>6, <2>7, QuietLemma DEF Core
<1>7. QED
  BY <1>1, <1>2, <1>3, <1>4, <1>5, <1>6

\* The start event: t_in owes the call an entry from here on.
LEMMA EmitStartLemma ==
  ASSUME Core, EmitStart
  PROVE  Core' /\ Effect
<1>0. ProcessorInv /\ SessionTypes /\ Control /\ Kept
  BY DEF Core
<1>1. /\ tin.pc = "start" /\ tin' = [tin EXCEPT !.pc = "track"]
      /\ UNCHANGED <<tout, main, outstanding, upstream, unanswered, replied, batch>>
      /\ StartEvent(tin.call)
  BY DEF EmitStart, TinAt, Proceed, wire
<1>2. tin.call \in Calls /\ tin.displaced = NoCall /\ starts[tin.call] = "none"
  BY <1>0, <1>1 DEF Control, SessionTypes
<1>3. tin'.pc = "track" /\ tin'.call = tin.call /\ tin'.displaced = tin.displaced
  BY <1>0, <1>1 DEF SessionTypes
<1>4. /\ ProcessorInv'
      /\ Started' = Started \cup {tin.call}
      /\ Closed' = Closed /\ raised' = raised /\ CallsIn(pending)' = CallsIn(pending)
      /\ \A d \in Calls : d # tin.call => starts'[d] = starts[d]
  BY <1>0, <1>1, <1>2, StartEventLemma
<1>5. SessionTypes'
  BY <1>0, <1>1 DEF SessionTypes
<1>6. Control'
  <2>1. \A c \in Calls : c > tin.call => c # tin.call
    BY <1>2 DEF Calls
  <2>2. QED
    BY <1>0, <1>1, <1>2, <1>3, <1>4, <2>1 DEF Control
<1>7. /\ InTrack = {} /\ InTrack' = {tin.call}
      /\ Displaced' = Displaced /\ Popped' = Popped
  BY <1>1, <1>3 DEF InTrack, Displaced, Popped
<1>8. tin.call \notin Started
  BY <1>2 DEF Started
<1>9. Kept'
  BY <1>0, <1>1, <1>4, <1>7, <1>8 DEF Kept, Partition
<1>10. Opens(tin.call)
  <2>1. tin.call \in Started'
    BY <1>4
  <2>2. starts'[tin.call] # "none"
    BY <2>1 DEF Started
  <2>3. QED
    BY <1>1, <1>2, <1>4, <2>2 DEF Opens, StartEvent
<1>11. QED
  BY <1>2, <1>4, <1>5, <1>6, <1>9, <1>10 DEF Core, Effect

\* A call with an id no response can carry goes from t_in to the closed ones.
LEMMA TrackBadIdLemma ==
  ASSUME Core, TrackBadId
  PROVE  Core' /\ Effect
<1>0. ProcessorInv /\ SessionTypes /\ Control /\ Kept
  BY DEF Core
<1>1. /\ tin.pc = "track" /\ tin' = [tin EXCEPT !.pc = "forward"]
      /\ UNCHANGED <<tout, main, outstanding, upstream, unanswered, replied, batch>>
      /\ CloseCall(tin.call, "invalid", NoCall)
      /\ UNCHANGED <<request, starts, raised, pending, emitterOn>>
  BY DEF TrackBadId, TrackInvalid, TinAt, Proceed, wire
<1>2. tin.call \in Calls
  BY <1>0, <1>1 DEF Control, SessionTypes
<1>3. tin'.pc = "forward" /\ tin'.call = tin.call /\ tin'.displaced = tin.displaced
  BY <1>0, <1>1 DEF SessionTypes
<1>4. "invalid" \in Causes
  BY DEF Causes
<1>5. /\ ProcessorInv'
      /\ ClosesWith({tin.call}, Terminal("invalid", NoCall))
      /\ Closed' = Closed \cup {tin.call}
      /\ Started' = Started
      /\ CallsIn(pending)' = CallsIn(pending)
  BY <1>0, <1>1, <1>2, <1>4, OneEventLemma
<1>6. SessionTypes' /\ Control'
  BY <1>0, <1>1, <1>3 DEF SessionTypes, Control
<1>7. /\ InTrack = {tin.call} /\ InTrack' = {}
      /\ Displaced' = Displaced /\ Popped' = Popped
  BY <1>1, <1>3 DEF InTrack, Displaced, Popped
<1>8. Kept' /\ tin.call \in Started \ Closed
  BY <1>0, <1>1, <1>5, <1>7 DEF Kept, Partition
<1>9. Effect
  <2>1. Terminal("invalid", NoCall) \in TerminalEvents
    BY <1>0, <1>4, TerminalLemma
  <2>2. Closes({tin.call}, Terminal("invalid", NoCall))
    BY <1>1, <1>5, <1>8 DEF Closes, Terminal
  <2>3. QED
    BY <1>2, <2>1, <2>2 DEF Effect
<1>10. QED
  BY <1>5, <1>6, <1>8, <1>9 DEF Core

\* The call enters the table, the one it displaces goes to t_in, the oldest ones
\* to the closed.
LEMMA TrackLemma ==
  ASSUME Core, Track
  PROVE  Core' /\ Effect
<1>0. ProcessorInv /\ SessionTypes /\ Control /\ Kept
  BY DEF Core
<1> DEFINE d == DisplacedBy(tin.call)
<1>1. /\ tin.pc = "track"
      /\ tin' = [tin EXCEPT !.pc = IF d = NoCall THEN "forward" ELSE "close", !.displaced = d]
      /\ UNCHANGED <<tout, main, outstanding, upstream, unanswered, replied, batch>>
      /\ TrackValid(tin.call)
      /\ UNCHANGED <<request, starts, raised, emitterOn>>
  BY DEF Track, TrackValid, TinAt, wire
<1>2. tin.call \in Calls /\ tin.displaced = NoCall
  BY <1>0, <1>1 DEF Control, SessionTypes
<1>3. /\ tin'.pc = IF d = NoCall THEN "forward" ELSE "close"
      /\ tin'.call = tin.call /\ tin'.displaced = d
  BY <1>0, <1>1 DEF SessionTypes
<1>4. InTrack = {tin.call} /\ Displaced = {}
  BY <1>1, <1>2 DEF InTrack, Displaced
<1>5. CallsIn(pending) \subseteq Started /\ tin.call \notin CallsIn(pending)
      /\ tin.call \in Started \ Closed /\ CallsIn(pending) \cap Closed = {}
  BY <1>0, <1>4 DEF Kept, Partition
<1>6. \A c \in CallsIn(pending) : c < tin.call
  <2>1. TAKE c \in CallsIn(pending)
  <2>2. c \in Calls /\ starts[c] # "none" /\ c # tin.call
    BY <1>5 DEF Started
  <2>3. ~ (c > tin.call)
    BY <1>0, <2>2 DEF Control
  <2>4. QED
    BY <1>2, <2>2, <2>3 DEF Calls
<1>7. PICK S \in SUBSET Calls :
           /\ ProcessorInv'
           /\ ClosesWith(S, Terminal("evicted", NoCall))
           /\ Closed' = Closed \cup S
           /\ Started' = Started
           /\ S \subseteq (CallsIn(pending) \ {d}) \cup {tin.call}
           /\ CallsIn(pending)' = ((CallsIn(pending) \ {d}) \cup {tin.call}) \ S
           /\ d \in CallsIn(pending) \cup {NoCall}
           /\ S # {} => /\ Len(pending') = MaxPending
                        /\ \A c \in S, e \in CallsIn(pending') : c < e
  BY <1>0, <1>1, <1>2, <1>6, TrackValidLemma
<1> HIDE DEF d
<1>8. NoCall \notin Calls /\ Started \subseteq Calls
  BY CallsLemma DEF Started
<1>9. SessionTypes'
  <2>1. d \in Calls \cup {NoCall}
    BY <1>5, <1>7, <1>8
  <2>2. PICK pc \in {"forward", "close"} : tin' = [tin EXCEPT !.pc = pc, !.displaced = d]
    BY <1>1
  <2>3. /\ pc \in {"read", "own", "start", "track", "close", "forward", "gone"}
        /\ tin \in [pc : {"read", "own", "start", "track", "close", "forward", "gone"},
                   call : Calls \cup {NoCall}, displaced : Calls \cup {NoCall}]
    BY <1>0 DEF SessionTypes
  <2>4. tin' \in [pc : {"read", "own", "start", "track", "close", "forward", "gone"},
                 call : Calls \cup {NoCall}, displaced : Calls \cup {NoCall}]
    BY <2>1, <2>2, <2>3
  <2>5. QED
    BY <1>0, <1>1, <2>4 DEF SessionTypes
<1>10. Control'
  BY <1>0, <1>1, <1>2, <1>3 DEF Control
<1>11. InTrack' = {} /\ Displaced' = {d} \ {NoCall} /\ Popped' = Popped
  BY <1>1, <1>3 DEF InTrack, Displaced, Popped
<1>12. Kept'
  BY <1>0, <1>1, <1>4, <1>5, <1>7, <1>8, <1>11 DEF Kept, Partition
<1>13. Effect
  <2>1. Terminal("evicted", NoCall) \in TerminalEvents
    BY <1>0, TerminalLemma DEF Causes
  <2>2. Terminal("evicted", NoCall).kept = emitterOn
    BY DEF Terminal
  <2>3. Closes(S, Terminal("evicted", NoCall))
    BY <1>1, <1>5, <1>7, <2>2 DEF Closes
  <2>4. QED
    BY <2>1, <2>3 DEF Effect
<1>14. QED
  BY <1>7, <1>9, <1>10, <1>12, <1>13 DEF Core

\* The displaced call goes from t_in to the closed ones.
LEMMA CloseReusedLemma ==
  ASSUME Core, CloseReused
  PROVE  Core' /\ Effect
<1>0. ProcessorInv /\ SessionTypes /\ Control /\ Kept
  BY DEF Core
<1>1. /\ tin.pc = "close" /\ tin' = [tin EXCEPT !.pc = "forward", !.displaced = NoCall]
      /\ UNCHANGED <<tout, main, outstanding, upstream, unanswered, replied, batch>>
      /\ CloseCall(tin.displaced, "reused", NoCall)
      /\ UNCHANGED <<request, starts, raised, pending, emitterOn>>
  BY DEF CloseReused, CloseDisplaced, TinAt, wire
<1>2. tin.displaced \in Calls /\ tin.displaced # NoCall
  BY <1>0, <1>1 DEF Control, SessionTypes
<1>3. tin'.pc = "forward" /\ tin'.call = tin.call /\ tin'.displaced = NoCall
  BY <1>0, <1>1 DEF SessionTypes
<1>4. "reused" \in Causes
  BY DEF Causes
<1>5. /\ ProcessorInv'
      /\ ClosesWith({tin.displaced}, Terminal("reused", NoCall))
      /\ Closed' = Closed \cup {tin.displaced}
      /\ Started' = Started
      /\ CallsIn(pending)' = CallsIn(pending)
  BY <1>0, <1>1, <1>2, <1>4, OneEventLemma
<1>6. SessionTypes'
  BY <1>0, <1>1, ZenonT(40) DEF SessionTypes
<1>7. Control'
  BY <1>0, <1>1, <1>3 DEF Control
<1>8. /\ InTrack = {} /\ InTrack' = {}
      /\ Displaced = {tin.displaced} /\ Displaced' = {} /\ Popped' = Popped
  BY <1>1, <1>2, <1>3 DEF InTrack, Displaced, Popped
<1>9. Kept' /\ tin.displaced \in Started \ Closed
  BY <1>0, <1>1, <1>5, <1>8 DEF Kept, Partition
<1>10. Effect
  <2>1. Terminal("reused", NoCall) \in TerminalEvents
    BY <1>0, <1>4, TerminalLemma
  <2>2. Closes({tin.displaced}, Terminal("reused", NoCall))
    BY <1>1, <1>5, <1>9 DEF Closes, Terminal
  <2>3. QED
    BY <1>2, <2>1, <2>2 DEF Effect
<1>11. QED
  BY <1>5, <1>6, <1>7, <1>9, <1>10 DEF Core

\* The server pump.  A pop hands the call it finds from the table to t_out.
LEMMA ReceiveLemma ==
  ASSUME Core, NEW id, NEW shape, NEW by \in Calls \cup {NoCall}, Receive(id, shape, by),
         tout.pc = "read", unanswered' \subseteq unanswered
  PROVE  Core' /\ Effect
<1>0. ProcessorInv /\ SessionTypes /\ Control /\ Kept
  BY DEF Core
<1> DEFINE call == CallAt(pending, id)
           cause == CauseFor(call, shape)
<1>1. /\ Pop(id)
      /\ tout' = [pc |-> "emit", call |-> call, by |-> by, cause |-> cause]
      /\ UNCHANGED <<tin, main, outstanding, upstream, replied, batch>>
  BY DEF Receive
<1>2. /\ ProcessorInv'
      /\ CallsIn(pending)' = CallsIn(pending) \ {call}
      /\ call \in CallsIn(pending) \cup {NoCall}
      /\ CallsIn(pending) \subseteq Calls
      /\ UNCHANGED events /\ Started' = Started /\ Closed' = Closed
  BY <1>0, <1>1, PopLemma
<1>3. cause \in {"end", "error", "raises"}
  BY DEF CauseFor, CauseOf
<1> HIDE DEF call, cause
<1>4. NoCall \notin Calls
  BY CallsLemma
<1>5. SessionTypes'
  BY <1>0, <1>1, <1>2, <1>3 DEF SessionTypes
<1>6. UNCHANGED <<starts, terminals, raised>>
  BY <1>2 DEF events
<1>7. Control'
  BY <1>0, <1>1, <1>6 DEF Control
<1>8. /\ Popped = {} /\ Popped' = {call} \ {NoCall}
      /\ InTrack' = InTrack /\ Displaced' = Displaced
  BY <1>0, <1>1 DEF Popped, InTrack, Displaced, Control
<1>9. Kept'
  BY <1>0, <1>1, <1>2, <1>4, <1>6, <1>8 DEF Kept, Partition
<1>10. QED
  BY <1>2, <1>5, <1>6, <1>7, <1>9 DEF Core, Effect

\* The call popped goes from t_out to the closed ones.
LEMMA CloseAnsweredLemma ==
  ASSUME Core, CloseAnswered
  PROVE  Core' /\ Effect
<1>0. ProcessorInv /\ SessionTypes /\ Control /\ Kept
  BY DEF Core
<1>1. /\ tout.pc = "emit" /\ tout.call # NoCall /\ tout.cause # "raises"
      /\ tout' = ToutReading
      /\ replied' = replied \cup ({tout.by} \ {NoCall})
      /\ UNCHANGED <<tin, main, outstanding, upstream, unanswered, batch>>
      /\ CloseCall(tout.call, tout.cause, tout.by)
      /\ UNCHANGED <<request, starts, raised, pending, emitterOn>>
  BY DEF CloseAnswered, EmitTerminal, WriteToClient, ToutAt
<1>2. tout.call \in Calls /\ tout.cause \in Causes /\ tout.by \in Calls \cup {NoCall}
  BY <1>0, <1>1 DEF SessionTypes, Causes
<1>3. /\ ProcessorInv'
      /\ ClosesWith({tout.call}, Terminal(tout.cause, tout.by))
      /\ Closed' = Closed \cup {tout.call}
      /\ Started' = Started
      /\ CallsIn(pending)' = CallsIn(pending)
  BY <1>0, <1>1, <1>2, OneEventLemma
<1>4. SessionTypes'
  BY <1>0, <1>1, <1>2 DEF SessionTypes, ToutReading
<1>5. Control'
  BY <1>0, <1>1 DEF Control, ToutReading
<1>6. /\ Popped = {tout.call} /\ Popped' = {}
      /\ InTrack' = InTrack /\ Displaced' = Displaced
  BY <1>1 DEF Popped, InTrack, Displaced, ToutReading
<1>7. Kept' /\ tout.call \in Started \ Closed
  BY <1>0, <1>1, <1>3, <1>6 DEF Kept, Partition
<1>8. Effect
  <2>1. Terminal(tout.cause, tout.by) \in TerminalEvents
    BY <1>0, <1>2, TerminalLemma
  <2>2. Closes({tout.call}, Terminal(tout.cause, tout.by))
    <3>1. /\ Terminal(tout.cause, tout.by).cause # "evicted"
          /\ Terminal(tout.cause, tout.by).kept = emitterOn
      BY <1>0, <1>1 DEF Terminal, SessionTypes
    <3>2. QED
      BY <1>1, <1>3, <1>7, <3>1 DEF Closes
  <2>3. QED
    BY <1>2, <2>1, <2>2 DEF Effect
<1>9. QED
  BY <1>3, <1>4, <1>5, <1>7, <1>8 DEF Core

\* The call popped, whose event raises, stays out of the table and open.
LEMMA CloseRaisesLemma ==
  ASSUME Core, CloseRaises
  PROVE  Core' /\ Effect
<1>0. ProcessorInv /\ SessionTypes /\ Control /\ Kept
  BY DEF Core
<1>1. /\ tout.pc = "emit" /\ tout.call # NoCall
      /\ tout' = ToutReading
      /\ replied' = replied \cup ({tout.by} \ {NoCall})
      /\ UNCHANGED <<tin, main, outstanding, upstream, unanswered, batch>>
      /\ raised' = raised \cup {tout.call}
      /\ UNCHANGED <<request, starts, terminals, pending, emitterOn>>
  BY DEF CloseRaises, TerminalRaises, WriteToClient, ToutAt
<1>2. tout.call \in Calls /\ tout.by \in Calls \cup {NoCall}
  BY <1>0, <1>1 DEF SessionTypes
<1>3. ProcessorInv'
  BY <1>0, <1>1, <1>2 DEF ProcessorInv, ProcessorTypeOK
<1>4. SessionTypes'
  BY <1>0, <1>1, <1>2 DEF SessionTypes, ToutReading
<1>5. Control'
  BY <1>0, <1>1 DEF Control, ToutReading
<1>6. /\ Popped = {tout.call} /\ Popped' = {}
      /\ InTrack' = InTrack /\ Displaced' = Displaced
      /\ Closed' = Closed /\ Started' = Started /\ CallsIn(pending)' = CallsIn(pending)
  BY <1>1 DEF Popped, InTrack, Displaced, ToutReading, Closed, Started
<1>7. Kept'
  BY <1>0, <1>1, <1>6 DEF Kept, Partition
<1>8. QED
  BY <1>1, <1>3, <1>4, <1>5, <1>7 DEF Core, Effect

\* The server pump where it emits nothing.
LEMMA ServerQuietLemma ==
  ASSUME Core, ReceiveNonObject \/ Relay \/ UpstreamOutputEnds
  PROVE  Core' /\ Effect
<1>0. ProcessorInv /\ SessionTypes /\ Control /\ Kept
  BY DEF Core
<1>1. /\ UNCHANGED <<tin, main, outstanding, upstream, unanswered>>
      /\ UNCHANGED processor
      /\ \/ tout.pc = "read" /\ \E pc \in {"dead", "done"} : tout' = [tout EXCEPT !.pc = pc]
         \/ tout.call = NoCall /\ tout' = ToutReading
      /\ replied' = replied \/ replied' = replied \cup ({tout.by} \ {NoCall})
      /\ UNCHANGED batch
  BY DEF ReceiveNonObject, Relay, UpstreamOutputEnds, WriteToClient, ToutAt, wire
<1>2. ProcessorInv' /\ UNCHANGED <<request, starts, terminals, raised, pending, emitterOn>>
  BY <1>0, <1>1, ProcessorUnchangedLemma
<1>3. /\ tout.call = NoCall /\ tout'.call = NoCall
      /\ tout' \in [pc : {"read", "emit", "done", "dead"}, call : Calls \cup {NoCall},
                    by : Calls \cup {NoCall}, cause : {"end", "error", "raises"}]
  <2>1. CASE tout.call = NoCall /\ tout' = ToutReading
    BY <2>1 DEF ToutReading
  <2>2. CASE tout.pc = "read" /\ \E pc \in {"dead", "done"} : tout' = [tout EXCEPT !.pc = pc]
    <3>1. PICK pc \in {"dead", "done"} : tout' = [tout EXCEPT !.pc = pc]
      BY <2>2
    <3>2. tout.call = NoCall
      BY <1>0, <2>2 DEF Control
    <3>3. QED
      BY <1>0, <3>1, <3>2 DEF SessionTypes
  <2>3. QED
    BY <1>1, <2>1, <2>2
<1>4. SessionTypes'
  <2>1. tout.by \in Calls \cup {NoCall}
    BY <1>0 DEF SessionTypes
  <2>2. replied' \subseteq Calls
    BY <1>0, <1>1, <2>1 DEF SessionTypes
  <2>3. QED
    BY <1>0, <1>1, <1>3, <2>2 DEF SessionTypes
<1>5. Control'
  BY <1>0, <1>1, <1>2, <1>3 DEF Control
<1>6. InTrack' = InTrack /\ Displaced' = Displaced /\ Popped' = Popped
  BY <1>1, <1>3 DEF InTrack, Displaced, Popped
<1>7. QED
  BY <1>0, <1>1, <1>2, <1>4, <1>5, <1>6, QuietLemma DEF Core

\* The main thread.  drain_pending takes over all that the table holds.
LEMMA DrainPendingLemma ==
  ASSUME Core, DrainPending
  PROVE  Core' /\ Effect
<1>0. ProcessorInv /\ SessionTypes /\ Control /\ Kept
  BY DEF Core
<1>1. /\ main = "drain" /\ main' = "close"
      /\ outstanding' = CallsIn(pending)
      /\ EmptyTable
      /\ UNCHANGED <<tin, tout, upstream, unanswered, replied, batch>>
  BY DEF DrainPending, wire
<1>2. /\ ProcessorInv'
      /\ CallsIn(pending)' = {} /\ CallsIn(pending) \subseteq Calls
      /\ UNCHANGED events /\ Started' = Started /\ Closed' = Closed
  BY <1>0, <1>1, EmptyTableLemma
<1>3. UNCHANGED <<starts, terminals, raised>>
  BY <1>2 DEF events
<1>4. SessionTypes' /\ Control'
  BY <1>0, <1>1, <1>2, <1>3 DEF SessionTypes, Control
<1>5. /\ outstanding = {}
      /\ InTrack' = InTrack /\ Displaced' = Displaced /\ Popped' = Popped
  BY <1>0, <1>1 DEF Control, InTrack, Displaced, Popped
<1>6. Kept'
  BY <1>0, <1>1, <1>2, <1>3, <1>5 DEF Kept, Partition
<1>7. QED
  BY <1>2, <1>3, <1>4, <1>6 DEF Core, Effect

\* One call drained goes to the closed ones.
LEMMA CloseOutstandingLemma ==
  ASSUME Core, NEW c \in Calls, CloseOutstanding(c)
  PROVE  Core' /\ Effect
<1>0. ProcessorInv /\ SessionTypes /\ Control /\ Kept
  BY DEF Core
<1>1. /\ main = "close" /\ c \in outstanding
      /\ outstanding' = outstanding \ {c}
      /\ UNCHANGED <<tin, tout, main, upstream, unanswered, replied, batch>>
      /\ CloseCall(c, "closed", NoCall)
      /\ UNCHANGED <<request, starts, raised, pending, emitterOn>>
  BY DEF CloseOutstanding, CloseDrained, wire
<1>2. "closed" \in Causes
  BY DEF Causes
<1>3. /\ ProcessorInv'
      /\ ClosesWith({c}, Terminal("closed", NoCall))
      /\ Closed' = Closed \cup {c}
      /\ Started' = Started
      /\ CallsIn(pending)' = CallsIn(pending)
  BY <1>0, <1>1, <1>2, OneEventLemma
<1>4. SessionTypes' /\ Control'
  BY <1>0, <1>1 DEF SessionTypes, Control
<1>5. InTrack' = InTrack /\ Displaced' = Displaced /\ Popped' = Popped
  BY <1>1 DEF InTrack, Displaced, Popped
<1>6. Kept' /\ c \in Started \ Closed
  BY <1>0, <1>1, <1>3, <1>5 DEF Kept, Partition
<1>7. Effect
  <2>1. Terminal("closed", NoCall) \in TerminalEvents
    BY <1>0, <1>2, TerminalLemma
  <2>2. Closes({c}, Terminal("closed", NoCall))
    BY <1>1, <1>3, <1>6 DEF Closes, Terminal
  <2>3. QED
    BY <2>1, <2>2 DEF Effect
<1>8. QED
  BY <1>3, <1>4, <1>6, <1>7 DEF Core

\* The child's exit, and the main thread where it emits nothing.
LEMMA MainQuietLemma ==
  ASSUME Core, UpstreamExits \/ JoinServerPump \/ StopEmitter \/ Exit \/ UNCHANGED vars
  PROVE  Core' /\ Effect
<1>0. ProcessorInv /\ SessionTypes /\ Control /\ Kept
  BY DEF Core
<1>1. /\ UNCHANGED <<tin, tout, outstanding, unanswered, replied, batch>>
      /\ UNCHANGED <<request, starts, terminals, raised, pending>>
      /\ emitterOn' \in {emitterOn, FALSE}
      /\ upstream' \in {upstream, "exited"}
      /\ \/ main' = main
         \/ main # "close" /\ main' \in {"drain", "exited"}
         \/ outstanding = {} /\ main' = "stop"
  BY DEF UpstreamExits, JoinServerPump, StopEmitter, Exit, vars, processor, events, wire
<1>2. ProcessorInv'
  BY <1>0, <1>1 DEF ProcessorInv, ProcessorTypeOK
<1>3. SessionTypes' /\ Control'
  BY <1>0, <1>1 DEF SessionTypes, Control
<1>4. InTrack' = InTrack /\ Displaced' = Displaced /\ Popped' = Popped
  BY <1>1 DEF InTrack, Displaced, Popped
<1>5. QED
  BY <1>0, <1>1, <1>2, <1>3, <1>4, QuietLemma DEF Core

-----------------------------------------------------------------------------
(* Which call an answer closes.                                            *)

\* A request once sent stays sent, and only one not yet sent is started.
LEMMA SentLemma ==
  ASSUME Core,
         \/ UNCHANGED tin
         \/ tin'.call = tin.call /\ (tin.pc \in {"read", "gone"} => tin'.pc \in {"read", "gone"})
         \/ tin'.call = tin.call + 1 /\ tin.pc = "read",
         Started' = Started \/ (tin.pc = "start" /\ Started' = Started \cup {tin.call})
  PROVE  \A b, c : NotOlder(b, c) => NotOlder(b, c)'
<1>1. tin.call \in Nat
  <2>1. tin.call \in Calls \cup {NoCall}
    BY DEF Core, SessionTypes
  <2>2. QED
    BY <2>1 DEF Calls, NoCall
<1>2. ASSUME NEW b, Sent(b)
      PROVE  Sent(b)' /\ (b \in Started' => b \in Started)
  <2>1. b \in Nat /\ b \in Calls
    BY <1>2 DEF Sent, Calls
  <2>2. Sent(b)'
    BY <1>1, <1>2, <2>1 DEF Sent
  <2>3. tin.pc = "start" => b # tin.call
    BY <1>1, <1>2, <2>1 DEF Sent
  <2>4. QED
    BY <2>2, <2>3
<1>3. TAKE b, c
<1>4. Sent(b) => Sent(b)' /\ (b \in Started' => b \in Started)
  BY <1>2
<1>5. QED
  BY <1>4 DEF NotOlder

\* A step that adds no entry, and no call to those the table is to know.
LEMMA LatestLemma ==
  ASSUME Latest,
         \A i \in DOMAIN pending' : \E j \in DOMAIN pending : pending'[i] = pending[j],
         \A c \in Started' \ InTrack' : c \in Started \ InTrack /\ request'[c] = request[c]
  PROVE  Latest'
<1>1. SUFFICES ASSUME NEW i \in DOMAIN pending', NEW c \in Started' \ InTrack',
                      request'[c].id = pending'[i].id
               PROVE  c <= pending'[i].call
  BY DEF Latest
<1>2. PICK j \in DOMAIN pending : pending'[i] = pending[j]
  OBVIOUS
<1>3. c \in Started \ InTrack /\ request[c].id = pending[j].id
  BY <1>1, <1>2
<1>4. QED
  BY <1>2, <1>3 DEF Latest

\* What the server pump holds, when it holds what it held.
LEMMA SameAnswerLemma ==
  ASSUME UNCHANGED tout, tout.call # NoCall => NotOlder(tout.by, tout.call),
         \A b, c : NotOlder(b, c) => NotOlder(b, c)'
  PROVE  tout'.call # NoCall => NotOlder(tout.by, tout.call)'
<1>1. PICK b, c : b = tout.by /\ c = tout.call
  OBVIOUS
<1>2. tout.call # NoCall => NotOlder(b, c)'
  BY <1>1
<1>3. QED
  BY <1>1, <1>2 DEF NotOlder, Sent

\* Terminal events that no answer brought, or one that closes no older call.
LEMMA OrderLemma ==
  ASSUME Core, Order, Latest',
         \A b, c : NotOlder(b, c) => NotOlder(b, c)',
         tout'.call # NoCall => NotOlder(tout.by, tout.call)',
         \/ UNCHANGED terminals
         \/ \E S \in SUBSET Calls, t \in TerminalEvents :
              ClosesWith(S, t) /\ \A c \in S : NotOlder(t.by, c)'
  PROVE  Order'
<1>1. ASSUME NEW c \in Calls, NEW i \in DOMAIN terminals'[c]
      PROVE  NotOlder(terminals[c][i].by, c)'
  <2> PICK by : by = terminals'[c][i].by
    OBVIOUS
  <2> SUFFICES NotOlder(by, c)'
    BY DEF NotOlder, Sent
  <2>1. CASE UNCHANGED terminals
    <3>1. i \in DOMAIN terminals[c] /\ by = terminals[c][i].by
      BY <1>1, <2>1
    <3>2. NotOlder(by, c)
      BY <3>1 DEF Order
    <3>3. QED
      BY <3>2
  <2>2. CASE \E S \in SUBSET Calls, t \in TerminalEvents :
               ClosesWith(S, t) /\ \A d \in S : NotOlder(t.by, d)'
    <3>1. PICK S \in SUBSET Calls, t \in TerminalEvents :
            ClosesWith(S, t) /\ \A d \in S : NotOlder(t.by, d)'
      BY <2>2
    <3>2. terminals'[c] = IF c \in S THEN Append(terminals[c], t) ELSE terminals[c]
      BY <3>1, ClosesWithLemma DEF Core
    <3>3. terminals[c] \in Seq(TerminalEvents)
      BY DEF Core, ProcessorInv, ProcessorTypeOK, TerminalEvents
    <3>4. \/ i \in DOMAIN terminals[c] /\ terminals'[c][i] = terminals[c][i]
          \/ c \in S /\ terminals'[c][i] = t
      <4>1. CASE c \in S
        <5>1. /\ Len(terminals[c]) \in Nat
              /\ DOMAIN terminals[c] = 1 .. Len(terminals[c])
              /\ DOMAIN terminals'[c] = 1 .. Len(terminals[c]) + 1
              /\ \A k \in 1 .. Len(terminals[c]) : terminals'[c][k] = terminals[c][k]
              /\ terminals'[c][Len(terminals[c]) + 1] = t
          BY <3>2, <3>3, <4>1, AppendProperties, LenProperties
        <5>2. i \in 1 .. Len(terminals[c]) \/ i = Len(terminals[c]) + 1
          BY <1>1, <5>1
        <5>3. QED
          BY <4>1, <5>1, <5>2
      <4>2. CASE c \notin S
        BY <1>1, <3>2, <4>2
      <4>3. QED
        BY <4>1, <4>2
    <3>5. CASE i \in DOMAIN terminals[c] /\ terminals'[c][i] = terminals[c][i]
      <4>1. NotOlder(by, c)
        BY <3>5 DEF Order
      <4>2. QED
        BY <4>1
    <3>6. CASE c \in S /\ terminals'[c][i] = t
      <4>1. NotOlder(t.by, c)' /\ by = t.by
        BY <3>1, <3>6
      <4>2. QED
        BY <4>1
    <3>7. QED
      BY <3>4, <3>5, <3>6
  <2>3. QED
    BY <2>1, <2>2
<1>2. QED
  BY <1>1 DEF Order

\* What a pop leaves was in the table before.
LEMMA WithoutEntriesLemma ==
  ASSUME NEW table \in Table(Ids, Calls), NEW id
  PROVE  \A i \in DOMAIN Without(table, id) : \E j \in DOMAIN table : Without(table, id)[i] = table[j]
<1>1. CASE HasId(table, id)
  <2> DEFINE slot == SlotOf(table, id)
             n == Len(table)
  <2>1. n \in Nat /\ DOMAIN table = 1 .. n
    BY LenProperties DEF Table
  <2>2. Without(table, id) = [i \in 1 .. n - 1 |-> IF i < slot THEN table[i] ELSE table[i + 1]]
    BY <1>1 DEF Without, DropSlot
  <2> HIDE DEF slot, n
  <2>3. TAKE i \in DOMAIN Without(table, id)
  <2>4. i \in 1 .. n - 1 /\ i \in DOMAIN table /\ i + 1 \in DOMAIN table
    BY <2>1, <2>2
  <2>5. Without(table, id)[i] = table[i] \/ Without(table, id)[i] = table[i + 1]
    BY <2>2, <2>4
  <2>6. QED
    BY <2>4, <2>5
<1>2. CASE ~HasId(table, id)
  BY <1>2 DEF Without
<1>3. QED
  BY <1>1, <1>2

\* What _track leaves is the new entry, or was there before under another id.
LEMMA TrackEntriesLemma ==
  ASSUME NEW table \in Table(Ids, Calls), NEW id \in Ids, NEW c \in Calls,
         \A d \in CallsIn(table) : d < c
  PROVE  \A i \in DOMAIN Trimmed(Inserted(table, id, c)) :
           LET e == Trimmed(Inserted(table, id, c))[i]
           IN  e = Entry(id, c) \/ (e.id # id /\ \E j \in DOMAIN table : e = table[j])
<1> DEFINE W == Without(table, id)
           T == Inserted(table, id, c)
           n == Len(W)
<1>1. W \in Table(Ids, Calls) /\ ~HasId(W, id) /\ T \in Table(Ids, Calls)
  BY CallsLemma, WithoutLemma, InsertedLemma
<1>2. n \in Nat /\ DOMAIN W = 1 .. n /\ W \in Seq([id : Ids, call : Calls])
  BY <1>1, LenProperties DEF Table
<1>3. T = Append(W, Entry(id, c))
  BY DEF Inserted
<1>4. \A i \in DOMAIN W : \E j \in DOMAIN table : W[i] = table[j]
  BY WithoutEntriesLemma
<1>5. /\ DOMAIN T = 1 .. n + 1 /\ Len(T) = n + 1
      /\ \A i \in 1 .. n : T[i] = W[i]
      /\ T[n + 1] = Entry(id, c)
  <2>1. Entry(id, c) \in [id : Ids, call : Calls]
    BY DEF Entry
  <2>2. QED
    BY <1>2, <1>3, <2>1, AppendProperties
<1> HIDE DEF W, T, n
<1>6. \A i \in 1 .. n + 1 : T[i] = Entry(id, c) \/ (T[i].id # id /\ \E j \in DOMAIN table : T[i] = table[j])
  <2>1. TAKE i \in 1 .. n + 1
  <2>2. CASE i = n + 1
    BY <1>5, <2>2
  <2>3. CASE i # n + 1
    <3>1. i \in DOMAIN W /\ T[i] = W[i]
      BY <1>2, <1>5, <2>3
    <3>2. W[i].id # id
      BY <1>1, <3>1 DEF HasId
    <3>3. QED
      BY <1>4, <3>1, <3>2
  <2>4. QED
    BY <2>2, <2>3
<1>7. \A i \in DOMAIN Trimmed(T) : \E k \in 1 .. n + 1 : Trimmed(T)[i] = T[k]
  <2>1. TAKE i \in DOMAIN Trimmed(T)
  <2>2. Excess(T) \in Nat
    BY <1>2, <1>5, MaxPendingAssumption DEF Excess
  <2>3. /\ i \in Nat /\ i >= 1 /\ Excess(T) + i <= n + 1
        /\ Trimmed(T)[i] = T[Excess(T) + i]
    <3>1. T \in Seq([id : Ids, call : Calls]) /\ Len(T) \in Nat
      BY <1>1, LenProperties DEF Table
    <3>2. Trimmed(T) = [k \in 1 .. Len(T) - Excess(T) |-> T[Excess(T) + k]]
      BY <2>2, <3>1, SMTT(30) DEF Trimmed
    <3>3. i \in 1 .. Len(T) - Excess(T)
      BY <3>2
    <3>4. QED
      BY <1>2, <1>5, <2>2, <3>2, <3>3
  <2>4. QED
    BY <2>2, <2>3, <1>2
<1>8. QED
  BY <1>5, <1>6, <1>7 DEF T

\* The client pump on a request whose call the table does not hear of.
LEMMA ClientOrderLemma ==
  ASSUME Core, Order,
         \/ \E id \in AnyId, kind \in Kinds : ReadRequest(id, kind)
         \/ RejectRequest \/ AnswerOwnTool \/ EmitStart \/ StartFails
         \/ Forward \/ ForwardBatch \/ ClientGone
  PROVE  Order'
<1>0. ProcessorInv /\ SessionTypes /\ Control /\ Kept
  BY DEF Core
<1>1. UNCHANGED <<pending, terminals, tout>>
  BY DEF ReadRequest, RejectRequest, AnswerOwnTool, EmitStart, StartEvent, StartFails, Forward,
         ForwardBatch, ClientGone, processor, events
<1>2. tin \in [pc : {"read", "own", "start", "track", "close", "forward", "gone"},
               call : Calls \cup {NoCall}, displaced : Calls \cup {NoCall}]
  BY <1>0 DEF SessionTypes
<1>3. CASE \E id \in AnyId, kind \in Kinds : ReadRequest(id, kind)
  <2>1. PICK id \in AnyId, kind \in Kinds : ReadRequest(id, kind)
    BY <1>3
  <2>2. /\ tin.pc = "read" /\ tin'.call = tin.call + 1 /\ tin'.pc # "track"
        /\ request' = [request EXCEPT ![tin.call + 1] = [id |-> id, kind |-> kind]]
        /\ UNCHANGED starts
    BY <2>1 DEF ReadRequest, TinAt, NextCall, events
  <2>3. Started' = Started /\ InTrack = {} /\ InTrack' = {}
    BY <2>2 DEF Started, InTrack
  <2>4. tin.call + 1 \notin Started
    <3>1. tin.call \in Nat
      BY <1>2 DEF Calls, NoCall
    <3>2. QED
      BY <1>0, <3>1 DEF Control, Started, Calls
  <2>5. \A c \in Started : request'[c] = request[c]
    BY <1>0, <2>2, <2>4 DEF Started, ProcessorInv, ProcessorTypeOK
  <2>6. \A i \in DOMAIN pending' : \E j \in DOMAIN pending : pending'[i] = pending[j]
    BY <1>1
  <2>7. Latest'
    BY <2>3, <2>5, <2>6, LatestLemma DEF Order
  <2>8. \A b, c : NotOlder(b, c) => NotOlder(b, c)'
    BY <2>2, <2>3, SentLemma
  <2>9. tout'.call # NoCall => NotOlder(tout.by, tout.call)'
    <3>1. tout.call # NoCall => NotOlder(tout.by, tout.call)
      BY DEF Order
    <3>2. QED
      BY <1>1, <2>8, <3>1, SameAnswerLemma
  <2>10. QED
    BY <1>1, <2>7, <2>8, <2>9, OrderLemma
<1>4. CASE ~ \E id \in AnyId, kind \in Kinds : ReadRequest(id, kind)
  <2>1. UNCHANGED request
    BY <1>4 DEF RejectRequest, AnswerOwnTool, EmitStart, StartEvent, StartFails, Forward,
                ForwardBatch, ClientGone, processor
  <2>2. /\ \/ UNCHANGED tin
           \/ tin'.call = tin.call /\ (tin.pc \in {"read", "gone"} => tin'.pc \in {"read", "gone"})
        /\ \/ starts' = starts /\ tin'.pc # "track" /\ tin.pc # "track"
           \/ starts' = starts /\ UNCHANGED tin
           \/ EmitStart
    BY <1>2, <1>4 DEF RejectRequest, AnswerOwnTool, EmitStart, StartFails, Forward,
                      ForwardBatch, ClientGone, processor, TinAt, Proceed
  <2>3. ASSUME EmitStart
        PROVE  /\ tin.pc = "start" /\ tin'.pc = "track" /\ tin'.call = tin.call
               /\ Started' = Started \cup {tin.call} /\ tin.call \notin Started
    <3>1. /\ tin.pc = "start" /\ tin' = [tin EXCEPT !.pc = "track"] /\ StartEvent(tin.call)
      BY <2>3 DEF EmitStart, TinAt, Proceed
    <3>2. tin.call \in Calls /\ starts[tin.call] = "none"
      BY <1>0, <1>2, <3>1 DEF Control
    <3>3. Started' = Started \cup {tin.call}
      BY <1>0, <3>1, <3>2, StartEventLemma
    <3>4. QED
      BY <1>2, <3>1, <3>2, <3>3 DEF Started
  <2>4. Started' = Started \/ (tin.pc = "start" /\ Started' = Started \cup {tin.call})
    BY <2>2, <2>3 DEF Started
  <2>5. \A c \in Started' \ InTrack' : c \in Started \ InTrack
    <3>1. CASE EmitStart
      BY <2>3, <3>1 DEF InTrack
    <3>2. CASE ~EmitStart
      BY <2>2, <3>2 DEF Started, InTrack
    <3>3. QED
      BY <3>1, <3>2
  <2>6. \A i \in DOMAIN pending' : \E j \in DOMAIN pending : pending'[i] = pending[j]
    BY <1>1
  <2>7. Latest'
    BY <2>1, <2>5, <2>6, LatestLemma DEF Order
  <2>8. \A b, c : NotOlder(b, c) => NotOlder(b, c)'
    BY <2>2, <2>4, SentLemma
  <2>9. tout'.call # NoCall => NotOlder(tout.by, tout.call)'
    <3>1. tout.call # NoCall => NotOlder(tout.by, tout.call)
      BY DEF Order
    <3>2. QED
      BY <1>1, <2>8, <3>1, SameAnswerLemma
  <2>10. QED
    BY <1>1, <2>7, <2>8, <2>9, OrderLemma
<1>5. QED
  BY <1>3, <1>4

\* The client pump where it closes a call, or hands one to the table: no answer is
\* concerned, and the table learns of the youngest call.
LEMMA TrackOrderLemma ==
  ASSUME Core, Order, TrackBadId \/ Track \/ CloseReused
  PROVE  Order'
<1>0. ProcessorInv /\ SessionTypes /\ Control /\ Kept
  BY DEF Core
<1>1. /\ tin.pc \in {"track", "close"} /\ tin'.call = tin.call /\ tin'.pc \in {"close", "forward"}
      /\ UNCHANGED <<request, starts, tout>>
      /\ tin.call \in Calls
  <2>1. tin.pc \in {"track", "close"} /\ UNCHANGED <<request, starts, tout>>
    BY DEF TrackBadId, Track, CloseReused, TinAt, TrackInvalid, TrackValid, CloseDisplaced
  <2>2. tin'.call = tin.call /\ tin'.pc \in {"close", "forward"}
    <3>1. tin \in [pc : {"read", "own", "start", "track", "close", "forward", "gone"},
                   call : Calls \cup {NoCall}, displaced : Calls \cup {NoCall}]
      BY <1>0 DEF SessionTypes
    <3>2. CASE TrackBadId
      BY <3>1, <3>2 DEF TrackBadId, Proceed
    <3>3. CASE Track
      <4>1. \E pc \in {"close", "forward"} : \E d : tin' = [tin EXCEPT !.pc = pc, !.displaced = d]
        BY <3>3 DEF Track
      <4>2. QED
        BY <3>1, <4>1
    <3>4. CASE CloseReused
      BY <3>1, <3>4 DEF CloseReused
    <3>5. QED
      BY <3>2, <3>3, <3>4
  <2>3. tin.call \in Calls
    BY <1>0, <2>1 DEF Control, SessionTypes
  <2>4. QED
    BY <2>1, <2>2, <2>3
<1>2. /\ Started' = Started /\ InTrack' = {}
      /\ InTrack = IF tin.pc = "track" THEN {tin.call} ELSE {}
      /\ Started \subseteq Calls
  BY <1>1 DEF Started, InTrack
<1>3. \A b, c : NotOlder(b, c) => NotOlder(b, c)'
  BY <1>1, <1>2, SentLemma
<1>4. tout'.call # NoCall => NotOlder(tout.by, tout.call)'
  <2>1. tout.call # NoCall => NotOlder(tout.by, tout.call)
    BY DEF Order
  <2>2. QED
    BY <1>1, <1>3, <2>1, SameAnswerLemma
<1>5. \A c : NotOlder(NoCall, c)'
  BY DEF NotOlder, NoCall
<1>6. CASE TrackBadId
  <2>1. /\ CloseCall(tin.call, "invalid", NoCall) /\ UNCHANGED pending /\ tin.pc = "track"
        /\ ~IsRequestId(request[tin.call].id) /\ "invalid" \in Causes
    BY <1>6 DEF TrackBadId, TrackInvalid, TinAt, Causes
  <2>2. /\ ClosesWith({tin.call}, Terminal("invalid", NoCall))
        /\ Terminal("invalid", NoCall) \in TerminalEvents
        /\ Terminal("invalid", NoCall).by = NoCall
    BY <1>0, <1>1, <2>1, CloseCallLemma, TerminalLemma DEF Terminal
  <2>3. Latest'
    <3>1. SUFFICES ASSUME NEW i \in DOMAIN pending, NEW c \in Started, c # tin.call,
                          request[c].id = pending[i].id
                   PROVE  c <= pending[i].call
      <4>1. \A i \in DOMAIN pending : request[tin.call].id # pending[i].id
        <5>1. TAKE i \in DOMAIN pending
        <5>2. pending \in Seq([id : Ids, call : Calls])
          BY <1>0 DEF ProcessorInv, ProcessorTypeOK
        <5>3. i \in 1 .. Len(pending)
          BY <5>2, LenProperties
        <5>4. pending[i] \in [id : Ids, call : Calls]
          BY <5>2, <5>3, ElementOfSeq
        <5>5. QED
          BY <2>1, <5>4 DEF IsRequestId
      <4>2. QED
        BY <1>1, <1>2, <2>1, <4>1 DEF Latest
    <3>2. QED
      BY <1>2, <2>1, <3>1 DEF Order, Latest
  <2>4. QED
    BY <1>1, <1>3, <1>4, <1>5, <2>2, <2>3, OrderLemma
<1>7. CASE CloseReused
  <2>1. /\ CloseCall(tin.displaced, "reused", NoCall) /\ UNCHANGED pending /\ tin.pc = "close"
        /\ tin.displaced \in Calls /\ "reused" \in Causes
    BY <1>0, <1>7 DEF CloseReused, CloseDisplaced, TinAt, Control, SessionTypes, Causes
  <2>2. /\ ClosesWith({tin.displaced}, Terminal("reused", NoCall))
        /\ Terminal("reused", NoCall) \in TerminalEvents
        /\ Terminal("reused", NoCall).by = NoCall
    BY <1>0, <2>1, CloseCallLemma, TerminalLemma DEF Terminal
  <2>3. /\ \A i \in DOMAIN pending' : \E j \in DOMAIN pending : pending'[i] = pending[j]
        /\ \A c \in Started' \ InTrack' : c \in Started \ InTrack /\ request'[c] = request[c]
    BY <1>1, <1>2, <2>1
  <2>4. Latest'
    BY <2>3, LatestLemma DEF Order
  <2>5. QED
    BY <1>1, <1>3, <1>4, <1>5, <2>1, <2>2, <2>4, OrderLemma
<1>8. CASE Track
  <2>1. tin.pc = "track" /\ TrackValid(tin.call) /\ request[tin.call].id \in Ids
    BY <1>8 DEF Track, TinAt, TrackValid, IsRequestId
  <2>2. pending \in Table(Ids, Calls) /\ \A d \in CallsIn(pending) : d < tin.call
    <3>1. CallsIn(pending) \subseteq Started /\ tin.call \notin CallsIn(pending)
      BY <1>0, <1>2, <2>1 DEF Kept, Partition
    <3>2. \A d \in Started : ~(d > tin.call)
      BY <1>0 DEF Control, Started
    <3>3. QED
      <4>1. pending \in Table(Ids, Calls)
        BY <1>0 DEF ProcessorInv
      <4>2. ASSUME NEW d \in CallsIn(pending) PROVE d < tin.call
        <5>1. d \in Calls /\ ~(d > tin.call) /\ d # tin.call
          BY <1>2, <3>1, <3>2, <4>2
        <5>2. QED
          BY <1>1, <5>1 DEF Calls
      <4>3. QED
        BY <4>1, <4>2
  <2>3. /\ pending' = Trimmed(Inserted(pending, request[tin.call].id, tin.call))
        /\ \E S \in SUBSET Calls : ClosesWith(S, Terminal("evicted", NoCall))
    <3>1. pending' = Trimmed(Inserted(pending, request[tin.call].id, tin.call))
      BY <2>1 DEF TrackValid
    <3>2. PICK S \in SUBSET Calls : ClosesWith(S, Terminal("evicted", NoCall))
      BY <1>0, <1>1, <2>1, <2>2, TrackValidLemma
    <3>3. QED
      BY <3>1, <3>2
  <2>4. Terminal("evicted", NoCall) \in TerminalEvents /\ Terminal("evicted", NoCall).by = NoCall
    BY <1>0, TerminalLemma DEF Terminal, Causes
  <2>5. \A i \in DOMAIN pending' :
          \/ pending'[i] = Entry(request[tin.call].id, tin.call)
          \/ /\ pending'[i].id # request[tin.call].id
             /\ \E j \in DOMAIN pending : pending'[i] = pending[j]
    BY <1>1, <2>1, <2>2, <2>3, TrackEntriesLemma
  <2>6. Latest'
    <3>1. SUFFICES ASSUME NEW i \in DOMAIN pending', NEW c \in Started, request[c].id = pending'[i].id
                   PROVE  c <= pending'[i].call
      BY <1>1, <1>2 DEF Latest
    <3>2. CASE pending'[i] = Entry(request[tin.call].id, tin.call)
      <4>1. pending'[i].call = tin.call
        BY <3>2 DEF Entry
      <4>2. c \in Calls /\ ~(c > tin.call)
        BY <1>0 DEF Control, Started
      <4>3. QED
        BY <1>1, <4>1, <4>2 DEF Calls
    <3>3. CASE /\ pending'[i].id # request[tin.call].id
               /\ \E j \in DOMAIN pending : pending'[i] = pending[j]
      <4>1. c # tin.call
        BY <3>1, <3>3
      <4>2. QED
        BY <1>2, <3>1, <3>3, <4>1 DEF Order, Latest
    <3>4. QED
      BY <2>5, <3>2, <3>3
  <2>7. QED
    BY <1>1, <1>3, <1>4, <1>5, <2>3, <2>4, <2>6, OrderLemma
<1>9. QED
  BY <1>6, <1>7, <1>8

\* A message pops the latest call under its id, so none older than the request it
\* answers.
LEMMA ReceiveOrderLemma ==
  ASSUME Core, Order, NEW id, NEW shape, NEW by \in Calls \cup {NoCall}, Receive(id, shape, by),
         by # NoCall => by \in unanswered /\ id = request[by].id
  PROVE  Order'
<1>0. ProcessorInv /\ SessionTypes /\ Control /\ Kept
  BY DEF Core
<1>1. /\ Pop(id) /\ pending' = Without(pending, id)
      /\ tout'.call = CallAt(pending, id) /\ tout'.by = by
      /\ UNCHANGED <<tin, request, starts, terminals>>
  BY DEF Receive, Pop, events
<1>2. Started' = Started /\ InTrack' = InTrack
  BY <1>1 DEF Started, InTrack
<1>3. \A b, c : NotOlder(b, c) => NotOlder(b, c)'
  BY <1>1, <1>2, SentLemma
<1>4. pending \in Table(Ids, Calls)
  BY <1>0 DEF ProcessorInv
<1>5. /\ \A i \in DOMAIN pending' : \E j \in DOMAIN pending : pending'[i] = pending[j]
      /\ \A c \in Started' \ InTrack' : c \in Started \ InTrack /\ request'[c] = request[c]
  BY <1>1, <1>2, <1>4, WithoutEntriesLemma
<1>6. Latest'
  BY <1>5, LatestLemma DEF Order
<1>7. ASSUME CallAt(pending, id) # NoCall, by # NoCall
      PROVE  Sent(by) /\ (by \in Started => by <= CallAt(pending, id))
  <2>1. Sent(by)
    BY <1>0, <1>7 DEF Control, SessionTypes, Sent
  <2>2. by \in Started => by \notin InTrack
    <3>1. by \in Nat /\ tin.pc = "track" => by # tin.call
      BY <2>1 DEF Sent, Calls
    <3>2. QED
      BY <3>1 DEF InTrack, Started, Calls
  <2>3. HasId(pending, id) /\ CallAt(pending, id) = pending[SlotOf(pending, id)].call
    BY <1>7 DEF CallAt
  <2>4. SlotOf(pending, id) \in DOMAIN pending /\ pending[SlotOf(pending, id)].id = id
    BY <2>3, SlotLemma
  <2>5. by \in Started => by <= CallAt(pending, id)
    BY <1>7, <2>2, <2>3, <2>4 DEF Order, Latest
  <2>6. QED
    BY <2>1, <2>5
<1>8. tout'.call # NoCall => NotOlder(tout.by, tout.call)'
  <2>1. PICK c : c = CallAt(pending, id)
    OBVIOUS
  <2>2. c # NoCall => NotOlder(by, c)
    BY <1>7, <2>1 DEF NotOlder
  <2>3. c # NoCall => NotOlder(by, c)'
    BY <1>3, <2>2
  <2>4. QED
    BY <1>1, <2>1, <2>3 DEF NotOlder, Sent
<1>9. QED
  BY <1>1, <1>3, <1>6, <1>8, OrderLemma

\* The server pump closes the call it popped with the answer that popped it, or
\* popped none; the other threads close a call without an answer.
LEMMA RestOrderLemma ==
  ASSUME Core, Order,
         \/ CloseAnswered \/ CloseRaises \/ ReceiveNonObject \/ Relay \/ UpstreamOutputEnds
         \/ DrainPending \/ \E c \in Calls : CloseOutstanding(c)
         \/ UpstreamExits \/ JoinServerPump \/ StopEmitter \/ Exit \/ UNCHANGED vars
  PROVE  Order'
<1>0. ProcessorInv /\ SessionTypes /\ Control /\ Kept
  BY DEF Core
<1>1. /\ UNCHANGED <<tin, request, starts>>
      /\ pending' \in {pending, <<>>}
      /\ UNCHANGED tout \/ (tout.pc = "read" /\ tout'.call = tout.call) \/ tout'.call = NoCall
  <2>1. CASE CloseAnswered \/ CloseRaises \/ Relay
    BY <2>1 DEF CloseAnswered, CloseRaises, Relay, processor,
                EmitTerminal, TerminalRaises, WriteToClient, ToutReading
  <2>2. CASE ReceiveNonObject \/ UpstreamOutputEnds
    <3>1. /\ tout.pc = "read" /\ UNCHANGED tin /\ UNCHANGED processor
          /\ \E pc \in {"dead", "done"} : tout' = [tout EXCEPT !.pc = pc]
      BY <2>2 DEF ReceiveNonObject, UpstreamOutputEnds, ToutAt
    <3>2. tout'.call = tout.call
      BY <1>0, <3>1 DEF SessionTypes
    <3>3. QED
      BY <3>1, <3>2 DEF processor
  <2>3. CASE DrainPending \/ \E c \in Calls : CloseOutstanding(c)
    BY <2>3 DEF DrainPending, CloseOutstanding, EmptyTable, CloseDrained, events
  <2>4. CASE UpstreamExits \/ JoinServerPump \/ StopEmitter \/ Exit \/ UNCHANGED vars
    BY <2>4 DEF UpstreamExits, JoinServerPump, StopEmitter, Exit, vars, processor, events
  <2>5. QED
    BY <2>1, <2>2, <2>3, <2>4
<1>2. Started' = Started /\ InTrack' = InTrack
  BY <1>1 DEF Started, InTrack
<1>3. \A b, c : NotOlder(b, c) => NotOlder(b, c)'
  BY <1>1, <1>2, SentLemma
<1>4. tout'.call # NoCall => NotOlder(tout.by, tout.call)'
  <2>1. CASE UNCHANGED tout
    <3>1. tout.call # NoCall => NotOlder(tout.by, tout.call)
      BY DEF Order
    <3>2. QED
      BY <1>3, <2>1, <3>1, SameAnswerLemma
  <2>2. CASE tout.pc = "read"
    BY <1>0, <1>1, <2>1, <2>2 DEF Control
  <2>3. QED
    BY <1>1, <2>1, <2>2
<1>5. Latest'
  <2>1. \A i \in DOMAIN pending' : \E j \in DOMAIN pending : pending'[i] = pending[j]
    BY <1>1
  <2>2. \A c \in Started' \ InTrack' : c \in Started \ InTrack /\ request'[c] = request[c]
    BY <1>1, <1>2
  <2>3. QED
    BY <2>1, <2>2, LatestLemma DEF Order
<1>6. \/ UNCHANGED terminals
      \/ \E S \in SUBSET Calls, t \in TerminalEvents :
           ClosesWith(S, t) /\ \A c \in S : NotOlder(t.by, c)'
  <2>1. CASE CloseAnswered
    <3>1. /\ CloseCall(tout.call, tout.cause, tout.by) /\ tout.call # NoCall
          /\ tout.call \in Calls /\ tout.cause \in Causes /\ tout.by \in Calls \cup {NoCall}
      BY <1>0, <2>1 DEF CloseAnswered, EmitTerminal, SessionTypes, Causes
    <3>2. PICK c, b, cause : c = tout.call /\ b = tout.by /\ cause = tout.cause
      OBVIOUS
    <3>3. /\ ClosesWith({c}, Terminal(cause, b))
          /\ Terminal(cause, b) \in TerminalEvents
          /\ Terminal(cause, b).by = b
      BY <1>0, <3>1, <3>2, CloseCallLemma, TerminalLemma DEF Terminal
    <3>4. NotOlder(b, c)'
      BY <1>3, <3>1, <3>2 DEF Order
    <3>5. QED
      BY <3>1, <3>2, <3>3, <3>4
  <2>2. CASE \E c \in Calls : CloseOutstanding(c)
    <3>1. PICK c \in Calls : CloseCall(c, "closed", NoCall)
      BY <2>2 DEF CloseOutstanding, CloseDrained
    <3>2. /\ ClosesWith({c}, Terminal("closed", NoCall))
          /\ Terminal("closed", NoCall) \in TerminalEvents
          /\ Terminal("closed", NoCall).by = NoCall
      BY <1>0, <3>1, CloseCallLemma, TerminalLemma DEF Terminal, Causes
    <3>3. NotOlder(NoCall, c)'
      BY DEF NotOlder, NoCall
    <3>4. QED
      BY <3>2, <3>3
  <2>3. CASE ~CloseAnswered /\ ~ \E c \in Calls : CloseOutstanding(c)
    BY <2>3 DEF CloseRaises, ReceiveNonObject, Relay, UpstreamOutputEnds, DrainPending,
                UpstreamExits, JoinServerPump, StopEmitter, Exit, vars, processor, events,
                TerminalRaises, EmptyTable
  <2>4. QED
    BY <2>1, <2>2, <2>3
<1>7. QED
  BY <1>3, <1>4, <1>5, <1>6, OrderLemma

\* Every step keeps the order of the answers.
LEMMA OrderStepLemma ==
  ASSUME Core, Order, [Next]_vars
  PROVE  Order'
<1>1. CASE ClientPump
  BY <1>1, ClientOrderLemma, TrackOrderLemma DEF ClientPump
<1>2. ASSUME NEW c \in Calls, NEW shape \in Shapes, ReceiveAnswer(c, shape)
      PROVE  Order'
  <2>1. Receive(request[c].id, shape, c) /\ c \in unanswered
    BY <1>2 DEF ReceiveAnswer
  <2>2. QED
    BY <2>1, ReceiveOrderLemma
<1>3. ASSUME NEW id \in ServerIds, ReceiveServerRequest(id)
      PROVE  Order'
  <2>1. Receive(id, "result", NoCall)
    BY <1>3 DEF ReceiveServerRequest
  <2>2. QED
    BY <2>1, ReceiveOrderLemma
<1>4. QED
  BY <1>1, <1>2, <1>3, RestOrderLemma DEF Next, ServerPump, MainThread, Exited

-----------------------------------------------------------------------------
(* The theorems.                                                           *)

\* Every step preserves Core, and does to the events what Effect allows.
LEMMA StepLemma ==
  ASSUME Core, [Next]_vars
  PROVE  Core' /\ Effect
<1>1. CASE ClientPump
  BY <1>1, ClientQuietLemma, EmitStartLemma, TrackBadIdLemma, TrackLemma, CloseReusedLemma
  DEF ClientPump
<1>2. CASE ServerPump
  <2>1. ASSUME NEW c \in Calls, NEW shape \in Shapes, ReceiveAnswer(c, shape)
        PROVE  Core' /\ Effect
    <3>1. Receive(request[c].id, shape, c) /\ tout.pc = "read" /\ unanswered' \subseteq unanswered
      BY <2>1 DEF ReceiveAnswer, ToutAt
    <3>2. QED
      BY <3>1, ReceiveLemma
  <2>2. ASSUME NEW id \in ServerIds, ReceiveServerRequest(id)
        PROVE  Core' /\ Effect
    <3>1. Receive(id, "result", NoCall) /\ tout.pc = "read" /\ unanswered' \subseteq unanswered
      BY <2>2 DEF ReceiveServerRequest, ToutAt
    <3>2. QED
      BY <3>1, ReceiveLemma
  <2>3. QED
    BY <1>2, <2>1, <2>2, CloseAnsweredLemma, CloseRaisesLemma, ServerQuietLemma DEF ServerPump
<1>3. CASE MainThread
  BY <1>3, DrainPendingLemma, CloseOutstandingLemma, MainQuietLemma DEF MainThread
<1>4. CASE UpstreamExits \/ Exited \/ UNCHANGED vars
  BY <1>4, MainQuietLemma DEF Exited
<1>5. QED
  BY <1>1, <1>2, <1>3, <1>4 DEF Next

\* The invariant is inductive.
THEOREM Invariance == Spec => []IInv
<1>1. Init => IInv
  BY InitLemma
<1>2. IInv /\ [Next]_vars => IInv'
  <2> SUFFICES ASSUME IInv, [Next]_vars PROVE IInv'
    OBVIOUS
  <2>1. Core
    BY DEF IInv, Core, TypeOK, ProcessorInv, SessionTypes
  <2>2. Core' /\ Effect
    BY <2>1, StepLemma
  <2>3. OneTerminalPerCall'
    <3>1. ProcessorInv /\ OneTerminalPerCall
      BY <2>1 DEF Core, IInv
    <3>2. Closed' \subseteq Started'
      BY <2>2 DEF Core, Kept, Partition
    <3>3. QED
      BY <2>2, <3>1, <3>2, OneTerminalLemma
  <2>4. Order'
    BY <2>1, OrderStepLemma DEF IInv
  <2>5. QED
    BY <2>2, <2>3, <2>4 DEF IInv, Core, TypeOK, ProcessorInv, SessionTypes
<1>3. QED
  BY <1>1, <1>2, PTL DEF Spec

\* Every variable has its type, and the table of pending calls never holds more
\* than MAX_PENDING entries.
THEOREM TypeCorrect == Spec => []TypeOK
<1>1. IInv => TypeOK
  BY DEF IInv
<1>2. QED
  BY <1>1, Invariance, PTL

\* No call whose start was emitted is forgotten or handed to two threads.
THEOREM StartedCallsAreKept == Spec => []OneKeeper
<1>1. IInv => OneKeeper
  BY KeptLemma DEF IInv
<1>2. QED
  BY <1>1, Invariance, PTL

\* No call is closed twice, none before its start.
THEOREM CallsCloseOnce == Spec => []OneTerminalPerCall
<1>1. IInv => OneTerminalPerCall
  BY DEF IInv
<1>2. QED
  BY <1>1, Invariance, PTL

\* A response never overtakes the entry of its call.
THEOREM ResponsesFindTheirCall == Spec => []AnswersMeetTheirCall
<1>1. IInv => AnswersMeetTheirCall
  <2> SUFFICES ASSUME IInv, NEW c \in unanswered \cap Started
               PROVE  c \in CallsIn(pending) \cup Displaced \cup Popped \cup outstanding
                            \cup raised \cup Closed
    BY DEF AnswersMeetTheirCall
  <2>1. c \notin InTrack
    <3>1. c < tin.call \/ tin.pc \in {"read", "gone"}
      BY DEF IInv, Control
    <3>2. c \in Nat
      BY DEF Started, Calls
    <3>3. QED
      BY <3>1, <3>2 DEF InTrack
  <2>2. QED
    BY <2>1 DEF IInv, Kept, Partition
<1>2. QED
  BY <1>1, Invariance, PTL

\* Ids may be reused and answers come in any order: an answer never closes a call older
\* than the one it was meant for.
THEOREM AnswersCloseNoOlderCall == Spec => []AnswerNeverClosesAnOlderCall
<1>1. IInv => AnswerNeverClosesAnOlderCall
  <2> SUFFICES ASSUME IInv, NEW c \in Closed, NEW i \in DOMAIN terminals[c],
                      terminals[c][i].by \in Started
               PROVE  terminals[c][i].by <= c
    BY DEF AnswerNeverClosesAnOlderCall
  <2>1. NotOlder(terminals[c][i].by, c)
    BY DEF IInv, Order, Closed
  <2>2. terminals[c][i].by # NoCall
    BY CallsLemma DEF Started
  <2>3. QED
    BY <2>1, <2>2 DEF NotOlder
<1>2. QED
  BY <1>1, Invariance, PTL

\* The events of a session are events the ledger of calls allows: opened once,
\* closed at most once, in that order, whatever the threads do.
THEOREM SessionImplementsLedger == Spec => ImplementsLedger
<1>1. Init => Ledger!Init
  BY LedgerInitLemma DEF Init
<1>2. IInv /\ [Next]_vars => [Ledger!Next]_LedgerState
  <2> SUFFICES ASSUME IInv, [Next]_vars PROVE [Ledger!Next]_LedgerState
    OBVIOUS
  <2>1. Core /\ OneTerminalPerCall
    BY DEF IInv, Core, TypeOK, ProcessorInv, SessionTypes
  <2>2. ProcessorInv /\ Effect
    BY <2>1, StepLemma DEF Core
  <2>3. QED
    BY <2>1, <2>2, LedgerStepLemma
<1>3. QED
  BY <1>1, <1>2, Invariance, PTL
  DEF Spec, ImplementsLedger, Ledger!Spec, LedgerState, LedgerOf

\* Overflow closes the oldest calls, and no more of them than it must.
THEOREM EvictionIsFair == Spec => EvictsTheOldest
<1> DEFINE Fair ==
      \A c \in Calls :
        (\E i \in DOMAIN terminals'[c] \ DOMAIN terminals[c] : terminals'[c][i].cause = "evicted")
        => Len(pending') = MaxPending /\ \A d \in CallsIn(pending') : c < d
<1>1. IInv /\ [Next]_vars => [Fair]_processor
  <2> SUFFICES ASSUME IInv, [Next]_vars PROVE Fair
    OBVIOUS
  <2>1. Core /\ Effect
    <3>1. Core
      BY DEF IInv, Core, TypeOK, ProcessorInv, SessionTypes
    <3>2. QED
      BY <3>1, StepLemma
  <2>2. CASE UNCHANGED terminals
    BY <2>2
  <2>3. CASE \E S \in SUBSET Calls, t \in TerminalEvents : Closes(S, t)
    <3>1. PICK S \in SUBSET Calls, t \in TerminalEvents : Closes(S, t)
      BY <2>3
    <3>2. /\ \A c \in S : terminals[c] = <<>> /\ terminals'[c] = Append(<<>>, t)
          /\ \A c \in Calls \ S : terminals'[c] = terminals[c]
      BY <2>1, <3>1, ClosesLemma DEF Core
    <3>3. SUFFICES ASSUME NEW c \in Calls,
                          NEW i \in DOMAIN terminals'[c] \ DOMAIN terminals[c],
                          terminals'[c][i].cause = "evicted"
                   PROVE  Len(pending') = MaxPending /\ \A d \in CallsIn(pending') : c < d
      OBVIOUS
    <3>4. c \in S
      BY <3>2, <3>3
    <3>5. terminals[c] = <<>> /\ terminals'[c] = Append(<<>>, t)
      BY <3>2, <3>4
    <3>6. Append(<<>>, t)[1] = t /\ DOMAIN Append(<<>>, t) = {1}
      OBVIOUS
    <3>7. t.cause = "evicted"
      BY <3>3, <3>5, <3>6
    <3>8. QED
      BY <3>1, <3>4, <3>7 DEF Closes
  <2>4. QED
    BY <2>1, <2>2, <2>3 DEF Effect, Opens
<1>2. QED
  BY <1>1, Invariance, PTL DEF Spec, EvictsTheOldest

-----------------------------------------------------------------------------
(* A clean exit.  The emitter runs until the drained calls are closed, and   *)
(* once both pumps are over nobody but the main thread holds a call.         *)

Serving == main \in {"wait", "drain", "close"}

Delivering == AllKept /\ (Serving => emitterOn)

\* Only StopEmitter stops the emitter, and what it stops it after is the drain.
LEMMA EmitterStepLemma ==
  ASSUME Core, [Next]_vars
  PROVE  \/ emitterOn' = emitterOn /\ (Serving' => Serving)
         \/ ~emitterOn' /\ ~Serving'
<1>1. CASE ClientPump
  <2>1. UNCHANGED <<emitterOn, main>>
    BY <1>1
    DEF ClientPump, ReadRequest, RejectRequest, AnswerOwnTool, EmitStart, StartFails, TrackBadId,
        Track, CloseReused, Forward, ForwardBatch, ClientGone, StartEvent, TrackInvalid,
        TrackValid, CloseDisplaced, processor
  <2>2. QED
    BY <2>1 DEF Serving
<1>2. CASE ServerPump
  <2>1. UNCHANGED <<emitterOn, main>>
    BY <1>2
    DEF ServerPump, ReceiveAnswer, ReceiveServerRequest, ReceiveNonObject, CloseAnswered,
        CloseRaises, Relay, UpstreamOutputEnds, Receive, Pop, WriteToClient, EmitTerminal,
        TerminalRaises, processor
  <2>2. QED
    BY <2>1 DEF Serving
<1>3. CASE MainThread
  BY <1>3
  DEF MainThread, JoinServerPump, DrainPending, CloseOutstanding, StopEmitter, Exit, EmptyTable,
      CloseDrained, Serving, processor
<1>4. CASE UpstreamExits \/ Exited \/ UNCHANGED vars
  BY <1>4 DEF UpstreamExits, Exited, Serving, vars, processor
<1>5. QED
  BY <1>1, <1>2, <1>3, <1>4 DEF Next

\* What the main thread owes from the drain on, when both pumps are over: every call
\* that was started is in the table it has yet to drain, among those it drained,
\* raised, or closed by an event that was kept.
PumpsOver == tin.pc = "gone" /\ tout.pc \in {"done", "dead"}

Settling ==
  /\ main # "wait" /\ PumpsOver
  /\ main # "drain" => pending = <<>>
  /\ \A c \in Started : c \in CallsIn(pending) \cup outstanding \cup raised \/ Paired(c)

\* The drain finds nothing anywhere else.
LEMMA SettlingBeginsLemma ==
  ASSUME IInv, Delivering, main = "drain", PumpsOver
  PROVE  Settling
<1>1. InTrack = {} /\ Displaced = {} /\ Popped = {} /\ outstanding = {}
  BY DEF IInv, Control, PumpsOver, InTrack, Displaced, Popped
<1>2. Started = CallsIn(pending) \cup raised \cup Closed
  BY <1>1 DEF IInv, Kept, Partition
<1>3. ASSUME NEW c \in Closed PROVE Paired(c)
  <2>1. terminals[c] \in Seq(TerminalEvents) /\ terminals[c] # <<>> /\ c \in Calls
    BY DEF IInv, TypeOK, ProcessorTypeOK, TerminalEvents, Closed
  <2>2. 1 \in DOMAIN terminals[c]
    BY <2>1
  <2>3. emitterOn
    BY DEF Delivering, Serving
  <2>4. terminals[c][1].kept
    BY <2>1, <2>2, <2>3 DEF Delivering, AllKept
  <2>5. QED
    BY <2>2, <2>4 DEF Paired
<1>4. QED
  BY <1>2, <1>3 DEF Settling

\* A step of the main thread hands a call on, or closes it with an event that is kept.
LEMMA SettlingStepLemma ==
  ASSUME Core, Delivering, Settling, [Next]_vars
  PROVE  Settling'
<1>0. ProcessorInv /\ SessionTypes /\ Control /\ Kept
  BY DEF Core
<1>1. ~ClientPump /\ ~ServerPump
  BY DEF Settling, PumpsOver, ClientPump, ReadRequest, RejectRequest, AnswerOwnTool, EmitStart,
         StartFails, TrackBadId, Track, CloseReused, Forward, ForwardBatch, ClientGone, TinAt,
         ServerPump, ReceiveAnswer, ReceiveServerRequest, ReceiveNonObject, CloseAnswered,
         CloseRaises, Relay, UpstreamOutputEnds, ToutAt
<1>2. CASE UNCHANGED vars \/ UpstreamExits \/ StopEmitter \/ Exit \/ Exited
  <2>1. /\ UNCHANGED <<tin, tout, outstanding>>
        /\ UNCHANGED <<starts, terminals, raised, pending>>
        /\ main' # "wait" /\ (main' # "drain" => main # "drain" \/ main = "wait")
    BY <1>0, <1>2
    DEF Settling, SessionTypes, vars, processor, events, UpstreamExits, StopEmitter, Exit, Exited
  <2>2. /\ Started' = Started /\ CallsIn(pending)' = CallsIn(pending)
        /\ \A c \in Calls : Paired(c)' <=> Paired(c)
    BY <2>1 DEF Started, Paired
  <2>3. \A c \in Started : c \in Calls
    BY DEF Started
  <2>4. QED
    BY <2>1, <2>2, <2>3 DEF Settling, PumpsOver
<1>3. CASE DrainPending
  <2>1. /\ main' = "close" /\ outstanding' = CallsIn(pending) /\ pending' = <<>>
        /\ UNCHANGED <<tin, tout, starts, terminals, raised>>
        /\ main = "drain"
    BY <1>3 DEF DrainPending, EmptyTable, events
  <2>2. outstanding = {} /\ Started' = Started
    BY <1>0, <2>1 DEF Control, Started
  <2>3. \A c \in Calls : Paired(c) => Paired(c)'
    BY <2>1 DEF Paired
  <2>4. \A c \in Started : c \in Calls
    BY DEF Started
  <2>5. QED
    BY <2>1, <2>2, <2>3, <2>4 DEF Settling, PumpsOver
<1>4. ASSUME NEW c \in Calls, CloseOutstanding(c)
      PROVE  Settling'
  <2>1. /\ main = "close" /\ outstanding' = outstanding \ {c}
        /\ UNCHANGED <<tin, tout, main, starts, raised, pending>>
        /\ CloseCall(c, "closed", NoCall)
    BY <1>4 DEF CloseOutstanding, CloseDrained
  <2>2. Started' = Started /\ CallsIn(pending)' = CallsIn(pending)
    BY <2>1 DEF Started
  <2>3. emitterOn
    BY <2>1 DEF Delivering, Serving
  <2>4. ClosesWith({c}, Terminal("closed", NoCall))
    BY <1>0, <2>1, CloseCallLemma
  <2>5. ASSUME NEW d \in Calls, Paired(d) \/ d = c
        PROVE  Paired(d)'
    <3>1. /\ terminals[d] \in Seq(TerminalEvents) /\ Terminal("closed", NoCall) \in TerminalEvents
          /\ Terminal("closed", NoCall).kept
      BY <1>0, <2>3, TerminalLemma
      DEF ProcessorInv, ProcessorTypeOK, TerminalEvents, Terminal, Causes
    <3>2. terminals'[d] = IF d = c THEN Append(terminals[d], Terminal("closed", NoCall))
                          ELSE terminals[d]
      BY <2>4 DEF ClosesWith
    <3>3. CASE d = c
      <4>1. /\ Len(terminals[d]) + 1 \in DOMAIN terminals'[d]
            /\ terminals'[d][Len(terminals[d]) + 1] = Terminal("closed", NoCall)
        BY <3>1, <3>2, <3>3
      <4>2. QED
        BY <3>1, <4>1 DEF Paired
    <3>4. CASE d # c
      <4>1. terminals'[d] = terminals[d]
        BY <3>2, <3>4
      <4>2. QED
        BY <2>5, <3>4, <4>1 DEF Paired
    <3>5. QED
      BY <3>3, <3>4
  <2>6. \A d \in Started : d \in Calls
    BY DEF Started
  <2>7. QED
    BY <2>1, <2>2, <2>5, <2>6 DEF Settling, PumpsOver
<1>5. ~JoinServerPump
  BY DEF Settling, JoinServerPump
<1>6. QED
  BY <1>1, <1>2, <1>3, <1>4, <1>5 DEF Next, MainThread

\* When both pumps are over by the time the pending calls are drained, every start
\* that was delivered has its end or error delivered too, but for an end that raised.
THEOREM CleanExitIsComplete == Spec => CleanExitLeavesNothingOpen
<1> DEFINE Drains == main = "drain" /\ tin.pc = "gone" /\ tout.pc \in {"done", "dead"}
           Complete == main = "exited" => \A c \in Calls \ raised : starts[c] = "kept" => Paired(c)
<1>1. Init => Delivering
  BY DEF Init, ProcessorInit, Delivering, AllKept, Serving
<1>2. IInv /\ Delivering /\ [Next]_vars => Delivering'
  <2> SUFFICES ASSUME IInv, Delivering, [Next]_vars PROVE Delivering'
    OBVIOUS
  <2>1. Core /\ ProcessorInv
    BY DEF IInv, Core, TypeOK, ProcessorInv, SessionTypes
  <2>2. Effect /\ (\/ emitterOn' = emitterOn /\ (Serving' => Serving)
                   \/ ~emitterOn' /\ ~Serving')
    BY <2>1, StepLemma, EmitterStepLemma
  <2>3. AllKept'
    BY <2>1, <2>2, AllKeptLemma DEF Delivering
  <2>4. QED
    BY <2>2, <2>3 DEF Delivering
<1>3. IInv /\ Delivering /\ Drains => Settling
  BY SettlingBeginsLemma DEF PumpsOver
<1>4. IInv /\ Delivering /\ Settling /\ [Next]_vars => Settling'
  <2>1. IInv => Core
    BY DEF IInv, Core, TypeOK, ProcessorInv, SessionTypes
  <2>2. QED
    BY <2>1, SettlingStepLemma
<1>5. IInv /\ Settling => Complete
  <2> SUFFICES ASSUME IInv, Settling, main = "exited", NEW c \in Calls \ raised, starts[c] = "kept"
               PROVE  Paired(c)
    OBVIOUS
  <2>1. outstanding = {} /\ CallsIn(pending) = {} /\ c \in Started
    BY DEF IInv, Control, Settling, CallsIn, Started
  <2>2. QED
    BY <2>1 DEF Settling
<1>6. Spec => [](Drains => []Complete)
  <2> HIDE DEF Drains, Complete
  <2>1. QED
    BY <1>1, <1>2, <1>3, <1>4, <1>5, Invariance, PTL DEF Spec
<1>7. QED
  BY <1>6 DEF CleanExitLeavesNothingOpen

-----------------------------------------------------------------------------
(* Which id a call is held under.                                          *)

\* An entry holds its call under the id of its request.
Named == \A i \in DOMAIN pending : pending[i].id = request[pending[i].call].id

\* What the table holds was read.
LEMMA PendingWasReadLemma ==
  ASSUME Core
  PROVE  /\ tin.call \in Nat
         /\ \A c \in CallsIn(pending) : c \in Calls /\ c <= tin.call
<1>1. tin.call \in Nat
  <2>1. tin.call \in Calls \cup {NoCall}
    BY DEF Core, SessionTypes
  <2>2. QED
    BY <2>1 DEF Calls, NoCall
<1>2. ASSUME NEW c \in CallsIn(pending) PROVE c \in Calls /\ c <= tin.call
  <2>1. c \in Calls /\ starts[c] # "none"
    BY DEF Core, Kept, Partition, Started
  <2>2. ~ (c > tin.call)
    BY <2>1 DEF Core, Control
  <2>3. QED
    BY <1>1, <2>1, <2>2 DEF Calls
<1>3. QED
  BY <1>1, <1>2

\* Entries keep their call, and a call that was read keeps its id.
LEMMA NamedLemma ==
  ASSUME Core, Named,
         \A c \in CallsIn(pending) : request'[c] = request[c],
         \A i \in DOMAIN pending' :
           \/ \E j \in DOMAIN pending : pending'[i] = pending[j]
           \/ pending'[i].id = request'[pending'[i].call].id
  PROVE  Named'
<1> SUFFICES ASSUME NEW i \in DOMAIN pending'
             PROVE  pending'[i].id = request'[pending'[i].call].id
  BY DEF Named
<1>1. CASE \E j \in DOMAIN pending : pending'[i] = pending[j]
  <2>1. PICK j \in DOMAIN pending : pending'[i] = pending[j]
    BY <1>1
  <2>2. pending[j].call \in CallsIn(pending)
    BY DEF CallsIn
  <2>3. QED
    BY <2>1, <2>2 DEF Named
<1>2. QED
  BY <1>1

\* Every step keeps the entries under their ids.
LEMMA NamedStepLemma ==
  ASSUME Core, Named, [Next]_vars
  PROVE  Named'
<1>0. ProcessorInv /\ SessionTypes /\ Control /\ Kept
  BY DEF Core
<1>1. pending \in Table(Ids, Calls)
  BY <1>0 DEF ProcessorInv
<1>2. CASE UNCHANGED <<request, pending>>
  BY <1>2, NamedLemma
<1>3. CASE \E id \in AnyId, kind \in Kinds : ReadRequest(id, kind)
  <2>1. PICK id \in AnyId, kind \in Kinds : ReadRequest(id, kind)
    BY <1>3
  <2>2. /\ request' = [request EXCEPT ![tin.call + 1] = [id |-> id, kind |-> kind]]
        /\ UNCHANGED pending
    BY <2>1 DEF ReadRequest, NextCall
  <2>3. \A c \in CallsIn(pending) : request'[c] = request[c]
    <3>1. TAKE c \in CallsIn(pending)
    <3>2. c \in Calls /\ c # tin.call + 1
      BY PendingWasReadLemma DEF Calls
    <3>3. QED
      BY <1>0, <2>2, <3>2 DEF ProcessorInv, ProcessorTypeOK
  <2>4. QED
    BY <2>2, <2>3, NamedLemma
<1>4. CASE Track
  <2>1. /\ tin.pc = "track" /\ TrackValid(tin.call)
        /\ pending' = Trimmed(Inserted(pending, request[tin.call].id, tin.call))
        /\ UNCHANGED request /\ request[tin.call].id \in Ids
    BY <1>4 DEF Track, TinAt, TrackValid, IsRequestId
  <2>2. tin.call \in Calls
    BY <1>0, <2>1 DEF Control, SessionTypes
  <2>3. \A d \in CallsIn(pending) : d < tin.call
    <3>1. TAKE d \in CallsIn(pending)
    <3>2. d # tin.call
      BY <1>0, <2>1, <2>2 DEF Kept, Partition, InTrack
    <3>3. QED
      BY <3>2, PendingWasReadLemma DEF Calls
  <2>4. \A i \in DOMAIN pending' :
          \/ pending'[i] = Entry(request[tin.call].id, tin.call)
          \/ \E j \in DOMAIN pending : pending'[i] = pending[j]
    BY <1>1, <2>1, <2>2, <2>3, TrackEntriesLemma
  <2>5. QED
    BY <2>1, <2>4, NamedLemma DEF Entry
<1>5. ASSUME NEW id, NEW shape, NEW by, Receive(id, shape, by)
      PROVE  Named'
  <2>1. pending' = Without(pending, id) /\ UNCHANGED request
    BY <1>5 DEF Receive, Pop
  <2>2. QED
    BY <1>1, <2>1, WithoutEntriesLemma, NamedLemma
<1>6. CASE DrainPending
  BY <1>6 DEF DrainPending, EmptyTable, Named
<1>7. CASE ClientPump
  BY <1>2, <1>3, <1>4, <1>7
  DEF ClientPump, RejectRequest, AnswerOwnTool, EmitStart, StartFails, TrackBadId, CloseReused,
      Forward, ForwardBatch, ClientGone, StartEvent, TrackInvalid, CloseDisplaced, processor
<1>8. CASE ServerPump
  BY <1>2, <1>5, <1>8
  DEF ServerPump, ReceiveAnswer, ReceiveServerRequest, ReceiveNonObject, CloseAnswered,
      CloseRaises, Relay, UpstreamOutputEnds, EmitTerminal, TerminalRaises, processor
<1>9. CASE MainThread \/ UpstreamExits \/ Exited \/ UNCHANGED vars
  BY <1>2, <1>6, <1>9
  DEF MainThread, JoinServerPump, CloseOutstanding, CloseDrained, StopEmitter, Exit,
      UpstreamExits, Exited, vars, processor
<1>10. QED
  BY <1>7, <1>8, <1>9 DEF Next

\* The table holds a call's id for that call.
LEMMA HolderLemma ==
  ASSUME pending \in Table(Ids, Calls), Named, NEW id, CallAt(pending, id) # NoCall
  PROVE  /\ request[CallAt(pending, id)].id = id /\ id \in Ids
         /\ \A c \in CallsIn(pending) : request[c].id = id => c = CallAt(pending, id)
<1>1. HasId(pending, id) /\ CallAt(pending, id) = pending[SlotOf(pending, id)].call
  BY DEF CallAt
<1>2. SlotOf(pending, id) \in DOMAIN pending /\ pending[SlotOf(pending, id)].id = id
  BY <1>1, SlotLemma
<1>3. request[CallAt(pending, id)].id = id
  BY <1>1, <1>2 DEF Named
<1>4. id \in Ids
  <2>1. pending \in Seq([id : Ids, call : Calls])
    BY DEF Table
  <2>2. \A i \in DOMAIN pending : pending[i] \in [id : Ids, call : Calls]
    BY <2>1, ElementOfSeq, LenProperties
  <2>3. QED
    BY <1>2, <2>2
<1>5. ASSUME NEW c \in CallsIn(pending), request[c].id = id
      PROVE  c = CallAt(pending, id)
  <2>1. PICK i \in DOMAIN pending : c = pending[i].call
    BY DEF CallsIn
  <2>2. pending[i].id = id
    BY <1>5, <2>1 DEF Named
  <2>3. i = SlotOf(pending, id)
    BY <1>2, <2>2 DEF Table, Ordered
  <2>4. QED
    BY <1>1, <2>1, <2>3
<1>6. QED
  BY <1>3, <1>4, <1>5

-----------------------------------------------------------------------------
(* A client that reuses no id, and an upstream whose own ids are none of the *)
(* client's, get the correlation that handle_server_message announces.       *)

\* An id is used once.
Distinct ==
  \A c, d \in 1 .. tin.call : request[c].id = request[d].id /\ request[c].id \in Ids => c = d

Verdicts == {"end", "error"}

\* What closes a call is its own answer.
OwnAnswers ==
  /\ tout.call # NoCall => tout.by = tout.call
  /\ \A c \in Calls : \A i \in DOMAIN terminals[c] : terminals[c][i].cause \in Verdicts =>
       terminals[c][i].by = c

\* Terminal events that give no verdict, or the verdict of the call's own answer.
LEMMA OwnAnswersLemma ==
  ASSUME Core, OwnAnswers, tout'.call # NoCall => tout'.by = tout'.call,
         \/ UNCHANGED terminals
         \/ \E S \in SUBSET Calls, t \in TerminalEvents :
              ClosesWith(S, t) /\ \A c \in S : t.cause \in Verdicts => t.by = c
  PROVE  OwnAnswers'
<1> SUFFICES ASSUME NEW c \in Calls, NEW i \in DOMAIN terminals'[c],
                    terminals'[c][i].cause \in Verdicts
             PROVE  terminals'[c][i].by = c
  BY DEF OwnAnswers
<1>1. CASE UNCHANGED terminals
  BY <1>1 DEF OwnAnswers
<1>2. CASE \E S \in SUBSET Calls, t \in TerminalEvents :
             ClosesWith(S, t) /\ \A d \in S : t.cause \in Verdicts => t.by = d
  <2>1. PICK S \in SUBSET Calls, t \in TerminalEvents :
          ClosesWith(S, t) /\ \A d \in S : t.cause \in Verdicts => t.by = d
    BY <1>2
  <2>2. terminals'[c] = IF c \in S THEN Append(terminals[c], t) ELSE terminals[c]
    BY <2>1, ClosesWithLemma DEF Core
  <2>3. terminals[c] \in Seq(TerminalEvents)
    BY DEF Core, ProcessorInv, ProcessorTypeOK, TerminalEvents
  <2>4. CASE c \notin S
    BY <2>2, <2>4 DEF OwnAnswers
  <2>5. CASE c \in S
    <3>1. /\ Len(terminals[c]) \in Nat
          /\ DOMAIN terminals[c] = 1 .. Len(terminals[c])
          /\ DOMAIN terminals'[c] = 1 .. Len(terminals[c]) + 1
          /\ \A k \in 1 .. Len(terminals[c]) : terminals'[c][k] = terminals[c][k]
          /\ terminals'[c][Len(terminals[c]) + 1] = t
      BY <2>2, <2>3, <2>5, AppendProperties, LenProperties
    <3>2. i \in 1 .. Len(terminals[c]) \/ i = Len(terminals[c]) + 1
      BY <3>1
    <3>3. CASE i \in 1 .. Len(terminals[c])
      BY <3>1, <3>3 DEF OwnAnswers
    <3>4. CASE i = Len(terminals[c]) + 1
      BY <2>1, <2>5, <3>1, <3>4
    <3>5. QED
      BY <3>2, <3>3, <3>4
  <2>6. QED
    BY <2>4, <2>5
<1>3. QED
  BY <1>1, <1>2

\* The ids that are read stay distinct.
LEMMA DistinctStepLemma ==
  ASSUME Core, Distinct, ~ReusesIds, [Next]_vars
  PROVE  Distinct'
<1>0. ProcessorInv /\ SessionTypes /\ Control /\ Kept
  BY DEF Core
<1>1. CASE UNCHANGED request /\ tin'.call = tin.call
  BY <1>1 DEF Distinct
<1>2. CASE \E id \in AnyId, kind \in Kinds : ReadRequest(id, kind)
  <2>1. PICK id \in AnyId, kind \in Kinds : ReadRequest(id, kind)
    BY <1>2
  <2>2. /\ request' = [request EXCEPT ![tin.call + 1] = [id |-> id, kind |-> kind]]
        /\ tin'.call = tin.call + 1 /\ tin.call < NCalls
        /\ id \notin UsedIds
    BY <2>1 DEF ReadRequest, NextCall
  <2>3. tin.call \in Nat /\ 1 .. tin.call + 1 \subseteq Calls /\ request \in [Calls -> [id : AnyId, kind : AllKinds]]
    BY <1>0, <2>2, PendingWasReadLemma, ProcessorAssumption DEF ProcessorInv, ProcessorTypeOK, Calls
  <2>4. /\ request'[tin.call + 1].id = id
        /\ \A c \in 1 .. tin.call : request'[c] = request[c] /\ (id \in Ids => request[c].id # id)
    BY <2>2, <2>3 DEF UsedIds
  <2>5. \A c \in 1 .. tin.call + 1 : c \in 1 .. tin.call \/ c = tin.call + 1
    BY <2>3
  <2>6. QED
    BY <2>2, <2>4, <2>5 DEF Distinct
<1>3. CASE ClientPump
  <2>1. tin \in [pc : {"read", "own", "start", "track", "close", "forward", "gone"},
                 call : Calls \cup {NoCall}, displaced : Calls \cup {NoCall}]
    BY <1>0 DEF SessionTypes
  <2>2. QED
    BY <1>1, <1>2, <1>3, <2>1
    DEF ClientPump, RejectRequest, AnswerOwnTool, EmitStart, StartFails, TrackBadId, Track,
        CloseReused, Forward, ForwardBatch, ClientGone, StartEvent, TrackInvalid, TrackValid,
        CloseDisplaced, Proceed, processor
<1>4. CASE ServerPump
  BY <1>1, <1>4
  DEF ServerPump, ReceiveAnswer, ReceiveServerRequest, ReceiveNonObject, CloseAnswered,
      CloseRaises, Relay, UpstreamOutputEnds, EmitTerminal, TerminalRaises, Receive, Pop,
      WriteToClient, processor
<1>5. CASE MainThread \/ UpstreamExits \/ Exited \/ UNCHANGED vars
  BY <1>1, <1>5
  DEF MainThread, JoinServerPump, DrainPending, CloseOutstanding, EmptyTable, CloseDrained,
      StopEmitter, Exit, UpstreamExits, Exited, vars, processor
<1>6. QED
  BY <1>3, <1>4, <1>5 DEF Next

\* An answer pops its own call, and nothing else pops one.
LEMMA OwnAnswersStepLemma ==
  ASSUME Core, Named, Distinct, OwnAnswers, ServerIds = {}, [Next]_vars
  PROVE  OwnAnswers'
<1>0. ProcessorInv /\ SessionTypes /\ Control /\ Kept
  BY DEF Core
<1>1. CASE UNCHANGED <<tout, terminals>>
  BY <1>1 DEF OwnAnswers
<1>2. ASSUME NEW c \in Calls, NEW cause \in Causes \ Verdicts, CloseCall(c, cause, NoCall),
             UNCHANGED tout
      PROVE  OwnAnswers'
  <2>1. ClosesWith({c}, Terminal(cause, NoCall)) /\ Terminal(cause, NoCall) \in TerminalEvents
    BY <1>0, <1>2, CloseCallLemma, TerminalLemma
  <2>2. Terminal(cause, NoCall).cause \notin Verdicts
    BY DEF Terminal
  <2>3. QED
    BY <1>2, <2>1, <2>2, OwnAnswersLemma DEF OwnAnswers
<1>3. ASSUME NEW c \in Calls, NEW shape \in Shapes, ReceiveAnswer(c, shape)
      PROVE  OwnAnswers'
  <2>1. /\ c \in unanswered /\ UNCHANGED terminals
        /\ tout'.call = CallAt(pending, request[c].id) /\ tout'.by = c
    BY <1>3 DEF ReceiveAnswer, Receive, Pop, events
  <2>2. CASE CallAt(pending, request[c].id) # NoCall
    <3> DEFINE k == CallAt(pending, request[c].id)
    <3>1. request[k].id = request[c].id /\ request[c].id \in Ids /\ k \in CallsIn(pending)
      <4>1. pending \in Table(Ids, Calls) /\ Calls \in SUBSET (Nat \ {NoCall})
        BY <1>0, CallsLemma DEF ProcessorInv
      <4>2. CallAt(pending, request[c].id) \in CallsIn(pending) \cup {NoCall}
        BY <4>1, WithoutLemma
      <4>3. QED
        BY <2>2, <4>1, <4>2, HolderLemma
    <3>2. k \in 1 .. tin.call
      BY <3>1, PendingWasReadLemma DEF Calls
    <3>3. c \in 1 .. tin.call
      <4>1. c < tin.call \/ c = tin.call
        BY <1>0, <2>1 DEF Control
      <4>2. QED
        BY <4>1, PendingWasReadLemma DEF Calls
    <3>4. k = c
      BY <3>1, <3>2, <3>3 DEF Distinct
    <3>5. QED
      BY <2>1, <3>4, OwnAnswersLemma
  <2>3. CASE CallAt(pending, request[c].id) = NoCall
    BY <2>1, <2>3, OwnAnswersLemma
  <2>4. QED
    BY <2>2, <2>3
<1>4. CASE CloseAnswered
  <2>1. /\ CloseCall(tout.call, tout.cause, tout.by) /\ tout.call # NoCall
        /\ tout' = ToutReading
    BY <1>4 DEF CloseAnswered, EmitTerminal, WriteToClient
  <2>2. tout.call \in Calls /\ tout.cause \in Causes /\ tout.by \in Calls \cup {NoCall}
    <3>1. /\ tout.call \in Calls \cup {NoCall} /\ tout.by \in Calls \cup {NoCall}
          /\ tout.cause \in {"end", "error", "raises"} /\ tout.cause # "raises"
      BY <1>0, <1>4 DEF SessionTypes, CloseAnswered, EmitTerminal
    <3>2. QED
      BY <2>1, <3>1 DEF Causes
  <2>3. /\ ClosesWith({tout.call}, Terminal(tout.cause, tout.by))
        /\ Terminal(tout.cause, tout.by) \in TerminalEvents
    BY <1>0, <2>1, <2>2, CloseCallLemma, TerminalLemma
  <2>4. Terminal(tout.cause, tout.by).by = tout.call
    BY <2>1 DEF Terminal, OwnAnswers
  <2>5. tout'.call = NoCall
    BY <2>1 DEF ToutReading
  <2>6. QED
    BY <2>2, <2>3, <2>4, <2>5, OwnAnswersLemma
<1>5. CASE CloseRaises \/ Relay \/ ReceiveNonObject \/ UpstreamOutputEnds
  <2>1. UNCHANGED terminals /\ (tout'.call = NoCall \/ (tout'.call = tout.call /\ tout'.by = tout.by))
    BY <1>0, <1>5
    DEF CloseRaises, TerminalRaises, Relay, WriteToClient, ToutReading, ReceiveNonObject,
        UpstreamOutputEnds, processor, SessionTypes
  <2>2. QED
    BY <2>1, OwnAnswersLemma DEF OwnAnswers
<1>6. CASE ServerPump
  BY <1>3, <1>4, <1>5, <1>6 DEF ServerPump
<1>7. CASE Track
  <2>1. TrackValid(tin.call) /\ tin.pc = "track" /\ UNCHANGED tout
    BY <1>7 DEF Track, TinAt
  <2>2. ClosesWith(Evicted(Inserted(pending, request[tin.call].id, tin.call)),
                   Terminal("evicted", NoCall))
    BY <2>1 DEF TrackValid, ClosesWith
  <2>3. Terminal("evicted", NoCall) \in TerminalEvents
    BY <1>0, TerminalLemma DEF Causes
  <2>4. Terminal("evicted", NoCall).cause \notin Verdicts
    BY DEF Terminal, Verdicts
  <2>5. Evicted(Inserted(pending, request[tin.call].id, tin.call)) \in SUBSET Calls
    <3>1. tin.call \in Calls /\ tin.call \notin CallsIn(pending)
      BY <1>0, <2>1 DEF Control, SessionTypes, Kept, Partition, InTrack
    <3>2. \A c \in CallsIn(pending) : c < tin.call
      BY <3>1, PendingWasReadLemma DEF Calls
    <3>3. /\ pending \in Table(Ids, Calls) /\ request[tin.call].id \in Ids
          /\ Calls \in SUBSET (Nat \ {NoCall}) /\ Calls \in SUBSET Nat
      BY <1>0, <2>1, CallsLemma DEF ProcessorInv, TrackValid, IsRequestId
    <3>4. /\ Inserted(pending, request[tin.call].id, tin.call) \in Table(Ids, Calls)
          /\ CallsIn(Inserted(pending, request[tin.call].id, tin.call)) \subseteq Calls
      BY <3>1, <3>2, <3>3, InsertedLemma, PendingWasReadLemma
    <3>5. QED
      BY <3>3, <3>4, TrimmedLemma
  <2>6. QED
    BY <2>1, <2>2, <2>3, <2>4, <2>5, OwnAnswersLemma DEF OwnAnswers
<1>8. CASE TrackBadId \/ CloseReused
  <2>1. /\ tin.call \in Calls /\ (tin.pc = "close" => tin.displaced \in Calls)
        /\ UNCHANGED tout
    BY <1>0, <1>8 DEF TrackBadId, CloseReused, TinAt, Control, SessionTypes, wire
  <2>2. "invalid" \in Causes \ Verdicts /\ "reused" \in Causes \ Verdicts
    BY DEF Causes, Verdicts
  <2>3. QED
    BY <1>2, <1>8, <2>1, <2>2
    DEF TrackBadId, CloseReused, TrackInvalid, CloseDisplaced, TinAt
<1>9. CASE ClientPump
  BY <1>1, <1>7, <1>8, <1>9
  DEF ClientPump, ReadRequest, RejectRequest, AnswerOwnTool, EmitStart, StartFails, Forward,
      ForwardBatch, ClientGone, StartEvent, processor, events
<1>10. ASSUME NEW c \in Calls, CloseOutstanding(c)
       PROVE  OwnAnswers'
  <2>1. "closed" \in Causes \ Verdicts
    BY DEF Causes, Verdicts
  <2>2. QED
    BY <1>2, <1>10, <2>1 DEF CloseOutstanding, CloseDrained
<1>11. CASE MainThread \/ UpstreamExits \/ Exited \/ UNCHANGED vars
  BY <1>1, <1>10, <1>11
  DEF MainThread, JoinServerPump, DrainPending, EmptyTable, StopEmitter, Exit, UpstreamExits,
      Exited, vars, processor, events
<1>12. QED
  BY <1>6, <1>9, <1>11 DEF Next

\* A client that uses each id once, and an upstream whose own requests carry none of
\* them: every end and every error a response brought is of the call it answers.
THEOREM UniqueIdsAnswerTheirCall ==
  ~ReusesIds /\ ServerIds = {} => (Spec => []EndsAnswerTheirCall)
<1> SUFFICES ASSUME ~ReusesIds, ServerIds = {} PROVE Spec => []EndsAnswerTheirCall
  OBVIOUS
<1>1. IInv => Core
  BY DEF IInv, Core, TypeOK, ProcessorInv, SessionTypes
<1>2. Init => Named /\ Distinct /\ OwnAnswers
  BY DEF Init, ProcessorInit, Named, Distinct, OwnAnswers, ToutReading, NoCall
<1>3. IInv /\ Named /\ Distinct /\ OwnAnswers /\ [Next]_vars => (Named /\ Distinct /\ OwnAnswers)'
  BY <1>1, NamedStepLemma, DistinctStepLemma, OwnAnswersStepLemma
<1>4. OwnAnswers => EndsAnswerTheirCall
  BY DEF OwnAnswers, EndsAnswerTheirCall, Closed, Verdicts
<1>5. QED
  BY <1>2, <1>3, <1>4, Invariance, PTL DEF Spec

-----------------------------------------------------------------------------
(* Liveness.  What the fairness of the threads says is said through ENABLED, *)
(* which is given here as a hypothesis: ThreadsCanStep is a fact about each  *)
(* action alone, that its guard is all that it needs.                        *)

ThreadsCanStep ==
  /\ Alive /\ tin.pc \in {"own", "start", "track", "close", "forward"} => ENABLED <<ClientStep>>_vars
  /\ Alive /\ tout.pc = "emit" => ENABLED <<ServerStep>>_vars
  /\ \A c \in Calls : Alive /\ tout.pc = "read" /\ c \in unanswered => ENABLED <<Answering(c)>>_vars

\* Nobody goes home before the child: the main thread waits for it, and so does the
\* server pump unless it dies.
HomeAfterTheChild == upstream = "running" => main = "wait" /\ tout.pc # "done"

\* Every step keeps them waiting.
LEMMA HomeStepLemma ==
  ASSUME Core, HomeAfterTheChild, [Next]_vars
  PROVE  HomeAfterTheChild'
<1>0. tout \in [pc : {"read", "emit", "done", "dead"}, call : Calls \cup {NoCall},
                by : Calls \cup {NoCall}, cause : {"end", "error", "raises"}]
  BY DEF Core, SessionTypes
<1>1. CASE ServerPump
  BY <1>0, <1>1
  DEF HomeAfterTheChild, ServerPump, ReceiveAnswer, ReceiveServerRequest, ReceiveNonObject,
      CloseAnswered, CloseRaises, Relay, UpstreamOutputEnds, Receive, WriteToClient, ToutReading,
      wire
<1>2. CASE ClientPump
  BY <1>2
  DEF HomeAfterTheChild, ClientPump, ReadRequest, RejectRequest, AnswerOwnTool, EmitStart,
      StartFails, TrackBadId, Track, CloseReused, Forward, ForwardBatch, ClientGone, wire
<1>3. CASE MainThread \/ UpstreamExits \/ Exited \/ UNCHANGED vars
  BY <1>3
  DEF HomeAfterTheChild, MainThread, JoinServerPump, DrainPending, CloseOutstanding, StopEmitter,
      Exit, UpstreamExits, Exited, vars, wire
<1>4. QED
  BY <1>1, <1>2, <1>3 DEF Next

\* Every answer of the upstream reaches the client: the pump comes back to read for
\* as long as it is neither over nor dead, and an answer it has read it writes.
LEMMA AnswerStepsLemma ==
  ASSUME IInv, HomeAfterTheChild, NEW c \in Calls
  PROVE  /\ c \in unanswered /\ [Next]_vars
            => c \in unanswered' \/ (tout'.pc = "emit" /\ tout'.by = c)
         /\ tout.pc = "emit" /\ tout.by = c /\ [Next]_vars
            => (tout'.pc = "emit" /\ tout'.by = c) \/ c \in replied'
         /\ tout.pc = "emit" /\ tout.by = c /\ ServerStep => c \in replied'
         /\ ServerStep => tout'.pc = "read"
         /\ Answering(c) => c \notin unanswered'
         /\ ~ServerPumpOver => Alive /\ tout.pc \in {"read", "emit"}
<1>0. /\ tout \in [pc : {"read", "emit", "done", "dead"}, call : Calls \cup {NoCall},
                   by : Calls \cup {NoCall}, cause : {"end", "error", "raises"}]
      /\ NoCall \notin Calls /\ upstream \in {"running", "exited"}
  BY CallsLemma DEF IInv, TypeOK
<1>1. ServerStep => /\ tout.pc = "emit" /\ tout'.pc = "read" /\ unanswered' = unanswered
                    /\ replied' = replied \cup ({tout.by} \ {NoCall})
  BY DEF ServerStep, CloseAnswered, CloseRaises, Relay, ToutAt, WriteToClient, ToutReading
<1>2. ASSUME NEW d \in Calls, NEW shape \in Shapes, ReceiveAnswer(d, shape)
      PROVE  /\ tout.pc = "read" /\ tout'.pc = "emit" /\ tout'.by = d
             /\ unanswered' = unanswered \ {d}
  BY <1>2 DEF ReceiveAnswer, Receive, ToutAt
<1>3. ASSUME NEW id \in ServerIds, ReceiveServerRequest(id)
      PROVE  tout.pc = "read" /\ unanswered' = unanswered
  BY <1>3 DEF ReceiveServerRequest, ToutAt
<1>4. ReceiveNonObject \/ UpstreamOutputEnds => tout.pc = "read" /\ unanswered' = unanswered
  BY DEF ReceiveNonObject, UpstreamOutputEnds, ToutAt, wire
<1>5. ClientPump => UNCHANGED tout /\ unanswered \subseteq unanswered'
  BY DEF ClientPump, ReadRequest, RejectRequest, AnswerOwnTool, EmitStart, StartFails, TrackBadId,
         Track, CloseReused, Forward, ForwardBatch, ClientGone, wire
<1>6. MainThread \/ UpstreamExits \/ Exited \/ UNCHANGED vars
      => UNCHANGED tout /\ unanswered' = unanswered
  BY DEF MainThread, JoinServerPump, DrainPending, CloseOutstanding, StopEmitter, Exit,
         UpstreamExits, Exited, vars, wire
<1>7. ServerPump => \/ ServerStep
                    \/ \E d \in Calls, shape \in Shapes : ReceiveAnswer(d, shape)
                    \/ \E id \in ServerIds : ReceiveServerRequest(id)
                    \/ ReceiveNonObject \/ UpstreamOutputEnds
  BY DEF ServerPump, ServerStep
<1>8. c \in unanswered /\ [Next]_vars => c \in unanswered' \/ (tout'.pc = "emit" /\ tout'.by = c)
  BY <1>1, <1>2, <1>3, <1>4, <1>5, <1>6, <1>7 DEF Next
<1>9. tout.pc = "emit" /\ tout.by = c /\ [Next]_vars
      => (tout'.pc = "emit" /\ tout'.by = c) \/ c \in replied'
  BY <1>0, <1>1, <1>2, <1>3, <1>4, <1>5, <1>6, <1>7 DEF Next
<1>10. Answering(c) => c \notin unanswered'
  BY <1>2 DEF Answering
<1>11. ~ServerPumpOver => Alive /\ tout.pc \in {"read", "emit"}
  BY <1>0 DEF ServerPumpOver, HomeAfterTheChild, Alive
<1>12. QED
  BY <1>0, <1>1, <1>8, <1>9, <1>10, <1>11

\* What the upstream answers is written to the client, whatever the table holds: the
\* pump that has an answer in hand writes it, and comes back for the next.
THEOREM AnswersAreDelivered == FairSpec /\ []ThreadsCanStep => AnswersReachTheClient
<1> DEFINE Asked(c) == c \in unanswered
           InHand(c) == tout.pc = "emit" /\ tout.by = c
           Emitting == tout.pc = "emit"
           Reading == tout.pc = "read"
           Delivered(c) == c \in replied \/ ServerPumpOver
           Reaches(c) == Asked(c) ~> Delivered(c)
<1>1. ASSUME NEW c \in Calls
      PROVE  Spec /\ Fairness /\ UpstreamAnswers(c) /\ []ThreadsCanStep => Reaches(c)
  <2>1. Init => HomeAfterTheChild
    BY DEF Init, HomeAfterTheChild, ToutReading
  <2>2. IInv /\ HomeAfterTheChild /\ [Next]_vars => HomeAfterTheChild'
    <3>1. IInv => Core
      BY DEF IInv, Core, TypeOK, ProcessorInv, SessionTypes
    <3>2. QED
      BY <3>1, HomeStepLemma
  <2>3. IInv /\ HomeAfterTheChild /\ [Next]_vars =>
          /\ Asked(c) => Asked(c)' \/ InHand(c)'
          /\ InHand(c) => InHand(c)' \/ Delivered(c)'
    BY AnswerStepsLemma
  <2>4. IInv /\ HomeAfterTheChild =>
          /\ <<ServerStep>>_vars => (InHand(c) => Delivered(c)') /\ ~Emitting'
          /\ <<Answering(c)>>_vars => ~Asked(c)'
    BY AnswerStepsLemma
  <2>5. IInv /\ HomeAfterTheChild /\ ThreadsCanStep /\ ~Delivered(c) =>
          /\ Emitting \/ Reading
          /\ Emitting => ENABLED <<ServerStep>>_vars
          /\ Reading /\ Asked(c) => ENABLED <<Answering(c)>>_vars
          /\ InHand(c) => Emitting
    BY AnswerStepsLemma DEF ThreadsCanStep
  <2> HIDE DEF Asked, InHand, Emitting, Reading, Delivered
  <2>6. QED
    BY <2>1, <2>2, <2>3, <2>4, <2>5, Invariance, PTL DEF Spec, Fairness, UpstreamAnswers
<1>2. Spec /\ Fairness /\ (\A c \in Calls : UpstreamAnswers(c)) /\ []ThreadsCanStep
      => \A c \in Calls : Reaches(c)
  BY <1>1
<1>3. (\A c \in Calls : Reaches(c)) => AnswersReachTheClient
  BY DEF AnswersReachTheClient
<1>4. QED
  BY <1>2, <1>3 DEF FairSpec

-----------------------------------------------------------------------------
(* Every start is closed.                                                  *)

\* What the table holds, the upstream has been asked, or will be by the pump's next
\* steps, if it is still there.
Awaited ==
  upstream = "running" =>
    \A c \in CallsIn(pending) : c \in unanswered \/ (c = tin.call /\ tin.pc \in {"close", "forward"})

\* Every step keeps it so.
LEMMA AwaitedStepLemma ==
  ASSUME Core, Named, Awaited, [Next]_vars
  PROVE  Awaited'
<1>0. ProcessorInv /\ SessionTypes /\ Control /\ Kept
  BY DEF Core
<1>1. /\ tin \in [pc : {"read", "own", "start", "track", "close", "forward", "gone"},
                 call : Calls \cup {NoCall}, displaced : Calls \cup {NoCall}]
      /\ pending \in Table(Ids, Calls) /\ NoId \notin Ids
  BY <1>0, ProcessorAssumption DEF SessionTypes, ProcessorInv
<1> SUFFICES ASSUME upstream' = "running", NEW c \in CallsIn(pending')
             PROVE  c \in unanswered' \/ (c = tin'.call /\ tin'.pc \in {"close", "forward"})
  BY DEF Awaited
<1>2. upstream = "running"
  <2>1. upstream = upstream' \/ upstream' = "exited"
    BY DEF Next, ClientPump, ReadRequest, RejectRequest, AnswerOwnTool, EmitStart, StartFails,
           TrackBadId, Track, CloseReused, Forward, ForwardBatch, ClientGone, ServerPump,
           ReceiveAnswer, ReceiveServerRequest, ReceiveNonObject, CloseAnswered, CloseRaises,
           Relay, UpstreamOutputEnds, Receive, WriteToClient, MainThread, JoinServerPump,
           DrainPending, CloseOutstanding, StopEmitter, Exit, UpstreamExits, Exited, vars, wire
  <2>2. QED
    BY <2>1
<1>3. CASE UNCHANGED <<pending, unanswered>> /\ (tin' = tin \/ tin.pc \in {"read", "own", "start", "track"})
  BY <1>1, <1>2, <1>3 DEF Awaited
<1>4. CASE Track
  <2>1. /\ tin.pc = "track" /\ TrackValid(tin.call) /\ unanswered' = unanswered
        /\ tin'.pc \in {"close", "forward"} /\ tin'.call = tin.call
        /\ pending' = Trimmed(Inserted(pending, request[tin.call].id, tin.call))
        /\ request[tin.call].id \in Ids
    BY <1>1, <1>4 DEF Track, TinAt, TrackValid, IsRequestId, wire
  <2>2. tin.call \in Calls /\ tin.call \notin CallsIn(pending)
    BY <1>0, <2>1 DEF Control, SessionTypes, Kept, Partition, InTrack
  <2>3. \A d \in CallsIn(pending) : d < tin.call
    BY <2>2, PendingWasReadLemma DEF Calls
  <2>4. PICK i \in DOMAIN pending' : c = pending'[i].call
    BY DEF CallsIn
  <2>5. \/ pending'[i] = Entry(request[tin.call].id, tin.call)
        \/ \E j \in DOMAIN pending : pending'[i] = pending[j]
    BY <1>1, <2>1, <2>2, <2>3, <2>4, TrackEntriesLemma
  <2>6. c = tin.call \/ c \in CallsIn(pending)
    BY <2>4, <2>5 DEF Entry, CallsIn
  <2>7. QED
    BY <1>2, <2>1, <2>6 DEF Awaited
<1>5. CASE CloseReused
  BY <1>1, <1>2, <1>5 DEF CloseReused, CloseDisplaced, TinAt, Awaited, wire
<1>6. CASE Forward
  <2>1. /\ tin.pc = "forward" /\ pending' = pending
        /\ unanswered' = IF request[tin.call].id # NoId THEN unanswered \cup {tin.call}
                         ELSE unanswered
    BY <1>2, <1>6 DEF Forward, TinAt, processor
  <2>2. CASE c = tin.call
    <3>1. PICK i \in DOMAIN pending : c = pending[i].call
      BY <2>1 DEF CallsIn
    <3>2. pending[i].id = request[c].id
      BY <3>1 DEF Named
    <3>3. pending[i].id \in Ids
      <4>1. pending \in Seq([id : Ids, call : Calls])
        BY <1>1 DEF Table
      <4>2. \A k \in DOMAIN pending : pending[k] \in [id : Ids, call : Calls]
        BY <4>1, ElementOfSeq, LenProperties
      <4>3. QED
        BY <3>1, <4>2
    <3>4. QED
      BY <1>1, <2>1, <2>2, <3>2, <3>3
  <2>3. CASE c # tin.call
    BY <1>2, <2>1, <2>3 DEF Awaited
  <2>4. QED
    BY <2>2, <2>3
<1>7. CASE ClientPump
  BY <1>3, <1>4, <1>5, <1>6, <1>7
  DEF ClientPump, ReadRequest, RejectRequest, AnswerOwnTool, EmitStart, StartFails, TrackBadId,
      ForwardBatch, ClientGone, StartEvent, TrackInvalid, TinAt, processor, wire
<1>8. ASSUME NEW id, UNCHANGED tin, pending' = Without(pending, id),
             \A d \in CallsIn(pending) : request[d].id # id => (d \in unanswered => d \in unanswered')
      PROVE  c \in unanswered' \/ (c = tin'.call /\ tin'.pc \in {"close", "forward"})
  <2>1. /\ CallsIn(pending') = CallsIn(pending) \ {CallAt(pending, id)}
        /\ CallAt(pending, id) \in CallsIn(pending) \cup {NoCall}
        /\ CallsIn(pending) \subseteq Calls
        /\ ~HasId(pending', id)
    BY <1>1, <1>8, CallsLemma, WithoutLemma
  <2>2. c \in CallsIn(pending) /\ c # CallAt(pending, id)
    BY <2>1
  <2>3. request[c].id # id
    <3>1. PICK i \in DOMAIN pending : c = pending[i].call
      BY <2>2 DEF CallsIn
    <3>2. pending[i].id = request[c].id
      BY <3>1 DEF Named
    <3>3. CASE request[c].id = id
      <4>1. HasId(pending, id)
        BY <3>2, <3>3 DEF HasId
      <4>2. CallAt(pending, id) = pending[SlotOf(pending, id)].call
        BY <4>1 DEF CallAt
      <4>3. SlotOf(pending, id) \in DOMAIN pending /\ pending[SlotOf(pending, id)].id = id
        BY <4>1, SlotLemma
      <4>4. i = SlotOf(pending, id)
        BY <1>1, <3>2, <3>3, <4>3 DEF Table, Ordered
      <4>5. QED
        BY <2>2, <3>1, <4>2, <4>4
    <3>4. QED
      BY <3>3
  <2>4. QED
    BY <1>2, <1>8, <2>2, <2>3 DEF Awaited
<1>9. CASE ServerPump
  <2>1. ASSUME NEW d \in Calls, NEW shape \in Shapes, ReceiveAnswer(d, shape)
        PROVE  c \in unanswered' \/ (c = tin'.call /\ tin'.pc \in {"close", "forward"})
    <3>1. /\ UNCHANGED tin /\ pending' = Without(pending, request[d].id)
          /\ unanswered' = unanswered \ {d}
      BY <2>1 DEF ReceiveAnswer, Receive, Pop
    <3>2. QED
      BY <1>8, <3>1
  <2>2. ASSUME NEW id \in ServerIds, ReceiveServerRequest(id)
        PROVE  c \in unanswered' \/ (c = tin'.call /\ tin'.pc \in {"close", "forward"})
    BY <1>8, <2>2 DEF ReceiveServerRequest, Receive, Pop
  <2>3. QED
    BY <1>3, <1>9, <2>1, <2>2
    DEF ServerPump, ReceiveNonObject, CloseAnswered, CloseRaises, Relay, UpstreamOutputEnds,
        EmitTerminal, TerminalRaises, WriteToClient, processor, wire
<1>10. CASE DrainPending
  BY <1>10 DEF DrainPending, EmptyTable, CallsIn
<1>11. CASE MainThread \/ UpstreamExits \/ Exited \/ UNCHANGED vars
  BY <1>3, <1>10, <1>11
  DEF MainThread, JoinServerPump, CloseOutstanding, CloseDrained, StopEmitter, Exit,
      UpstreamExits, Exited, vars, processor, wire
<1>12. QED
  BY <1>7, <1>9, <1>11 DEF Next

\* A started call goes from the client pump to the table, from there to a pump or to
\* the drain, and is closed; it never goes back.
LEMMA MoveLemma ==
  ASSUME Core, [Next]_vars, NEW c \in Started
  PROVE  /\ c \in InTrack' => c \in InTrack
         /\ c \in CallsIn(pending') => c \in InTrack \cup CallsIn(pending)
         /\ c \in Displaced' => c \in CallsIn(pending) \cup Displaced
         /\ c \in Popped' => c \in CallsIn(pending) \cup Popped
         /\ c \in Started'
<1>0. ProcessorInv /\ SessionTypes /\ Control /\ Kept
  BY DEF Core
<1>1. /\ tin \in [pc : {"read", "own", "start", "track", "close", "forward", "gone"},
                 call : Calls \cup {NoCall}, displaced : Calls \cup {NoCall}]
      /\ tout \in [pc : {"read", "emit", "done", "dead"}, call : Calls \cup {NoCall},
                  by : Calls \cup {NoCall}, cause : {"end", "error", "raises"}]
      /\ pending \in Table(Ids, Calls) /\ Calls \in SUBSET (Nat \ {NoCall})
      /\ c \in Calls /\ starts[c] # "none"
  BY <1>0, CallsLemma DEF SessionTypes, ProcessorInv, Started
<1>2. \A id : /\ CallsIn(Without(pending, id)) \subseteq CallsIn(pending)
              /\ CallAt(pending, id) \in CallsIn(pending) \cup {NoCall}
  BY <1>1, WithoutLemma
<1>3. c \in Started'
  <2>1. Core' /\ Effect
    BY StepLemma
  <2>2. starts'[c] = starts[c]
    BY <1>1, <2>1 DEF Effect, Opens, Closes
  <2>3. QED
    BY <1>1, <2>2 DEF Started
<1>4. CASE UNCHANGED <<pending, tin, tout>>
  BY <1>3, <1>4 DEF InTrack, Displaced, Popped
<1>5. CASE UNCHANGED <<pending, tout>> /\ tin'.pc # "track" /\ tin'.displaced \in {tin.displaced, NoCall}
  BY <1>3, <1>5 DEF InTrack, Displaced, Popped
<1>6. CASE EmitStart
  <2>1. /\ UNCHANGED <<pending, tout>> /\ tin.pc = "start"
        /\ tin'.call = tin.call /\ tin'.displaced = tin.displaced
    BY <1>1, <1>6 DEF EmitStart, StartEvent, Proceed, TinAt
  <2>2. c # tin.call
    BY <1>0, <1>1, <2>1 DEF Control
  <2>3. QED
    BY <1>3, <2>1, <2>2 DEF InTrack, Displaced, Popped
<1>7. CASE Track
  <2>1. /\ tin.pc = "track" /\ TrackValid(tin.call) /\ UNCHANGED tout
        /\ tin'.pc # "track" /\ tin'.displaced = CallAt(pending, request[tin.call].id)
        /\ pending' = Trimmed(Inserted(pending, request[tin.call].id, tin.call))
        /\ request[tin.call].id \in Ids
    BY <1>1, <1>7 DEF Track, TinAt, TrackValid, IsRequestId, DisplacedBy, wire
  <2>2. tin.call \in Calls /\ tin.call \notin CallsIn(pending) /\ InTrack = {tin.call}
    BY <1>0, <2>1 DEF Control, SessionTypes, Kept, Partition, InTrack
  <2>3. \A d \in CallsIn(pending) : d < tin.call
    BY <2>2, PendingWasReadLemma DEF Calls
  <2>4. c \in CallsIn(pending') => c = tin.call \/ c \in CallsIn(pending)
    BY <1>1, <2>1, <2>2, <2>3, TrackEntriesLemma DEF Entry, CallsIn
  <2>5. QED
    BY <1>2, <1>3, <2>1, <2>2, <2>4 DEF InTrack, Displaced, Popped
<1>8. CASE ClientPump
  <2>1. ASSUME NEW id \in AnyId, NEW kind \in Kinds, ReadRequest(id, kind)
        PROVE  /\ UNCHANGED <<pending, tout>> /\ tin'.pc # "track"
               /\ tin'.displaced = NoCall
    BY <2>1 DEF ReadRequest
  <2>2. StartFails \/ TrackBadId \/ Forward \/ RejectRequest \/ AnswerOwnTool \/ ClientGone
        => /\ UNCHANGED <<pending, tout>> /\ tin'.pc # "track"
           /\ tin'.displaced = tin.displaced
    BY <1>1 DEF RejectRequest, AnswerOwnTool, StartFails, TrackBadId, Forward, ClientGone,
                TrackInvalid, Proceed, processor
  <2>3. CloseReused => /\ UNCHANGED <<pending, tout>> /\ tin'.pc # "track"
                       /\ tin'.displaced = NoCall
    BY <1>1 DEF CloseReused, CloseDisplaced
  <2>4. ForwardBatch => UNCHANGED <<pending, tin, tout>>
    BY DEF ForwardBatch, processor
  <2>5. QED
    BY <1>4, <1>5, <1>6, <1>7, <1>8, <2>1, <2>2, <2>3, <2>4 DEF ClientPump
<1>9. ASSUME NEW id, NEW shape, NEW by, Receive(id, shape, by)
      PROVE  /\ CallsIn(pending') \subseteq CallsIn(pending) /\ UNCHANGED tin
             /\ Popped' \subseteq CallsIn(pending)
  BY <1>2, <1>9 DEF Receive, Pop, Popped
<1>10. CASE ServerPump
  <2>1. CASE UNCHANGED <<pending, tin>> /\ tout'.call \in {tout.call, NoCall}
    BY <1>3, <2>1 DEF InTrack, Displaced, Popped
  <2>2. CASE \E d \in Calls, shape \in Shapes : ReceiveAnswer(d, shape)
    BY <1>3, <1>9, <2>2 DEF ReceiveAnswer, InTrack, Displaced
  <2>3. CASE \E id \in ServerIds : ReceiveServerRequest(id)
    BY <1>3, <1>9, <2>3 DEF ReceiveServerRequest, InTrack, Displaced
  <2>4. QED
    BY <1>1, <1>10, <2>1, <2>2, <2>3
    DEF ServerPump, ReceiveNonObject, CloseAnswered, CloseRaises, Relay, UpstreamOutputEnds,
        EmitTerminal, TerminalRaises, WriteToClient, ToutReading, processor
<1>11. CASE DrainPending
  BY <1>3, <1>11 DEF DrainPending, EmptyTable, CallsIn, InTrack, Displaced, Popped
<1>12. CASE MainThread \/ UpstreamExits \/ Exited \/ UNCHANGED vars
  BY <1>4, <1>11, <1>12
  DEF MainThread, JoinServerPump, CloseOutstanding, CloseDrained, StopEmitter, Exit,
      UpstreamExits, Exited, vars, processor
<1>13. QED
  BY <1>8, <1>10, <1>12 DEF Next

\* Where a started call is while the upstream runs, and how it moves on.
LEMMA KeeperStepsLemma ==
  ASSUME IInv, HomeAfterTheChild, [Next]_vars, NEW c \in Started,
         NEW K, K <=> c \in Closed \cup raised \/ ServerPumpOver,
         NEW KK, KK <=> (c \in Closed \cup raised \/ ServerPumpOver)'
  PROVE  /\ K \/ c \in InTrack \/ c \in CallsIn(pending) \/ c \in Displaced \/ c \in Popped
         /\ c \in InTrack => c \in InTrack' \/ c \in CallsIn(pending') \/ KK
         /\ c \in CallsIn(pending) =>
              c \in CallsIn(pending') \/ c \in Displaced' \/ c \in Popped' \/ KK
         /\ c \in Displaced => c \in Displaced' \/ KK
         /\ c \in Popped => c \in Popped' \/ KK
         /\ c \in Started'
<1>1. Core
  BY DEF IInv, Core, TypeOK, ProcessorInv, SessionTypes
<1>2. Core' /\ HomeAfterTheChild'
  BY <1>1, StepLemma, HomeStepLemma
<1>3. /\ c \in InTrack' => c \in InTrack
      /\ c \in CallsIn(pending') => c \in InTrack \cup CallsIn(pending)
      /\ c \in Displaced' => c \in CallsIn(pending) \cup Displaced
      /\ c \in Popped' => c \in CallsIn(pending) \cup Popped
      /\ c \in Started'
  BY <1>1, MoveLemma
<1>4. /\ upstream = "running" => outstanding = {}
      /\ upstream' = "running" => outstanding' = {}
  BY <1>1, <1>2 DEF Core, Control, HomeAfterTheChild
<1>5. upstream \in {"running", "exited"} /\ upstream' \in {"running", "exited"}
  BY <1>1, <1>2 DEF Core, SessionTypes
<1>6. Partition(InTrack, CallsIn(pending), Displaced, Popped, outstanding, raised, Closed, Started)
  BY <1>1 DEF Core, Kept
<1>7. Partition(InTrack', CallsIn(pending'), Displaced', Popped', outstanding', raised', Closed',
                Started')
  BY <1>2 DEF Core, Kept
<1>8. KK \/ c \in InTrack' \/ c \in CallsIn(pending') \/ c \in Displaced' \/ c \in Popped'
  BY <1>3, <1>4, <1>5, <1>7 DEF Partition, ServerPumpOver
<1>9. K \/ c \in InTrack \/ c \in CallsIn(pending) \/ c \in Displaced \/ c \in Popped
  BY <1>4, <1>5, <1>6 DEF Partition, ServerPumpOver
<1>10. QED
  BY <1>3, <1>6, <1>8, <1>9 DEF Partition

\* What a thread's step does to the calls it keeps.
LEMMA ThreadStepsLemma ==
  ASSUME IInv, HomeAfterTheChild, Named, NEW c \in Calls
  PROVE  /\ ClientStep /\ c \in InTrack => c \notin InTrack'
         /\ ClientStep => c \notin Displaced'  \/ c \notin Displaced
         /\ ServerStep => c \notin Popped'
         /\ Answering(c) /\ c \in CallsIn(pending) => c \notin CallsIn(pending')
         /\ c \in unanswered /\ c \in CallsIn(pending) /\ [Next]_vars
            => c \in unanswered' \/ c \notin CallsIn(pending')
         /\ c \in InTrack => tin.pc = "track"
         /\ c \in Displaced => tin.pc = "close"
         /\ c \in Popped => tout.pc = "emit"
<1>0. /\ tin \in [pc : {"read", "own", "start", "track", "close", "forward", "gone"},
                  call : Calls \cup {NoCall}, displaced : Calls \cup {NoCall}]
      /\ NoCall \notin Calls /\ pending \in Table(Ids, Calls) /\ Control
  BY CallsLemma DEF IInv, TypeOK, ProcessorInv
<1>1. ClientStep /\ c \in InTrack => c \notin InTrack'
  BY <1>0 DEF ClientStep, AnswerOwnTool, EmitStart, TrackBadId, Track, CloseReused, Forward,
              InTrack, TinAt, Proceed
<1>2. ClientStep => c \notin Displaced' \/ c \notin Displaced
  BY <1>0 DEF ClientStep, AnswerOwnTool, EmitStart, TrackBadId, Track, CloseReused, Forward,
              Displaced, TinAt, Control
<1>3. ServerStep => c \notin Popped'
  BY <1>0 DEF ServerStep, CloseAnswered, CloseRaises, Relay, WriteToClient, ToutReading, Popped
<1>4. ASSUME NEW shape \in Shapes, ReceiveAnswer(c, shape), c \in CallsIn(pending)
      PROVE  c \notin CallsIn(pending')
  <2>1. pending' = Without(pending, request[c].id)
    BY <1>4 DEF ReceiveAnswer, Receive, Pop
  <2>2. CallsIn(pending') = CallsIn(pending) \ {CallAt(pending, request[c].id)}
    BY <1>0, <2>1, CallsLemma, WithoutLemma
  <2>3. PICK i \in DOMAIN pending : c = pending[i].call
    BY <1>4 DEF CallsIn
  <2>4. pending[i].id = request[c].id
    BY <2>3 DEF Named
  <2>5. HasId(pending, request[c].id)
    BY <2>4 DEF HasId
  <2>6. CallAt(pending, request[c].id) # NoCall
    <3>1. SlotOf(pending, request[c].id) \in DOMAIN pending
      BY <2>5, SlotLemma
    <3>2. pending[SlotOf(pending, request[c].id)].call \in CallsIn(pending)
      BY <3>1 DEF CallsIn
    <3>3. CallsIn(pending) \subseteq Calls
      BY <1>0, CallsLemma, WithoutLemma
    <3>4. QED
      BY <1>0, <2>5, <3>2, <3>3 DEF CallAt
  <2>7. c = CallAt(pending, request[c].id)
    BY <1>0, <1>4, <2>6, HolderLemma
  <2>8. QED
    BY <2>2, <2>7
<1>5. c \in unanswered /\ c \in CallsIn(pending) /\ [Next]_vars
      => c \in unanswered' \/ c \notin CallsIn(pending')
  <2>1. ServerPump => \/ \E d \in Calls, shape \in Shapes :
                            ReceiveAnswer(d, shape) /\ unanswered' = unanswered \ {d}
                      \/ unanswered' = unanswered
    BY DEF ServerPump, ReceiveAnswer, ReceiveServerRequest, ReceiveNonObject, CloseAnswered,
           CloseRaises, Relay, UpstreamOutputEnds, WriteToClient, wire
  <2>2. ClientPump => unanswered \subseteq unanswered'
    BY DEF ClientPump, ReadRequest, RejectRequest, AnswerOwnTool, EmitStart, StartFails,
           TrackBadId, Track, CloseReused, Forward, ForwardBatch, ClientGone, wire
  <2>3. MainThread \/ UpstreamExits \/ Exited \/ UNCHANGED vars => unanswered' = unanswered
    BY DEF MainThread, JoinServerPump, DrainPending, CloseOutstanding, StopEmitter, Exit,
           UpstreamExits, Exited, vars, wire
  <2>4. QED
    BY <1>4, <2>1, <2>2, <2>3 DEF Next
<1>6. QED
  BY <1>0, <1>1, <1>2, <1>3, <1>4, <1>5 DEF Answering, InTrack, Displaced, Popped, Control

\* The client pump on the way from its displaced call to the child's stdin.
LEMMA WayToTheChildLemma ==
  ASSUME IInv, NEW c \in Calls
  PROVE  /\ tin.call = c /\ tin.pc = "close" /\ [Next]_vars
            => tin'.call = c /\ tin'.pc \in {"close", "forward"}
         /\ tin.call = c /\ tin.pc = "close" /\ ClientStep => tin'.pc # "close"
         /\ tin.call = c /\ tin.pc = "forward" /\ [Next]_vars
            => tin'.call = c /\ tin'.pc \in {"forward", "read"}
         /\ tin.call = c /\ tin.pc = "forward" /\ ClientStep => tin'.pc = "read"
<1>0. tin \in [pc : {"read", "own", "start", "track", "close", "forward", "gone"},
               call : Calls \cup {NoCall}, displaced : Calls \cup {NoCall}]
  BY DEF IInv, TypeOK
<1>1. CASE ~ClientPump
  BY <1>1
  DEF Next, ServerPump, ReceiveAnswer, ReceiveServerRequest, ReceiveNonObject, CloseAnswered,
      CloseRaises, Relay, UpstreamOutputEnds, Receive, WriteToClient, MainThread, JoinServerPump,
      DrainPending, CloseOutstanding, StopEmitter, Exit, UpstreamExits, Exited, vars, ClientPump,
      ClientStep
<1>2. CASE ClientPump
  BY <1>0, <1>2
  DEF ClientPump, ReadRequest, RejectRequest, AnswerOwnTool, EmitStart, StartFails, TrackBadId,
      Track, CloseReused, Forward, ForwardBatch, ClientGone, TinAt, Proceed, ClientStep
<1>3. QED
  BY <1>1, <1>2

\* A call whose start was delivered is closed, or its end raises, or nothing more is
\* read from the upstream: t_in tracks it, the upstream is asked, answers, and t_out
\* closes what it popped, whoever else takes the entry in the meantime.
THEOREM StartsAreClosed == FairSpec /\ []ThreadsCanStep => EveryStartCloses
<1> DEFINE S(c) == c \in Started
           T(c) == c \in InTrack
           P(c) == c \in CallsIn(pending)
           D(c) == c \in Displaced
           O(c) == c \in Popped
           K(c) == c \in Closed \cup raised \/ ServerPumpOver
           W(c) == c \in unanswered
           Closing(c) == tin.call = c /\ tin.pc = "close"
           Forwarding(c) == tin.call = c /\ tin.pc = "forward"
           Emitting == tout.pc = "emit"
           Reading == tout.pc = "read"
           Begun(c) == starts[c] = "kept"
           WillClose(c) == Begun(c) ~> K(c)
           Inv == IInv /\ HomeAfterTheChild /\ Named /\ Awaited
<1>1. ASSUME NEW c \in Calls
      PROVE  Spec /\ Fairness /\ UpstreamAnswers(c) /\ []ThreadsCanStep => WillClose(c)
  <2>1. Spec => []Inv
    <3> DEFINE J == HomeAfterTheChild /\ Named /\ Awaited
    <3>1. Init => J
      BY ProcessorInitLemma
      DEF Init, ProcessorInit, HomeAfterTheChild, ToutReading, Named, Awaited
    <3>2. IInv /\ J /\ [Next]_vars => J'
      <4>1. IInv => Core
        BY DEF IInv, Core, TypeOK, ProcessorInv, SessionTypes
      <4>2. QED
        BY <4>1, HomeStepLemma, NamedStepLemma, AwaitedStepLemma
    <3>3. QED
      BY <3>1, <3>2, Invariance, PTL DEF Spec
  <2>2. Begun(c) => S(c)
    BY DEF Started
  <2>3. Inv /\ [Next]_vars /\ S(c) =>
          /\ K(c) \/ T(c) \/ P(c) \/ D(c) \/ O(c)
          /\ T(c) => T(c)' \/ P(c)' \/ K(c)'
          /\ P(c) => P(c)' \/ D(c)' \/ O(c)' \/ K(c)'
          /\ D(c) => D(c)' \/ K(c)'
          /\ O(c) => O(c)' \/ K(c)'
          /\ S(c)'
    BY KeeperStepsLemma
  <2>4. Inv =>
          /\ <<ClientStep>>_vars => (T(c) => ~T(c)') /\ (D(c) => ~D(c)')
          /\ <<ServerStep>>_vars => ~O(c)' /\ ~Emitting'
          /\ <<Answering(c)>>_vars /\ P(c) => ~P(c)'
          /\ W(c) /\ P(c) /\ [Next]_vars => W(c)' \/ ~P(c)'
          /\ O(c) => Emitting
    BY ThreadStepsLemma, AnswerStepsLemma
  <2>5. Inv =>
          /\ Closing(c) /\ [Next]_vars => Closing(c)' \/ Forwarding(c)'
          /\ Closing(c) /\ <<ClientStep>>_vars => ~Closing(c)'
          /\ Forwarding(c) /\ [Next]_vars => ~Closing(c)'
          /\ Forwarding(c) /\ <<ClientStep>>_vars => ~Forwarding(c)'
          /\ Forwarding(c)  => ~Closing(c)
    BY WayToTheChildLemma
  <2>6. Inv /\ P(c) /\ ~K(c) => W(c) \/ Closing(c) \/ Forwarding(c)
    BY DEF Awaited, ServerPumpOver, IInv, TypeOK
  <2>7. Inv /\ ThreadsCanStep /\ ~K(c) =>
          /\ Emitting \/ Reading
          /\ Emitting => ENABLED <<ServerStep>>_vars
          /\ Reading /\ W(c) => ENABLED <<Answering(c)>>_vars
          /\ T(c) \/ D(c) \/ Closing(c) \/ Forwarding(c) => ENABLED <<ClientStep>>_vars
    BY ThreadStepsLemma, AnswerStepsLemma DEF ThreadsCanStep
  <2> HIDE DEF S, T, P, D, O, K, W, Closing, Forwarding, Emitting, Reading, Begun, Inv
  <2>8. QED
    BY <2>1, <2>2, <2>3, <2>4, <2>5, <2>6, <2>7, PTL DEF Spec, Fairness, UpstreamAnswers
<1>2. Spec /\ Fairness /\ (\A c \in Calls : UpstreamAnswers(c)) /\ []ThreadsCanStep
      => \A c \in Calls : WillClose(c)
  BY <1>1
<1>3. (\A c \in Calls : WillClose(c)) => EveryStartCloses
  BY DEF EveryStartCloses
<1>4. QED
  BY <1>2, <1>3 DEF FairSpec
=============================================================================
