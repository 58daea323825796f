-------------------------- MODULE HttpBridgeProofs --------------------------
(***************************************************************************)
(* The safety of HttpBridge for every number of calls, every set of ids,   *)
(* every size of the table and everything a POST may bring back.           *)
(***************************************************************************)
EXTENDS HttpBridge, MessageProcessorProofs

\* The types of the variables the bridge adds.
BridgeTypes ==
  /\ pc \in {"read", "own", "start", "track", "post", "stream", "handle", "emit",
             "unreachable", "exited"}
  /\ call \in 0 .. NCalls
  /\ messages \in Seq(Message) /\ Len(messages) <= MaxMessages
  /\ responded \in BOOLEAN
  /\ popped \in [call : 0 .. NCalls, cause : {"end", "error", "raises"}]
  /\ silent \in BOOLEAN
  /\ replies \in [Calls -> Seq(ByTheLoop \cup FromUpstream)]

\* Where the loop stands: at most the request it works on is pending, under the
\* id of that request, and no longer once a message has answered it.
Control ==
  /\ pc \notin {"read", "exited"} => call # NoCall
  /\ pc = "start" => starts[call] = "none"
  /\ \A c \in Calls : c > call => starts[c] = "none"
  /\ pc # "emit" => popped.call = NoCall
  /\ pc = "emit" => messages # <<>>
  /\ CallsIn(pending) \subseteq {call}
  /\ pc \in {"read", "own", "start", "track", "exited"} => CallsIn(pending) = {}
  /\ CallsIn(pending) # {} => HasId(pending, RequestId)
  /\ pc \in {"handle", "emit"} /\ responded => CallsIn(pending) = {}

InTrack == IF pc = "track" THEN {call} ELSE {}
Popped == {popped.call} \ {NoCall}

\* A call that was started is on its way to the table, in it, popped, or done with.
Partition(a, b, c, d, e, all) ==
  /\ a \cup b \cup c \cup d \cup e = all
  /\ a \cap (b \cup c \cup d \cup e) = {}
  /\ b \cap (c \cup d \cup e) = {}
  /\ c \cap (d \cup e) = {}
  /\ d \cap e = {}

Kept == Partition(InTrack, CallsIn(pending), Popped, raised, Closed, Started)

\* What the client was given so far: nothing for the request at hand, unless one
\* of the messages handled was its answer; something for each request before it.
\* A call of the proxy's own tool goes no further than the proxy.
Replied ==
  /\ \A c \in Calls : c > call => Given(c) = {}
  /\ pc \in {"own", "start", "track", "post", "stream", "unreachable"} => Given(call) = {}
  /\ pc \notin {"read", "own", "exited"} => request[call].kind # OwnTool
  /\ pc \in {"handle", "emit"} => Given(call) \subseteq FromUpstream
  /\ pc = "handle" => (responded <=> Given(call) # {})
  /\ pc = "emit" => (responded <=> Given(call) # {} \/ TakenForAnswer(Head(messages)))
  /\ \A c \in Calls : c < call \/ (c = call /\ pc \in {"read", "exited"}) =>
       (request[c].id # NoId => Given(c) # {})
  /\ \A c \in Calls : Mistaken(c) => request[c].id \in ServerIds

Core == ProcessorInv /\ BridgeTypes /\ Control /\ Kept

\* The two sides EventsAgreeWithReplies compares: what the client was given, and what
\* the events say.
Told(c) == Given(c) \cap FromUpstream # {}
Verdict(c) == c \in raised \/ \E i \in DOMAIN terminals[c] : terminals[c][i].cause \in {"end", "error"}

\* They agree at every step; until the loop is done with a request only the upstream
\* closes its call; and a message popped the call at hand if it is its answer, unless
\* an answer came before.
Agreement ==
  /\ \A c \in Started : IsRequestId(request[c].id) => (Told(c) <=> Verdict(c))
  /\ pc \notin {"read", "exited"} /\ IsRequestId(RequestId) /\ call \in Closed => Verdict(call)
  /\ pc = "emit" /\ popped.call # NoCall => popped.call = call /\ TakenForAnswer(Head(messages))
  /\ /\ pc = "emit" /\ popped.call = NoCall /\ TakenForAnswer(Head(messages))
     /\ call \in Started /\ IsRequestId(RequestId)
     => Told(call)

\* The inductive invariant.
IInv ==
  /\ Core
  /\ OneTerminalPerCall
  /\ Replied
  /\ RepliesAreConsistent
  /\ Agreement

\* A session starts with no request and nothing pending.
LEMMA InitLemma == Init => IInv
<1> SUFFICES ASSUME Init PROVE IInv
  OBVIOUS
<1>1. ProcessorInv /\ Started = {} /\ Closed = {} /\ CallsIn(pending) = {}
  BY ProcessorInitLemma DEF Init
<1>2. raised = {} /\ \A c \in Calls : starts[c] = "none" /\ terminals[c] = <<>>
  BY DEF Init, ProcessorInit
<1>3. BridgeTypes
  <2>1. 0 \in 0 .. NCalls /\ MaxMessages \in Nat
    BY ProcessorAssumption, BridgeAssumption
  <2>2. <<>> \in Seq(Message) /\ Len(<<>>) <= MaxMessages
    BY <2>1
  <2>3. replies \in [Calls -> Seq(ByTheLoop \cup FromUpstream)]
    <3>1. <<>> \in Seq(ByTheLoop \cup FromUpstream)
      OBVIOUS
    <3>2. QED
      BY <3>1 DEF Init
  <2>4. popped \in [call : 0 .. NCalls, cause : {"end", "error", "raises"}]
    BY <2>1 DEF Init, NothingPopped, NoCall
  <2>5. QED
    BY <2>1, <2>2, <2>3, <2>4 DEF Init, BridgeTypes, NoCall
<1>4. Control
  BY <1>1, <1>2 DEF Init, Control, NothingPopped
<1>5. InTrack = {} /\ Popped = {}
  BY DEF Init, InTrack, Popped, NothingPopped
<1>6. Kept
  BY <1>1, <1>2, <1>5 DEF Kept, Partition
<1>7. OneTerminalPerCall
  <2>1. Len(<<>>) <= 1
    OBVIOUS
  <2>2. QED
    BY <1>1, <1>2, <2>1 DEF OneTerminalPerCall
<1>8. Replied
  <2>1. \A c \in Calls : Given(c) = {} /\ ~(c <= call) /\ ~(c < call)
    BY DEF Init, NoCall, Calls, Given
  <2>2. \A c \in Calls : ~(c = call)
    BY DEF Init, NoCall, Calls
  <2>3. pc = "read"
    BY DEF Init
  <2>4. QED
    BY <2>1, <2>2, <2>3 DEF Replied, Mistaken
<1>9. RepliesAreConsistent
  BY DEF Init, RepliesAreConsistent, Given
<1>10. Agreement
  BY <1>1 DEF Init, Agreement
<1>11. QED
  BY <1>1, <1>3, <1>4, <1>6, <1>7, <1>8, <1>9, <1>10 DEF IInv, Core

-----------------------------------------------------------------------------
(* The steps.                                                              *)

\* The call at hand is one of the calls, once there is one.
LEMMA CurrentCallLemma ==
  ASSUME BridgeTypes, call # NoCall
  PROVE  call \in Calls
<1>1. call \in 0 .. NCalls /\ NCalls \in Nat
  BY ProcessorAssumption DEF BridgeTypes
<1>2. QED
  BY <1>1 DEF Calls, NoCall

\* A reply is added to those the client has been given for the request at hand.
LEMMA GivenLemma ==
  ASSUME BridgeTypes, call \in Calls, NEW kind \in ByTheLoop \cup FromUpstream, Reply(kind)
  PROVE  /\ replies' \in [Calls -> Seq(ByTheLoop \cup FromUpstream)]
         /\ Given(call)' = IF UNCHANGED call THEN Given(call) \cup {kind} ELSE Given(call)'
         /\ Given(call) = {} => Len(replies'[call]) = 1
         /\ \A c \in Calls : c # call => replies'[c] = replies[c]
<1> DEFINE S == ByTheLoop \cup FromUpstream
           q == replies[call]
           w == Append(q, kind)
<1>1. q \in Seq(S) /\ DOMAIN replies = Calls
  BY DEF BridgeTypes
<1>2. /\ w \in Seq(S) /\ Len(w) = Len(q) + 1 /\ w[Len(q) + 1] = kind
      /\ \A i \in 1 .. Len(q) : w[i] = q[i]
  BY <1>1, AppendProperties
<1>3. /\ DOMAIN w = 1 .. Len(w) /\ DOMAIN q = 1 .. Len(q) /\ Len(q) \in Nat
  BY <1>1, <1>2, LenProperties
<1>4. /\ replies' = [replies EXCEPT ![call] = w]
      /\ replies'[call] = w
      /\ \A c \in Calls : c # call => replies'[c] = replies[c]
  BY <1>1 DEF Reply
<1>5. replies' \in [Calls -> Seq(S)]
  BY <1>2, <1>4 DEF BridgeTypes
<1> HIDE DEF w
<1>6. {w[i] : i \in DOMAIN w} = {q[i] : i \in DOMAIN q} \cup {kind}
  <2>1. \A i \in DOMAIN w : i \in DOMAIN q \/ i = Len(q) + 1
    BY <1>2, <1>3
  <2>2. \A i \in DOMAIN q : i \in DOMAIN w
    BY <1>2, <1>3
  <2>3. Len(q) + 1 \in DOMAIN w
    BY <1>2, <1>3
  <2> HIDE DEF q
  <2>4. QED
    BY <1>2, <1>3, <2>1, <2>2, <2>3
<1>7. Given(call) = {} => Len(w) = 1
  <2>1. SUFFICES ASSUME Given(call) = {} PROVE Len(q) = 0
    BY <1>2, <1>3
  <2>2. DOMAIN q = {}
    BY <2>1 DEF Given
  <2> HIDE DEF q
  <2>3. PICK n \in Nat : n = Len(q)
    BY <1>3
  <2>4. 1 \notin 1 .. n
    BY <1>3, <2>2, <2>3
  <2>5. n = 0
    BY <2>4
  <2>6. QED
    BY <2>3, <2>5
<1>8. UNCHANGED call => Given(call)' = {w[i] : i \in DOMAIN w}
  BY <1>4 DEF Given
<1>9. QED
  BY <1>4, <1>5, <1>6, <1>7, <1>8 DEF Given

\* What the table holds it holds under an id of the client's.
LEMMA NoEntryLemma ==
  ASSUME ProcessorInv, Control, ~IsRequestId(RequestId)
  PROVE  CallsIn(pending) = {}
<1>1. pending \in Seq([id : Ids, call : Calls])
  BY DEF ProcessorInv, ProcessorTypeOK
<1>2. \A i \in DOMAIN pending : pending[i].id \in Ids
  <2>1. TAKE i \in DOMAIN pending
  <2>2. i \in 1 .. Len(pending)
    BY <1>1, LenProperties
  <2>3. pending[i] \in [id : Ids, call : Calls]
    BY <1>1, <2>2, ElementOfSeq
  <2>4. QED
    BY <2>3
<1>3. ~HasId(pending, RequestId)
  BY <1>2 DEF HasId, IsRequestId
<1>4. QED
  BY <1>3 DEF Control

\* A body is a sequence of messages.
LEMMA BodyLemma ==
  ASSUME NEW body \in Bodies
  PROVE  body \in Seq(Message) /\ Len(body) <= MaxMessages
<1>1. PICK n \in 0 .. MaxMessages : body \in [1 .. n -> Message]
  BY DEF Bodies
<1>2. n \in Nat /\ n <= MaxMessages
  BY <1>1, BridgeAssumption
<1>3. body \in Seq(Message)
  BY <1>1, <1>2, SeqDef
<1>4. Len(body) = n
  BY <1>1, <1>2, <1>3, LenProperties
<1>5. QED
  BY <1>2, <1>3, <1>4

\* A step that leaves the processor, and what was popped, alone.
LEMMA IdleLemma ==
  ASSUME Core, UNCHANGED processor, UNCHANGED <<call, popped>>, BridgeTypes',
         pc \notin {"track", "emit"},
         pc' \notin {"own", "start", "track", "emit"},
         pc' \notin {"read", "exited"} => pc \notin {"read", "exited"},
         pc' \in {"read", "exited"} => CallsIn(pending) = {},
         pc' = "handle" => ~responded'
  PROVE  Core' /\ Effect
<1>1. ProcessorInv' /\ UNCHANGED <<request, starts, terminals, raised, pending, emitterOn>>
  BY ProcessorUnchangedLemma DEF Core
<1>2. /\ CallsIn(pending)' = CallsIn(pending) /\ Closed' = Closed /\ Started' = Started
      /\ HasId(pending, RequestId)' <=> HasId(pending, RequestId)
  BY <1>1 DEF Closed, Started, RequestId
<1>3. InTrack' = InTrack /\ Popped' = Popped
  BY DEF InTrack, Popped
<1>4. Kept'
  BY <1>1, <1>2, <1>3 DEF Core, Kept
<1>5. Control'
  BY <1>1, <1>2 DEF Core, Control
<1>6. QED
  BY <1>1, <1>4, <1>5 DEF Core, Effect

\* The POST, and every end of a request for which no event is due.
LEMMA LoopQuietLemma ==
  ASSUME Core,
         \/ RejectRequest \/ AnswerOwnTool \/ StartFails
         \/ \E body \in Bodies : BodyArrives(body)
         \/ StreamOpens
         \/ \E m \in Message : StreamMessage(m)
         \/ StreamComment \/ StreamSilent \/ StreamEnds \/ PostFails
         \/ Answered \/ DropNotification
  PROVE  Core' /\ Effect
<1>0. ProcessorInv /\ BridgeTypes /\ Control /\ Kept
  BY DEF Core
<1>1. <<>> \in Seq(Message) /\ Len(<<>>) <= MaxMessages
  BY BridgeAssumption
<1>2. CASE RejectRequest \/ AnswerOwnTool
  <2>1. /\ pc \in {"own", "start"} /\ pc' = "read"
        /\ UNCHANGED <<processor, call, messages, responded, popped, silent>>
        /\ Reply("internal error") \/ Reply("own")
    BY <1>2 DEF RejectRequest, AnswerOwnTool, transport
  <2>2. BridgeTypes'
    <3>1. call \in Calls /\ {"internal error", "own"} \subseteq ByTheLoop
      BY <1>0, <2>1, CurrentCallLemma DEF Control, ByTheLoop
    <3>2. replies' \in [Calls -> Seq(ByTheLoop \cup FromUpstream)]
      BY <1>0, <2>1, <3>1, GivenLemma
    <3>3. QED
      BY <1>0, <2>1, <3>2 DEF BridgeTypes
  <2>3. CallsIn(pending) = {}
    BY <1>0, <2>1 DEF Control
  <2>4. QED
    BY <2>1, <2>2, <2>3, IdleLemma
<1>3. CASE StartFails
  <2>1. /\ pc = "start" /\ pc' = "post"
        /\ UNCHANGED <<processor, call, messages, responded, popped, silent, replies>>
    BY <1>3 DEF StartFails, transport
  <2>2. BridgeTypes'
    BY <1>0, <2>1 DEF BridgeTypes
  <2>3. QED
    BY <2>1, <2>2, IdleLemma
<1>4. CASE \E body \in Bodies : BodyArrives(body)
  <2>1. PICK body \in Bodies : BodyArrives(body)
    BY <1>4
  <2>2. /\ pc = "post" /\ pc' = "handle" /\ responded' = FALSE /\ messages' = body
        /\ UNCHANGED <<processor, call, popped, silent, replies>>
    BY <2>1 DEF BodyArrives
  <2>3. body \in Seq(Message) /\ Len(body) <= MaxMessages
    BY BodyLemma
  <2>4. BridgeTypes'
    BY <1>0, <2>2, <2>3 DEF BridgeTypes
  <2>5. QED
    BY <2>2, <2>4, IdleLemma
<1>5. CASE StreamOpens
  <2>1. /\ pc = "post" /\ pc' = "stream" /\ messages' = <<>> /\ silent' = FALSE
        /\ UNCHANGED <<processor, call, responded, popped, replies>>
    BY <1>5 DEF StreamOpens
  <2>2. BridgeTypes'
    BY <1>0, <1>1, <2>1 DEF BridgeTypes
  <2>3. QED
    BY <2>1, <2>2, IdleLemma
<1>6. CASE \E m \in Message : StreamMessage(m)
  <2>1. PICK m \in Message : StreamMessage(m)
    BY <1>6
  <2>2. /\ pc = "stream" /\ pc' = pc /\ silent' = FALSE
        /\ Len(messages) < MaxMessages /\ messages' = Append(messages, m)
        /\ UNCHANGED <<processor, call, responded, popped, replies>>
    BY <2>1 DEF StreamMessage
  <2>3. messages' \in Seq(Message) /\ Len(messages') <= MaxMessages
    <3>1. messages \in Seq(Message) /\ Len(messages) \in Nat
      BY <1>0, LenProperties DEF BridgeTypes
    <3>2. /\ Append(messages, m) \in Seq(Message)
          /\ Len(Append(messages, m)) = Len(messages) + 1
      BY <3>1, AppendProperties
    <3>3. QED
      BY <2>2, <3>1, <3>2, BridgeAssumption
  <2>4. BridgeTypes'
    BY <1>0, <2>2, <2>3 DEF BridgeTypes
  <2>5. QED
    BY <2>2, <2>4, IdleLemma
<1>7. CASE StreamComment \/ StreamSilent
  <2>1. /\ pc = "stream" /\ pc' = pc /\ silent' \in BOOLEAN
        /\ UNCHANGED <<processor, call, messages, responded, popped, replies>>
    BY <1>7 DEF StreamComment, StreamSilent
  <2>2. BridgeTypes'
    BY <1>0, <2>1 DEF BridgeTypes
  <2>3. QED
    BY <2>1, <2>2, IdleLemma
<1>8. CASE StreamEnds
  <2>1. /\ pc = "stream" /\ pc' = "handle" /\ responded' = FALSE
        /\ UNCHANGED <<processor, call, messages, popped, silent, replies>>
    BY <1>8 DEF StreamEnds
  <2>2. BridgeTypes'
    BY <1>0, <2>1 DEF BridgeTypes
  <2>3. QED
    BY <2>1, <2>2, IdleLemma
<1>9. CASE PostFails
  <2>1. /\ pc \in {"post", "stream"} /\ pc' = "unreachable" /\ messages' = <<>>
        /\ UNCHANGED <<processor, call, responded, popped, silent, replies>>
    BY <1>9 DEF PostFails
  <2>2. BridgeTypes'
    BY <1>0, <1>1, <2>1 DEF BridgeTypes
  <2>3. QED
    BY <2>1, <2>2, IdleLemma
<1>10. CASE Answered \/ DropNotification
  <2>1. /\ pc \in {"handle", "unreachable"} /\ pc' = "read"
        /\ (pc = "handle" /\ responded) \/ RequestId = NoId
        /\ UNCHANGED <<processor, call, messages, responded, popped, silent, replies>>
    BY <1>10 DEF Answered, DropNotification, Unanswered, NextLine, transport
  <2>2. BridgeTypes'
    BY <1>0, <2>1 DEF BridgeTypes
  <2>3. CallsIn(pending) = {}
    <3>1. CASE pc = "handle" /\ responded
      BY <1>0, <3>1 DEF Control
    <3>2. CASE RequestId = NoId
      <4>1. ~IsRequestId(RequestId)
        BY <3>2, ProcessorAssumption DEF IsRequestId
      <4>2. QED
        BY <1>0, <4>1, NoEntryLemma
    <3>3. QED
      BY <2>1, <3>1, <3>2
  <2>4. QED
    BY <2>1, <2>2, <2>3, IdleLemma
<1>11. QED
  BY <1>2, <1>3, <1>4, <1>5, <1>6, <1>7, <1>8, <1>9, <1>10

\* The next request: nothing is known of its call yet.
LEMMA ReadRequestLemma ==
  ASSUME Core, NEW id \in AnyId, NEW kind \in Kinds, ReadRequest(id, kind)
  PROVE  Core' /\ Effect
<1>0. ProcessorInv /\ BridgeTypes /\ Control /\ Kept
  BY DEF Core
<1>1. /\ pc = "read" /\ pc' \in {"own", "start", "post"} /\ call < NCalls /\ call' = call + 1
      /\ request' = [request EXCEPT ![call + 1] = [id |-> id, kind |-> kind]]
      /\ UNCHANGED <<starts, terminals, raised, pending, emitterOn>>
      /\ UNCHANGED <<messages, responded, popped, silent, replies>>
  BY DEF ReadRequest, events, transport
<1>2. call \in Nat /\ NCalls \in Nat /\ call + 1 \in 0 .. NCalls /\ call + 1 \in Calls
      /\ call + 1 # NoCall /\ \A c \in Calls : c > call + 1 => c > call
  <2>1. call \in 0 .. NCalls /\ NCalls \in Nat
    BY <1>0, ProcessorAssumption DEF BridgeTypes
  <2>2. call < NCalls
    BY <1>1
  <2>3. QED
    BY <2>1, <2>2 DEF Calls, NoCall
<1>3. ProcessorInv'
  <2>1. kind \in AllKinds
    BY ProcessorAssumption
  <2>2. request' \in [Calls -> [id : AnyId, kind : AllKinds]]
    BY <1>0, <1>1, <1>2, <2>1 DEF ProcessorInv, ProcessorTypeOK
  <2>3. QED
    BY <1>0, <1>1, <2>2 DEF ProcessorInv, ProcessorTypeOK
<1>4. BridgeTypes'
  BY <1>0, <1>1, <1>2 DEF BridgeTypes
<1>5. CallsIn(pending) = {} /\ CallsIn(pending)' = CallsIn(pending)
      /\ Closed' = Closed /\ Started' = Started
  BY <1>0, <1>1 DEF Control, Closed, Started
<1>6. starts[call + 1] = "none"
  BY <1>0, <1>2 DEF Control, Calls
<1>7. Control'
  BY <1>0, <1>1, <1>2, <1>5, <1>6 DEF Control
<1>8. InTrack' = InTrack /\ Popped' = Popped
  BY <1>1 DEF InTrack, Popped
<1>9. Kept'
  BY <1>0, <1>1, <1>5, <1>8 DEF Kept
<1>10. QED
  BY <1>1, <1>3, <1>4, <1>7, <1>9 DEF Core, Effect

\* The start event: the call is to be tracked.
LEMMA EmitStartLemma ==
  ASSUME Core, EmitStart
  PROVE  Core' /\ Effect
<1>0. ProcessorInv /\ BridgeTypes /\ Control /\ Kept
  BY DEF Core
<1>1. /\ pc = "start" /\ pc' = "track" /\ StartEvent(call)
      /\ UNCHANGED <<call, messages, responded, popped, silent, replies>>
      /\ UNCHANGED <<request, terminals, raised, pending, emitterOn>>
  BY DEF EmitStart, StartEvent, transport
<1>2. call \in Calls /\ starts[call] = "none" /\ CallsIn(pending) = {}
  BY <1>0, <1>1, CurrentCallLemma DEF Control
<1>3. /\ ProcessorInv'
      /\ Started' = Started \cup {call}
      /\ Closed' = Closed /\ raised' = raised /\ CallsIn(pending)' = CallsIn(pending)
      /\ \A d \in Calls : d # call => starts'[d] = starts[d]
  BY <1>0, <1>1, <1>2, StartEventLemma
<1>4. BridgeTypes'
  BY <1>0, <1>1 DEF BridgeTypes
<1>5. Control'
  <2>1. \A c \in Calls : c > call => c # call
    BY <1>2 DEF Calls
  <2>2. QED
    BY <1>0, <1>1, <1>2, <1>3, <2>1 DEF Control
<1>6. InTrack = {} /\ InTrack' = {call} /\ Popped' = Popped
  BY <1>1 DEF InTrack, Popped
<1>7. call \notin Started
  BY <1>2 DEF Started
<1>8. Kept'
  BY <1>0, <1>3, <1>6, <1>7 DEF Kept, Partition
<1>9. Effect
  <2>1. starts'[call] # "none"
    BY <1>2, <1>3 DEF Started
  <2>2. Opens(call)
    BY <1>1, <1>2, <1>3, <2>1 DEF Opens
  <2>3. QED
    BY <1>2, <2>2 DEF Effect
<1>10. QED
  BY <1>3, <1>4, <1>5, <1>8, <1>9 DEF Core

\* A call that nothing can answer is closed, not tracked.
LEMMA TrackBadIdLemma ==
  ASSUME Core, TrackBadId
  PROVE  Core' /\ Effect
<1>0. ProcessorInv /\ BridgeTypes /\ Control /\ Kept
  BY DEF Core
<1>1. /\ pc = "track" /\ pc' = "post" /\ CloseCall(call, "invalid", NoCall)
      /\ UNCHANGED <<request, starts, raised, pending, emitterOn>>
      /\ UNCHANGED <<call, messages, responded, popped, silent, replies>>
  BY DEF TrackBadId, TrackInvalid, transport
<1>2. call \in Calls /\ "invalid" \in Causes
  BY <1>0, <1>1, CurrentCallLemma DEF Control, Causes
<1>3. /\ ProcessorInv'
      /\ ClosesWith({call}, Terminal("invalid", NoCall))
      /\ Closed' = Closed \cup {call}
      /\ Started' = Started
      /\ CallsIn(pending)' = CallsIn(pending)
  BY <1>0, <1>1, <1>2, OneEventLemma
<1>4. BridgeTypes'
  BY <1>0, <1>1 DEF BridgeTypes
<1>5. Control'
  BY <1>0, <1>1, <1>3 DEF Control
<1>6. InTrack = {call} /\ InTrack' = {} /\ Popped' = Popped
  BY <1>1 DEF InTrack, Popped
<1>7. Kept' /\ call \in Started \ Closed
  BY <1>0, <1>1, <1>3, <1>6 DEF Kept, Partition
<1>8. Effect
  <2>1. Terminal("invalid", NoCall) \in TerminalEvents
    BY <1>0, <1>2, TerminalLemma
  <2>2. Closes({call}, Terminal("invalid", NoCall))
    BY <1>1, <1>3, <1>7 DEF Closes, Terminal
  <2>3. QED
    BY <1>2, <2>1, <2>2 DEF Effect
<1>9. QED
  BY <1>3, <1>4, <1>5, <1>7, <1>8 DEF Core

\* The call enters an empty table, whatever its limit, and displaces nothing.
LEMMA TrackLemma ==
  ASSUME Core, Track
  PROVE  Core' /\ Effect /\ UNCHANGED terminals
<1>0. ProcessorInv /\ BridgeTypes /\ Control /\ Kept
  BY DEF Core
<1>1. /\ pc = "track" /\ pc' = "post" /\ TrackValid(call)
      /\ UNCHANGED <<request, starts, raised, emitterOn>>
      /\ UNCHANGED <<call, messages, responded, popped, silent, replies>>
  BY DEF Track, TrackValid, transport
<1>2. call \in Calls /\ CallsIn(pending) = {} /\ DisplacedBy(call) = NoCall
      /\ RequestId \in Ids
  BY <1>0, <1>1, CurrentCallLemma DEF Control, Track, TrackValid, IsRequestId, RequestId
<1>3. PICK S \in SUBSET Calls :
        /\ ProcessorInv'
        /\ ClosesWith(S, Terminal("evicted", NoCall))
        /\ Closed' = Closed \cup S
        /\ Started' = Started
        /\ S \subseteq (CallsIn(pending) \ {DisplacedBy(call)}) \cup {call}
        /\ CallsIn(pending)' = ((CallsIn(pending) \ {DisplacedBy(call)}) \cup {call}) \ S
        /\ S # {} => /\ Len(pending') = MaxPending
                     /\ \A d \in S, e \in CallsIn(pending') : d < e
  <2>1. \A d \in CallsIn(pending) : d < call
    BY <1>2
  <2>2. QED
    BY <1>0, <1>1, <1>2, <2>1, TrackValidLemma
<1>4. S = {}
  <2>1. SUFFICES ASSUME S # {} PROVE FALSE
    OBVIOUS
  <2>2. CallsIn(pending)' = {} /\ Len(pending') = MaxPending
    BY <1>2, <1>3, <2>1
  <2>3. pending' \in Seq([id : Ids, call : Calls])
    BY <1>3 DEF ProcessorInv, ProcessorTypeOK
  <2>4. 1 \in DOMAIN pending'
    BY <2>2, <2>3, MaxPendingAssumption, LenProperties
  <2>5. QED
    BY <2>2, <2>4 DEF CallsIn
<1>5. CallsIn(pending)' = {call} /\ Closed' = Closed /\ UNCHANGED terminals
  <2>1. terminals' = [d \in Calls |-> terminals[d]]
    BY <1>3, <1>4 DEF ClosesWith
  <2>2. QED
    BY <1>0, <1>2, <1>3, <1>4, <2>1 DEF ProcessorInv, ProcessorTypeOK
<1>6. HasId(pending, RequestId)'
  <2>1. pending' = Trimmed(Inserted(pending, RequestId, call))
    BY <1>1 DEF TrackValid, RequestId
  <2>2. pending = <<>>
    <3>1. pending \in Seq([id : Ids, call : Calls])
      BY <1>0 DEF ProcessorInv, ProcessorTypeOK
    <3>2. DOMAIN pending = {}
      BY <1>2 DEF CallsIn
    <3>3. QED
      BY <3>1, <3>2
  <2>3. Inserted(<<>>, RequestId, call) = <<Entry(RequestId, call)>>
    BY DEF Inserted, Without, HasId
  <2>4. Excess(<<Entry(RequestId, call)>>) = 0
    BY MaxPendingAssumption DEF Excess
  <2>5. Trimmed(<<Entry(RequestId, call)>>) = <<Entry(RequestId, call)>>
    <3> DEFINE e == Entry(RequestId, call)
    <3>1. <<e>> \in Seq({e})
      OBVIOUS
    <3>2. Trimmed(<<e>>) = SubSeq(<<e>>, 1, Len(<<e>>))
      BY <2>4 DEF Trimmed
    <3> HIDE DEF e
    <3>3. SubSeq(<<e>>, 1, Len(<<e>>)) = <<e>>
      BY <3>1, SubSeqFull
    <3>4. QED
      BY <3>2, <3>3 DEF e
  <2>6. pending' = <<Entry(RequestId, call)>>
    BY <2>1, <2>2, <2>3, <2>5
  <2>7. 1 \in DOMAIN pending' /\ pending'[1].id = RequestId
    BY <2>6 DEF Entry
  <2>8. RequestId' = RequestId
    BY <1>1 DEF RequestId
  <2>9. QED
    BY <2>7, <2>8 DEF HasId
<1>7. BridgeTypes'
  BY <1>0, <1>1 DEF BridgeTypes
<1>8. Control'
  BY <1>0, <1>1, <1>5, <1>6 DEF Control
<1>9. InTrack = {call} /\ InTrack' = {} /\ Popped' = Popped
  BY <1>1 DEF InTrack, Popped
<1>10. Kept'
  BY <1>0, <1>1, <1>2, <1>3, <1>5, <1>9 DEF Kept, Partition
<1>11. QED
  BY <1>1, <1>3, <1>5, <1>7, <1>8, <1>10 DEF Core, Effect

\* If a call is pending, it is the call at hand, under its own id; and a pop that
\* finds nothing changes nothing.
LEMMA PendingCallLemma ==
  ASSUME ProcessorInv, Control, NEW id
  PROVE  /\ CallAt(pending, id) \in CallsIn(pending) \cup {NoCall}
         /\ CallAt(pending, id) = NoCall => Without(pending, id) = pending
         /\ CallsIn(pending) # {} => /\ CallsIn(pending) = {call}
                                     /\ CallAt(pending, RequestId) = call
<1>1. pending \in Table(Ids, Calls) /\ Calls \in SUBSET (Nat \ {NoCall})
  BY CallsLemma DEF ProcessorInv
<1>2. CallsIn(pending) \subseteq Calls /\ NoCall \notin Calls
  BY <1>1, WithoutLemma
<1>3. \A i : HasId(pending, i) => CallAt(pending, i) \in CallsIn(pending)
  <2>1. TAKE i
  <2>2. SUFFICES ASSUME HasId(pending, i) PROVE CallAt(pending, i) \in CallsIn(pending)
    OBVIOUS
  <2>3. SlotOf(pending, i) \in DOMAIN pending
    BY <2>2, SlotLemma
  <2>4. QED
    BY <2>2, <2>3 DEF CallAt, CallsIn
<1>4. CallAt(pending, id) \in CallsIn(pending) \cup {NoCall}
  BY <1>3 DEF CallAt
<1>5. CallAt(pending, id) = NoCall => Without(pending, id) = pending
  BY <1>2, <1>3 DEF Without
<1>6. ASSUME CallsIn(pending) # {}
      PROVE  CallsIn(pending) = {call} /\ CallAt(pending, RequestId) = call
  <2>1. CallsIn(pending) = {call} /\ HasId(pending, RequestId)
    BY <1>6 DEF Control
  <2>2. QED
    BY <1>3, <2>1
<1>7. QED
  BY <1>4, <1>5, <1>6

\* A message takes the call at hand out of the table, or nothing; if it answers
\* the request, the table is empty then.
LEMMA HandleMessageLemma ==
  ASSUME Core, HandleMessage
  PROVE  Core' /\ Effect
<1> DEFINE id == Head(messages).id
           found == CallAt(pending, id)
           cause == CauseFor(found, Head(messages).shape)
<1>0. ProcessorInv /\ BridgeTypes /\ Control /\ Kept
  BY DEF Core
<1>1. /\ pc = "handle" /\ pc' = "emit" /\ messages # <<>>
      /\ Pop(id) /\ pending' = Without(pending, id)
      /\ popped' = [call |-> found, cause |-> cause]
      /\ responded' = (responded \/ id = RequestId)
      /\ UNCHANGED <<call, messages, silent, replies, request>>
  BY DEF HandleMessage, Pop, TakenForAnswer
<1>2. cause \in {"end", "error", "raises"}
  BY DEF CauseFor, CauseOf
<1> HIDE DEF cause
<1>3. /\ ProcessorInv'
      /\ CallsIn(pending)' = CallsIn(pending) \ {found}
      /\ found \in CallsIn(pending) \cup {NoCall}
      /\ CallsIn(pending) \subseteq Calls
      /\ UNCHANGED events /\ Started' = Started /\ Closed' = Closed
  BY <1>0, <1>1, PopLemma
<1>4. UNCHANGED <<starts, terminals, raised>>
  BY <1>3 DEF events
<1>5. /\ found = NoCall => pending' = pending
      /\ CallsIn(pending) # {} => /\ CallsIn(pending) = {call}
                                  /\ CallAt(pending, RequestId) = call
  BY <1>0, <1>1, PendingCallLemma
<1>6. NoCall \notin Calls
  BY CallsLemma
<1>7. id = RequestId => CallsIn(pending)' = {}
  BY <1>3, <1>5
<1> HIDE DEF found
<1>8. BridgeTypes'
  <2>1. found \in 0 .. NCalls
    BY <1>3, ProcessorAssumption DEF Calls, NoCall
  <2>2. popped' \in [call : 0 .. NCalls, cause : {"end", "error", "raises"}]
    BY <1>1, <1>2, <2>1
  <2>3. responded' \in BOOLEAN
    BY <1>1
  <2>4. QED
    BY <1>0, <1>1, <2>2, <2>3 DEF BridgeTypes
<1>9. Control'
  <2>1. call # NoCall /\ CallsIn(pending)' \subseteq {call}
    BY <1>0, <1>1, <1>3 DEF Control
  <2>2. RequestId' = RequestId
    BY <1>1 DEF RequestId
  <2>3. CallsIn(pending)' # {} => HasId(pending, RequestId)'
    <3>1. SUFFICES ASSUME CallsIn(pending)' # {} PROVE HasId(pending, RequestId)'
      OBVIOUS
    <3>2. found = NoCall /\ CallsIn(pending) # {}
      BY <1>3, <1>5, <3>1
    <3>3. pending' = pending /\ HasId(pending, RequestId)
      BY <1>0, <1>5, <3>2 DEF Control
    <3>4. QED
      BY <2>2, <3>3
  <2>4. responded' => CallsIn(pending)' = {}
    <3>1. responded => CallsIn(pending) = {}
      BY <1>0, <1>1 DEF Control
    <3>2. QED
      BY <1>1, <1>3, <1>7, <3>1
  <2>5. QED
    BY <1>0, <1>1, <1>4, <2>1, <2>3, <2>4 DEF Control
<1>10. InTrack' = InTrack /\ Popped = {} /\ Popped' = {found} \ {NoCall}
  BY <1>0, <1>1 DEF InTrack, Popped, Control
<1>11. Kept'
  BY <1>0, <1>3, <1>4, <1>6, <1>10 DEF Kept, Partition
<1>12. QED
  BY <1>3, <1>4, <1>8, <1>9, <1>11 DEF Core, Effect

\* What the loop does once a message has been looked up.
LEMMA WriteToClientLemma ==
  ASSUME Core, pc = "emit", WriteToClient, UNCHANGED <<request, starts, pending>>
  PROVE  /\ BridgeTypes' /\ Control'
         /\ InTrack = {} /\ InTrack' = {} /\ Popped' = {}
         /\ UNCHANGED call /\ call \in Calls
<1>0. ProcessorInv /\ BridgeTypes /\ Control /\ Kept
  BY DEF Core
<1>1. /\ pc' = "handle" /\ popped' = NothingPopped /\ messages' = Tail(messages)
      /\ UNCHANGED replies \/ Reply("upstream") \/ Reply("request")
      /\ UNCHANGED <<call, responded, silent>>
  BY DEF WriteToClient, ReplyKind
<1>2. call \in Calls /\ messages # <<>>
  BY <1>0, CurrentCallLemma DEF Control
<1>3. messages' \in Seq(Message) /\ Len(messages') <= MaxMessages
  <2>1. messages \in Seq(Message) /\ Len(messages) \in Nat /\ Len(messages) <= MaxMessages
    BY <1>0, LenProperties DEF BridgeTypes
  <2>2. Tail(messages) \in Seq(Message) /\ Len(Tail(messages)) = Len(messages) - 1
    BY <1>2, <2>1, HeadTailProperties
  <2>3. QED
    BY <1>1, <2>1, <2>2, BridgeAssumption
<1>4. popped' \in [call : 0 .. NCalls, cause : {"end", "error", "raises"}]
  BY <1>1, ProcessorAssumption DEF NothingPopped, NoCall
<1>5. BridgeTypes'
  <2>1. {"upstream", "request"} \subseteq FromUpstream
    BY DEF FromUpstream
  <2>2. replies' \in [Calls -> Seq(ByTheLoop \cup FromUpstream)]
    <3>1. CASE UNCHANGED replies
      BY <1>0, <3>1 DEF BridgeTypes
    <3>2. CASE Reply("upstream") \/ Reply("request")
      BY <1>0, <1>2, <2>1, <3>2, GivenLemma
    <3>3. QED
      BY <1>1, <3>1, <3>2
  <2>3. QED
    BY <1>0, <1>1, <1>3, <1>4, <2>2 DEF BridgeTypes
<1>6. Control'
  <2>1. CallsIn(pending)' = CallsIn(pending) /\ RequestId' = RequestId
    BY <1>1 DEF RequestId
  <2>2. QED
    BY <1>0, <1>1, <2>1 DEF Control, NothingPopped
<1>7. InTrack = {} /\ InTrack' = {} /\ Popped' = {}
  BY <1>1 DEF InTrack, Popped, NothingPopped
<1>8. QED
  BY <1>1, <1>2, <1>5, <1>6, <1>7

\* What was popped is a call, and its cause one of the three verdicts.
LEMMA PoppedLemma ==
  ASSUME BridgeTypes, popped.call # NoCall
  PROVE  popped.call \in Calls /\ popped.cause \in {"end", "error", "raises"}
<1>1. /\ popped \in [call : 0 .. NCalls, cause : {"end", "error", "raises"}]
      /\ NCalls \in Nat
  BY ProcessorAssumption DEF BridgeTypes
<1>2. popped.call \in 0 .. NCalls /\ popped.cause \in {"end", "error", "raises"}
  BY <1>1
<1>3. QED
  BY <1>1, <1>2 DEF Calls, NoCall

\* The call popped is closed with the verdict of the message.
LEMMA CloseAnsweredLemma ==
  ASSUME Core, CloseAnswered
  PROVE  Core' /\ Effect
<1>0. ProcessorInv /\ BridgeTypes /\ Control /\ Kept
  BY DEF Core
<1>1. /\ pc = "emit" /\ popped.call # NoCall /\ popped.cause # "raises"
      /\ WriteToClient
      /\ CloseCall(popped.call, popped.cause, call)
      /\ UNCHANGED <<request, starts, raised, pending, emitterOn>>
  BY DEF CloseAnswered, EmitTerminal
<1>2. /\ BridgeTypes' /\ Control'
      /\ InTrack = {} /\ InTrack' = {} /\ Popped' = {}
      /\ call \in Calls
  BY <1>1, WriteToClientLemma
<1>3. popped.call \in Calls /\ popped.cause \in Causes /\ popped.cause # "evicted"
  BY <1>0, <1>1, PoppedLemma DEF Causes
<1>4. /\ ProcessorInv'
      /\ ClosesWith({popped.call}, Terminal(popped.cause, call))
      /\ Closed' = Closed \cup {popped.call}
      /\ Started' = Started
      /\ CallsIn(pending)' = CallsIn(pending)
  BY <1>0, <1>1, <1>2, <1>3, OneEventLemma
<1>5. Popped = {popped.call}
  BY <1>1 DEF Popped
<1>6. Kept' /\ popped.call \in Started \ Closed
  BY <1>0, <1>1, <1>2, <1>4, <1>5 DEF Kept, Partition
<1>7. Effect
  <2>1. Terminal(popped.cause, call) \in TerminalEvents
    BY <1>0, <1>2, <1>3, TerminalLemma
  <2>2. /\ Terminal(popped.cause, call).cause # "evicted"
        /\ Terminal(popped.cause, call).kept = emitterOn
    BY <1>3 DEF Terminal
  <2>3. Closes({popped.call}, Terminal(popped.cause, call))
    BY <1>1, <1>4, <1>6, <2>2 DEF Closes
  <2>4. QED
    BY <1>3, <2>1, <2>3 DEF Effect
<1>8. QED
  BY <1>2, <1>4, <1>6, <1>7 DEF Core

\* The call popped whose event raises stays open, and out of the table.
LEMMA CloseRaisesLemma ==
  ASSUME Core, CloseRaises
  PROVE  Core' /\ Effect
<1>0. ProcessorInv /\ BridgeTypes /\ Control /\ Kept
  BY DEF Core
<1>1. /\ pc = "emit" /\ popped.call # NoCall
      /\ WriteToClient
      /\ raised' = raised \cup {popped.call}
      /\ UNCHANGED <<request, starts, terminals, pending, emitterOn>>
  BY DEF CloseRaises, TerminalRaises
<1>2. /\ BridgeTypes' /\ Control'
      /\ InTrack = {} /\ InTrack' = {} /\ Popped' = {}
  BY <1>1, WriteToClientLemma
<1>3. popped.call \in Calls
  BY <1>0, <1>1, PoppedLemma
<1>4. ProcessorInv'
  BY <1>0, <1>1, <1>3 DEF ProcessorInv, ProcessorTypeOK
<1>5. /\ Popped = {popped.call}
      /\ Closed' = Closed /\ Started' = Started /\ CallsIn(pending)' = CallsIn(pending)
  BY <1>1 DEF Popped, Closed, Started
<1>6. Kept'
  BY <1>0, <1>1, <1>2, <1>5 DEF Kept, Partition
<1>7. QED
  BY <1>1, <1>2, <1>4, <1>6 DEF Core, Effect

\* A message that popped no call is relayed.
LEMMA RelayLemma ==
  ASSUME Core, Relay
  PROVE  Core' /\ Effect
<1>0. ProcessorInv /\ BridgeTypes /\ Control /\ Kept
  BY DEF Core
<1>1. pc = "emit" /\ popped.call = NoCall /\ WriteToClient /\ UNCHANGED processor
  BY DEF Relay
<1>2. ProcessorInv' /\ UNCHANGED <<request, starts, terminals, raised, pending, emitterOn>>
  BY <1>0, <1>1, ProcessorUnchangedLemma
<1>3. /\ BridgeTypes' /\ Control'
      /\ InTrack = {} /\ InTrack' = {} /\ Popped' = {}
  BY <1>1, <1>2, WriteToClientLemma
<1>4. /\ Popped = {}
      /\ Closed' = Closed /\ Started' = Started /\ CallsIn(pending)' = CallsIn(pending)
  BY <1>1, <1>2 DEF Popped, Closed, Started
<1>5. Kept'
  BY <1>0, <1>2, <1>3, <1>4 DEF Kept
<1>6. QED
  BY <1>2, <1>3, <1>5 DEF Core, Effect

\* synthesize_pending_error: the call at hand is closed, if it is pending still.
LEMMA CloseUnansweredLemma ==
  ASSUME Core, pc \in {"handle", "unreachable"}, CloseUnanswered, NextLine,
         NEW kind \in {"degraded", "unreachable"}, Reply(kind)
  PROVE  Core' /\ Effect
<1> DEFINE found == CallAt(pending, RequestId)
<1>0. ProcessorInv /\ BridgeTypes /\ Control /\ Kept
  BY DEF Core
<1>1. /\ pc' = "read" /\ UNCHANGED <<call, messages, responded, popped, silent>>
      /\ pending' = Without(pending, RequestId)
      /\ UNCHANGED <<request, starts, raised, emitterOn>>
      /\ IF found = NoCall THEN UNCHANGED terminals ELSE CloseCall(found, "closed", NoCall)
  BY DEF NextLine, CloseUnanswered, transport
<1>2. /\ found \in CallsIn(pending) \cup {NoCall}
      /\ CallsIn(pending) # {} => CallsIn(pending) = {call} /\ found = call
  BY <1>0, PendingCallLemma
<1>3. call \in Calls /\ call # NoCall
  BY <1>0, CurrentCallLemma DEF Control
<1>4. BridgeTypes'
  <2>1. replies' \in [Calls -> Seq(ByTheLoop \cup FromUpstream)]
    BY <1>0, <1>3, GivenLemma DEF ByTheLoop
  <2>2. QED
    BY <1>0, <1>1, <2>1 DEF BridgeTypes
<1>5. /\ pending \in Table(Ids, Calls)
      /\ pending' \in Table(Ids, Calls) /\ Len(pending') <= Len(pending)
      /\ CallsIn(pending)' = CallsIn(pending) \ {found}
  <2>1. pending \in Table(Ids, Calls) /\ Calls \in SUBSET (Nat \ {NoCall})
    BY <1>0, CallsLemma DEF ProcessorInv
  <2>2. QED
    BY <1>1, <2>1, WithoutLemma
<1>6. pending' \in Seq([id : Ids, call : Calls]) /\ Len(pending') <= MaxPending
  <2>1. pending \in Seq([id : Ids, call : Calls]) /\ pending' \in Seq([id : Ids, call : Calls])
    BY <1>5 DEF Table
  <2>2. Len(pending) \in Nat /\ Len(pending') \in Nat /\ MaxPending \in Nat
    BY <2>1, LenProperties, MaxPendingAssumption
  <2>3. Len(pending) <= MaxPending /\ Len(pending') <= Len(pending)
    BY <1>0, <1>5 DEF ProcessorInv, ProcessorTypeOK
  <2>4. Len(pending') <= MaxPending
    BY <2>2, <2>3
  <2>5. QED
    BY <2>1, <2>4
<1> HIDE DEF found
<1>7. CallsIn(pending)' = {}
  BY <1>2, <1>5
<1>8. Control'
  BY <1>0, <1>1, <1>7 DEF Control
<1>9. InTrack = {} /\ InTrack' = {} /\ Popped = {} /\ Popped' = {} /\ Started' = Started
  BY <1>0, <1>1 DEF InTrack, Popped, Started, Control
<1>10. CASE CallsIn(pending) = {}
  <2>1. UNCHANGED terminals
    BY <1>1, <1>2, <1>10
  <2>2. ProcessorInv'
    BY <1>0, <1>1, <1>5, <1>6, <2>1 DEF ProcessorInv, ProcessorTypeOK
  <2>3. Closed' = Closed
    BY <2>1 DEF Closed
  <2>4. Kept'
    BY <1>0, <1>1, <1>7, <1>9, <1>10, <2>3 DEF Kept
  <2>5. QED
    BY <1>1, <1>4, <1>8, <2>1, <2>2, <2>4 DEF Core, Effect
<1>11. CASE CallsIn(pending) # {}
  <2>1. found = call /\ CallsIn(pending) = {call} /\ CloseCall(call, "closed", NoCall)
    BY <1>1, <1>2, <1>3, <1>11
  <2>2. "closed" \in Causes
    BY DEF Causes
  <2>3. /\ ClosesWith({call}, Terminal("closed", NoCall))
        /\ Terminal("closed", NoCall) \in TerminalEvents
    BY <1>0, <1>3, <2>1, <2>2, CloseCallLemma, TerminalLemma
  <2>4. /\ terminals' \in [Calls -> Seq(TerminalEvents)]
        /\ Closed' = Closed \cup {call}
    BY <1>0, <1>3, <2>3, ClosesWithLemma
  <2>5. ProcessorInv'
    BY <1>0, <1>1, <1>5, <1>6, <2>4 DEF ProcessorInv, ProcessorTypeOK, TerminalEvents
  <2>6. Kept' /\ call \in Started \ Closed
    BY <1>0, <1>1, <1>7, <1>9, <2>1, <2>4 DEF Kept, Partition
  <2>7. Closes({call}, Terminal("closed", NoCall))
    BY <1>1, <2>3, <2>6 DEF Closes, Terminal
  <2>8. QED
    BY <1>3, <1>4, <1>8, <2>3, <2>5, <2>6, <2>7 DEF Core, Effect
<1>12. QED
  BY <1>10, <1>11

\* A request that nothing answered: degraded, or failed.
LEMMA UnansweredLemma ==
  ASSUME Core, Degrade \/ Fail
  PROVE  Core' /\ Effect
<1>1. /\ pc \in {"handle", "unreachable"} /\ CloseUnanswered /\ NextLine
      /\ Reply("degraded") \/ Reply("unreachable")
  BY DEF Degrade, Fail, Unanswered
<1>2. QED
  BY <1>1, CloseUnansweredLemma

\* At EOF the table is empty, and the drain closes nothing.
LEMMA ClientGoneKeepsLemma ==
  ASSUME Core, ClientGone
  PROVE  UNCHANGED terminals
<1>1. CallsIn(pending) = {}
  BY DEF Core, Control, ClientGone
<1>2. terminals' = [c \in Calls |-> terminals[c]]
  BY <1>1 DEF ClientGone
<1>3. QED
  BY <1>2 DEF Core, ProcessorInv, ProcessorTypeOK

\* At EOF the drain finds nothing to close.
LEMMA ClientGoneLemma ==
  ASSUME Core, ClientGone
  PROVE  Core' /\ Effect
<1>0. ProcessorInv /\ BridgeTypes /\ Control /\ Kept
  BY DEF Core
<1>1. /\ pc = "read" /\ pc' = "exited" /\ pending' = <<>> /\ emitterOn' = FALSE
      /\ UNCHANGED <<request, starts, raised, call, messages, responded, popped, silent, replies>>
  BY DEF ClientGone, transport
<1>2. CallsIn(pending) = {} /\ CallsIn(pending)' = {}
  BY <1>0, <1>1 DEF Control, CallsIn
<1>3. UNCHANGED terminals
  BY ClientGoneKeepsLemma
<1>4. ProcessorInv'
  <2>1. <<>> \in Table(Ids, Calls) /\ <<>> \in Seq([id : Ids, call : Calls])
    BY DEF Table, Ordered
  <2>2. Len(<<>>) <= MaxPending
    BY MaxPendingAssumption
  <2>3. QED
    BY <1>0, <1>1, <1>3, <2>1, <2>2 DEF ProcessorInv, ProcessorTypeOK
<1>5. BridgeTypes'
  BY <1>0, <1>1 DEF BridgeTypes
<1>6. Control'
  BY <1>0, <1>1, <1>2 DEF Control
<1>7. InTrack' = InTrack /\ Popped' = Popped /\ Started' = Started /\ Closed' = Closed
  BY <1>1, <1>3 DEF InTrack, Popped, Started, Closed
<1>8. Kept'
  BY <1>0, <1>1, <1>2, <1>7 DEF Kept
<1>9. QED
  BY <1>1, <1>3, <1>4, <1>5, <1>6, <1>8 DEF Core, Effect

\* A step that changes nothing.
LEMMA StutterLemma ==
  ASSUME Core, UNCHANGED vars
  PROVE  Core' /\ Effect
<1>0. ProcessorInv /\ BridgeTypes /\ Control /\ Kept
  BY DEF Core
<1>1. UNCHANGED processor /\ UNCHANGED <<pc, call, messages, responded, popped, silent, replies>>
  BY DEF vars, transport
<1>2. ProcessorInv' /\ UNCHANGED <<request, starts, terminals, raised, pending, emitterOn>>
  BY <1>0, <1>1, ProcessorUnchangedLemma
<1>3. BridgeTypes'
  BY <1>0, <1>1 DEF BridgeTypes
<1>4. Control'
  BY <1>0, <1>1, <1>2 DEF Control, RequestId
<1>5. /\ InTrack' = InTrack /\ Popped' = Popped /\ Started' = Started /\ Closed' = Closed
      /\ CallsIn(pending)' = CallsIn(pending)
  BY <1>1, <1>2 DEF InTrack, Popped, Started, Closed
<1>6. Kept'
  BY <1>0, <1>2, <1>5 DEF Kept
<1>7. QED
  BY <1>2, <1>3, <1>4, <1>6 DEF Core, Effect

\* Every step preserves Core, and does to the events what Effect allows.
LEMMA StepLemma ==
  ASSUME Core, [Next]_vars
  PROVE  Core' /\ Effect
<1>1. ASSUME NEW id \in AnyId, NEW kind \in Kinds, ReadRequest(id, kind)
      PROVE  Core' /\ Effect
  BY <1>1, ReadRequestLemma
<1>2. CASE \/ RejectRequest \/ AnswerOwnTool \/ StartFails
           \/ \E body \in Bodies : BodyArrives(body)
           \/ StreamOpens
           \/ \E m \in Message : StreamMessage(m)
           \/ StreamComment \/ StreamSilent \/ StreamEnds \/ PostFails
           \/ Answered \/ DropNotification
  BY <1>2, LoopQuietLemma
<1>3. CASE EmitStart \/ TrackBadId \/ Track
  BY <1>3, EmitStartLemma, TrackBadIdLemma, TrackLemma
<1>4. CASE HandleMessage \/ CloseAnswered \/ CloseRaises \/ Relay
  BY <1>4, HandleMessageLemma, CloseAnsweredLemma, CloseRaisesLemma, RelayLemma
<1>5. CASE Degrade \/ Fail \/ ClientGone
  BY <1>5, UnansweredLemma, ClientGoneLemma
<1>6. CASE Exited \/ UNCHANGED vars
  BY <1>6, StutterLemma DEF Exited
<1>7. QED
  BY <1>1, <1>2, <1>3, <1>4, <1>5, <1>6 DEF Next

-----------------------------------------------------------------------------
(* What the client is given.                                               *)

\* Where nothing has been given for the request at hand.
Unheard == {"start", "track", "post", "stream", "unreachable"}

\* A step that gives the client nothing, on the request at hand.
LEMMA SilentStepLemma ==
  ASSUME Replied, RepliesAreConsistent, UNCHANGED <<request, call, replies>>,
         \/ pc \in Unheard /\ pc' \in Unheard
         \/ pc \in Unheard /\ pc' = "handle" /\ ~responded'
         \/ /\ pc = "handle" /\ pc' = "emit" /\ UNCHANGED messages
            /\ responded' <=> responded \/ TakenForAnswer(Head(messages))
         \/ pc = "handle" /\ responded /\ pc' = "read"
         \/ pc \in {"handle", "unreachable"} /\ RequestId = NoId /\ pc' = "read"
         \/ pc \in {"read", "exited"} /\ pc' \in {"read", "exited"}
         \/ UNCHANGED <<pc, responded, messages>>
  PROVE  Replied' /\ RepliesAreConsistent'
<1>1. \A c : (Given(c)' = Given(c)) /\ (Mistaken(c)' <=> Mistaken(c))
  BY DEF Given, Mistaken
<1>2. RepliesAreConsistent'
  BY <1>1 DEF RepliesAreConsistent
<1>3. RequestId' = RequestId
  BY DEF RequestId
<1>4. UNCHANGED messages => (TakenForAnswer(Head(messages))' <=> TakenForAnswer(Head(messages)))
  BY <1>3 DEF TakenForAnswer
<1>5. Given(call)' = Given(call)
  BY DEF Given
<1>6. Replied'
  BY <1>1, <1>4, <1>5 DEF Replied, Unheard, RequestId
<1>7. QED
  BY <1>2, <1>6

\* A request before or after the one at hand is another one.
LEMMA OtherCallLemma ==
  ASSUME call \in Calls
  PROVE  \A c \in Calls : c > call \/ c < call => c # call
BY ProcessorAssumption DEF Calls

\* A step that gives the client its one reply to the request at hand, and moves on.
LEMMA ReplyLemma ==
  ASSUME BridgeTypes, Replied, RepliesAreConsistent, UNCHANGED <<request, call>>,
         call \in Calls, Given(call) = {}, pc' = "read",
         NEW kind \in ByTheLoop, Reply(kind),
         kind = "unreachable" => ~Handshake,
         request[call].kind = OwnTool => kind \in {"own", "internal error"}
  PROVE  Replied' /\ RepliesAreConsistent'
<1>1. /\ Given(call)' = {kind} /\ Len(replies'[call]) = 1
      /\ \A c \in Calls : c # call => replies'[c] = replies[c]
  BY GivenLemma
<1>a. \A c \in Calls : c # call => Given(c)' = Given(c)
  <2> SUFFICES ASSUME NEW c \in Calls, c # call PROVE Given(c)' = Given(c)
    OBVIOUS
  <2>1. replies'[c] = replies[c]
    BY <1>1
  <2>2. QED
    BY <2>1, Zenon DEF Given
<1>b. \A c \in Calls : Mistaken(c)' <=> "request" \in Given(c)'
  BY DEF Mistaken
<1>2. \A c \in Calls : c # call => Given(c)' = Given(c) /\ (Mistaken(c)' <=> Mistaken(c))
  BY <1>a, <1>b DEF Mistaken
<1>3. \A c \in Calls : c = call => Given(c)' = {kind} /\ ~Mistaken(c)'
  <2>1. kind # "request"
    BY DEF ByTheLoop
  <2>2. QED
    BY <1>1, <1>b, <2>1
<1>4. RepliesAreConsistent'
  <2>1. SUFFICES ASSUME NEW c \in Calls
                 PROVE  /\ Given(c)' \cap ByTheLoop # {} => Len(replies'[c]) = 1
                        /\ request[c].kind \in {"initialize", "tool_list"}
                           => "unreachable" \notin Given(c)'
                        /\ request[c].kind = OwnTool
                           => Given(c)' \subseteq {"own", "internal error"}
    BY DEF RepliesAreConsistent
  <2>2. CASE c = call
    BY <1>1, <1>3, <2>2 DEF Handshake
  <2>3. CASE c # call
    BY <1>1, <1>2, <2>3 DEF RepliesAreConsistent
  <2>4. QED
    BY <2>2, <2>3
<1>5. \A c \in Calls : c > call \/ c < call => c # call
  BY OtherCallLemma
<1>6. Replied'
  <2>1. \A c \in Calls : Mistaken(c)' => request'[c].id \in ServerIds
    BY <1>2, <1>3 DEF Replied
  <2>2. QED
    BY <1>1, <1>2, <1>3, <1>5, <2>1 DEF Replied
<1>7. QED
  BY <1>4, <1>6

\* What the client is given as a message is written to it.
LEMMA WrittenLemma ==
  ASSUME BridgeTypes, call \in Calls, messages # <<>>, WriteToClient
  PROVE  /\ Given(call)' \subseteq Given(call) \cup FromUpstream
         /\ Given(call)' # {} <=> Given(call) # {} \/ TakenForAnswer(Head(messages))
         /\ Told(call)' <=> Told(call) \/ TakenForAnswer(Head(messages))
         /\ Mistaken(call)' => Mistaken(call) \/ RequestId \in ServerIds
         /\ \A c \in Calls : c # call => replies'[c] = replies[c]
<1> DEFINE m == Head(messages)
           kind == ReplyKind(m)
<1>1. UNCHANGED call /\ kind \in FromUpstream
  BY DEF WriteToClient, ReplyKind, FromUpstream
<1>2. m \in Message
  BY HeadTailProperties DEF BridgeTypes
<1>3. CASE TakenForAnswer(m)
  <2>1. Reply(kind)
    BY <1>3 DEF WriteToClient
  <2>2. /\ Given(call)' = Given(call) \cup {kind}
        /\ \A c \in Calls : c # call => replies'[c] = replies[c]
    BY <1>1, <2>1, GivenLemma
  <2>3. kind = "request" => RequestId \in ServerIds
    <3>1. SUFFICES ASSUME kind = "request" PROVE m.id \in ServerIds
      BY <1>3 DEF TakenForAnswer
    <3>2. m.shape = "request"
      BY <3>1 DEF ReplyKind
    <3>3. "request" \notin Shapes
      BY ProcessorAssumption DEF AllShapes
    <3>4. QED
      BY <1>2, <3>2, <3>3 DEF Message
  <2> HIDE DEF kind, m
  <2>4. QED
    BY <1>1, <1>3, <2>2, <2>3 DEF Told, Mistaken, m
<1>4. CASE ~TakenForAnswer(m)
  <2>1. UNCHANGED replies
    BY <1>4 DEF WriteToClient
  <2>2. Given(call)' = Given(call)
    BY <1>1, <2>1 DEF Given
  <2>3. QED
    BY <1>4, <2>1, <2>2 DEF Told, Mistaken
<1>5. QED
  BY <1>3, <1>4

\* A message that goes to the client.
LEMMA RelayedLemma ==
  ASSUME BridgeTypes, Replied, RepliesAreConsistent, UNCHANGED request, call \in Calls,
         messages # <<>>, pc = "emit", WriteToClient
  PROVE  Replied' /\ RepliesAreConsistent'
<1>1. pc' = "handle" /\ UNCHANGED <<request, call, responded>>
  BY DEF WriteToClient
<1>2. /\ Given(call) \subseteq FromUpstream
      /\ responded <=> Given(call) # {} \/ TakenForAnswer(Head(messages))
  BY DEF Replied
<1>3. /\ Given(call)' \subseteq FromUpstream
      /\ responded <=> Given(call)' # {}
      /\ Mistaken(call)' => Mistaken(call) \/ RequestId \in ServerIds
      /\ \A c \in Calls : c # call => replies'[c] = replies[c]
  BY <1>2, WrittenLemma
<1>4. \A c \in Calls : c # call => Given(c)' = Given(c) /\ (Mistaken(c)' <=> Mistaken(c))
  BY <1>3 DEF Given, Mistaken
<1>5. RepliesAreConsistent'
  <2>1. request[call].kind # OwnTool
    BY DEF Replied
  <2>2. SUFFICES ASSUME NEW c \in Calls
                 PROVE  /\ Given(c)' \cap ByTheLoop # {} => Len(replies'[c]) = 1
                        /\ request[c].kind \in {"initialize", "tool_list"}
                           => "unreachable" \notin Given(c)'
                        /\ request[c].kind = OwnTool
                           => Given(c)' \subseteq {"own", "internal error"}
    BY <1>1 DEF RepliesAreConsistent
  <2>3. CASE c = call
    <3>1. Given(c)' \subseteq FromUpstream
      BY <1>1, <1>3, <2>3 DEF Given
    <3>2. FromUpstream \cap ByTheLoop = {} /\ "unreachable" \notin FromUpstream
      BY DEF FromUpstream, ByTheLoop
    <3>3. QED
      BY <2>1, <2>3, <3>1, <3>2
  <2>4. CASE c # call
    BY <1>3, <1>4, <2>4 DEF RepliesAreConsistent
  <2>5. QED
    BY <2>3, <2>4
<1>6. \A c \in Calls : c > call \/ c < call => c # call
  BY OtherCallLemma
<1>7. \A c \in Calls : Mistaken(c)' => request'[c].id \in ServerIds
  <2>1. SUFFICES ASSUME NEW c \in Calls, Mistaken(c)' PROVE request[c].id \in ServerIds
    BY <1>1
  <2>2. CASE c = call
    <3>1. Mistaken(call)'
      BY <1>1, <2>1, <2>2 DEF Mistaken, Given
    <3>2. QED
      BY <1>3, <2>2, <3>1 DEF Replied, RequestId
  <2>3. CASE c # call
    BY <1>4, <2>1, <2>3 DEF Replied
  <2>4. QED
    BY <2>2, <2>3
<1>8. Replied'
  BY <1>1, <1>2, <1>3, <1>4, <1>6, <1>7 DEF Replied
<1>9. QED
  BY <1>5, <1>8

\* Every step keeps what the client was given consistent and complete.
LEMMA RepliedLemma ==
  ASSUME Core, Replied, RepliesAreConsistent, [Next]_vars
  PROVE  Replied' /\ RepliesAreConsistent'
<1>0. ProcessorInv /\ BridgeTypes /\ Control
  BY DEF Core
<1>1. pc \notin {"read", "exited"} => call \in Calls
  BY <1>0, CurrentCallLemma DEF Control
<1>2. ASSUME NEW id \in AnyId, NEW kind \in Kinds, ReadRequest(id, kind)
      PROVE  Replied' /\ RepliesAreConsistent'
  <2>1. /\ pc = "read" /\ pc' \in {"own", "start", "post"} /\ call < NCalls /\ call' = call + 1
        /\ request' = [request EXCEPT ![call + 1] = [id |-> id, kind |-> kind]]
        /\ UNCHANGED replies
    BY <1>2 DEF ReadRequest
  <2>2. call \in 0 .. NCalls /\ NCalls \in Nat
    BY <1>0, ProcessorAssumption DEF BridgeTypes
  <2>3. /\ call + 1 \in Calls /\ call + 1 > call
        /\ \A c \in Calls : /\ c > call + 1 => c > call
                            /\ c < call + 1 => c < call \/ c = call
                            /\ c < call + 1 => c # call + 1
    BY <2>1, <2>2 DEF Calls
  <2>4. \A c \in Calls : c # call + 1 => request'[c] = request[c]
    BY <1>0, <2>1, <2>3 DEF ProcessorInv, ProcessorTypeOK
  <2>5. Given(call + 1) = {} /\ (pc' # "own" => request'[call + 1].kind # OwnTool)
    <3>1. Given(call + 1) = {}
      BY <2>3 DEF Replied
    <3>2. request'[call + 1].kind = kind
      BY <1>0, <2>1, <2>3 DEF ProcessorInv, ProcessorTypeOK
    <3>3. pc' # "own" => kind # OwnTool
      BY <1>2 DEF ReadRequest, Observed, TrackedKinds, Listings, OwnTool
    <3>4. QED
      BY <3>1, <3>2, <3>3
  <2>6. /\ \A c : (Given(c)' = Given(c)) /\ (Mistaken(c)' <=> Mistaken(c))
        /\ Given(call)' = Given(call + 1)
    BY <2>1 DEF Given, Mistaken
  <2>7. RepliesAreConsistent'
    BY <2>1, <2>4, <2>5, <2>6 DEF RepliesAreConsistent
  <2>8. \A c \in Calls : Mistaken(c)' => request'[c].id \in ServerIds
    <3>1. ~Mistaken(call + 1)
      BY <2>5 DEF Mistaken
    <3>2. QED
      BY <2>4, <2>6, <3>1 DEF Replied
  <2>9. Replied'
    BY <2>1, <2>3, <2>4, <2>5, <2>6, <2>8 DEF Replied
  <2>10. QED
    BY <2>7, <2>9
<1>3. CASE RejectRequest \/ AnswerOwnTool
  <2>1. /\ pc \in {"own", "start"} /\ pc' = "read" /\ UNCHANGED <<request, call>>
        /\ Reply("internal error") \/ Reply("own")
    BY <1>3 DEF RejectRequest, AnswerOwnTool, processor
  <2>2. Given(call) = {} /\ {"internal error", "own"} \subseteq ByTheLoop
    BY <2>1 DEF Replied, ByTheLoop
  <2>3. QED
    BY <1>0, <1>1, <2>1, <2>2, ReplyLemma
<1>4. CASE Degrade \/ Fail
  <2>1. /\ Unanswered /\ pc \in {"handle", "unreachable"} /\ pc' = "read"
        /\ UNCHANGED <<request, call>>
        /\ Reply("degraded") \/ (Reply("unreachable") /\ ~Handshake)
    BY <1>4 DEF Degrade, Fail, Unanswered, NextLine, CloseUnanswered
  <2>2. /\ Given(call) = {} /\ request[call].kind # OwnTool
        /\ {"degraded", "unreachable"} \subseteq ByTheLoop
    BY <2>1 DEF Replied, Unanswered, ByTheLoop
  <2>3. QED
    BY <1>0, <1>1, <2>1, <2>2, ReplyLemma
<1>5. CASE CloseAnswered \/ CloseRaises \/ Relay
  <2>1. pc = "emit" /\ WriteToClient /\ UNCHANGED request /\ messages # <<>>
    BY <1>0, <1>5 DEF CloseAnswered, CloseRaises, Relay, EmitTerminal, TerminalRaises, processor,
                      Control
  <2>2. QED
    BY <1>0, <1>1, <2>1, RelayedLemma
<1>6. CASE EmitStart \/ StartFails \/ TrackBadId \/ Track
  <2>1. pc \in {"start", "track"} /\ pc' \in {"track", "post"}
        /\ UNCHANGED <<request, call, replies>>
    BY <1>6 DEF EmitStart, StartFails, TrackBadId, Track, StartEvent, TrackInvalid, TrackValid,
                processor
  <2>2. pc \in Unheard /\ pc' \in Unheard
    BY <2>1 DEF Unheard
  <2>3. QED
    BY <2>1, <2>2, SilentStepLemma
<1>7. CASE \/ \E body \in Bodies : BodyArrives(body)
           \/ StreamOpens
           \/ \E m \in Message : StreamMessage(m)
           \/ StreamComment \/ StreamSilent \/ StreamEnds \/ PostFails
  <2>1. /\ pc \in {"post", "stream"}
        /\ \/ pc' \in {"stream", "unreachable"}
           \/ pc' = "handle" /\ ~responded'
        /\ UNCHANGED <<request, call, replies>>
    BY <1>7 DEF BodyArrives, StreamOpens, StreamMessage, StreamComment, StreamSilent,
                StreamEnds, PostFails, processor
  <2>2. pc \in Unheard /\ (pc' \in Unheard \/ (pc' = "handle" /\ ~responded'))
    BY <2>1 DEF Unheard
  <2>3. QED
    BY <2>1, <2>2, SilentStepLemma
<1>8. CASE HandleMessage
  <2>1. /\ pc = "handle" /\ pc' = "emit" /\ UNCHANGED <<request, call, messages, replies>>
        /\ responded' <=> responded \/ TakenForAnswer(Head(messages))
    BY <1>8 DEF HandleMessage, Pop
  <2>2. QED
    BY <2>1, SilentStepLemma
<1>9. CASE Answered \/ DropNotification
  <2>1. /\ pc' = "read" /\ UNCHANGED <<request, call, replies>>
        /\ pc \in {"handle", "unreachable"}
        /\ (pc = "handle" /\ responded) \/ RequestId = NoId
    BY <1>9 DEF Answered, DropNotification, Unanswered, NextLine, processor
  <2>2. QED
    BY <2>1, SilentStepLemma
<1>10. CASE ClientGone
  <2>1. pc = "read" /\ pc' = "exited" /\ UNCHANGED <<request, call, replies>>
    BY <1>10 DEF ClientGone
  <2>2. QED
    BY <2>1, SilentStepLemma
<1>11. CASE Exited \/ UNCHANGED vars
  <2>1. UNCHANGED <<request, call, replies, pc, responded, messages>>
    BY <1>11 DEF Exited, vars, processor, transport
  <2>2. QED
    BY <2>1, SilentStepLemma
<1>12. QED
  BY <1>2, <1>3, <1>4, <1>5, <1>6, <1>7, <1>8, <1>9, <1>10, <1>11 DEF Next

-----------------------------------------------------------------------------
(* What the events say of it.                                              *)

\* A step that touches neither the events nor what the upstream's answers brought.
LEMMA SameAgreementLemma ==
  ASSUME Agreement, Kept, Started' = Started, UNCHANGED <<terminals, raised, call, popped, messages>>,
         \A c \in Started : request'[c] = request[c],
         RequestId' = RequestId,
         \A c \in Started : Told(c)' <=> Told(c),
         pc \in {"read", "exited"} => pc' \in {"read", "exited"},
         pc' = "emit" => pc = "emit"
  PROVE  Agreement'
<1>1. /\ \A c : Verdict(c)' <=> Verdict(c)
      /\ Closed' = Closed /\ (TakenForAnswer(Head(messages))' <=> TakenForAnswer(Head(messages)))
  BY DEF Verdict, Closed, TakenForAnswer
<1>2. call \in Closed => call \in Started
  BY DEF Kept, Partition
<1>3. QED
  BY <1>1, <1>2 DEF Agreement

\* One more terminal event is one more verdict, if it is the upstream's.
LEMMA VerdictLemma ==
  ASSUME ProcessorInv, NEW c \in Calls, NEW t \in TerminalEvents, ClosesWith({c}, t),
         UNCHANGED raised
  PROVE  /\ Verdict(c)' <=> Verdict(c) \/ t.cause \in {"end", "error"}
         /\ \A d \in Calls : d # c => (Verdict(d)' <=> Verdict(d))
<1>1. \A d \in Calls : terminals'[d] = IF d = c THEN Append(terminals[d], t) ELSE terminals[d]
  BY ClosesWithLemma
<1>2. terminals[c] \in Seq(TerminalEvents)
  BY DEF ProcessorInv, ProcessorTypeOK, TerminalEvents
<1> DEFINE s == terminals[c]
           n == Len(s)
<1>3. /\ n \in Nat /\ DOMAIN s = 1 .. n
      /\ DOMAIN Append(s, t) = 1 .. n + 1
      /\ \A i \in 1 .. n : Append(s, t)[i] = s[i]
      /\ Append(s, t)[n + 1] = t
  BY <1>2, AppendProperties, LenProperties
<1>4. (\E i \in DOMAIN Append(s, t) : Append(s, t)[i].cause \in {"end", "error"})
      <=> (\E i \in DOMAIN s : s[i].cause \in {"end", "error"}) \/ t.cause \in {"end", "error"}
  <2> HIDE DEF s, n
  <2>1. \A i \in 1 .. n + 1 : i \in 1 .. n \/ i = n + 1
    BY <1>3
  <2>2. n + 1 \in 1 .. n + 1 /\ \A i \in 1 .. n : i \in 1 .. n + 1
    BY <1>3
  <2>3. QED
    BY <1>3, <2>1, <2>2
<1>5. QED
  BY <1>1, <1>4 DEF Verdict

\* The call at hand is not among the closed before its start event.
LEMMA NotStartedLemma ==
  ASSUME Kept, call \notin Started
  PROVE  call \notin Closed /\ call \notin raised
BY DEF Kept, Partition

\* A pending call is the only entry of the table, under the id of the request.
LEMMA OneEntryLemma ==
  ASSUME ProcessorInv, Control, NEW id, CallAt(pending, id) # NoCall
  PROVE  CallAt(pending, id) = call /\ id = RequestId
<1>1. /\ pending \in Seq([id : Ids, call : Calls])
      /\ \A i, j \in DOMAIN pending : i < j => pending[i].call < pending[j].call
  BY DEF ProcessorInv, Table, Ordered
<1>2. HasId(pending, id) /\ CallAt(pending, id) \in CallsIn(pending)
  BY PendingCallLemma DEF CallAt
<1>3. CallsIn(pending) \subseteq {call} /\ HasId(pending, RequestId)
  BY <1>2 DEF Control
<1>4. PICK i \in DOMAIN pending : pending[i].id = id
  BY <1>2 DEF HasId
<1>5. PICK j \in DOMAIN pending : pending[j].id = RequestId
  BY <1>3 DEF HasId
<1>6. pending[i].call = call /\ pending[j].call = call
  BY <1>3 DEF CallsIn
<1>7. pending[i].call \in Nat /\ i \in Nat /\ j \in Nat
  <2>1. i \in 1 .. Len(pending) /\ j \in 1 .. Len(pending) /\ Len(pending) \in Nat
    BY <1>1, LenProperties
  <2>2. pending[i] \in [id : Ids, call : Calls]
    BY <1>1, <2>1, ElementOfSeq
  <2>3. pending[i].call \in Nat
    BY <2>2, CallsLemma
  <2>4. QED
    BY <2>1, <2>3
<1>8. i = j
  BY <1>1, <1>6, <1>7
<1>9. QED
  BY <1>2, <1>3, <1>4, <1>5, <1>8

\* The loop reads a request: none of the calls started is concerned.
LEMMA ReadAgreesLemma ==
  ASSUME Core, Agreement, NEW id \in AnyId, NEW kind \in Kinds, ReadRequest(id, kind)
  PROVE  Agreement'
<1>0. ProcessorInv /\ BridgeTypes /\ Control /\ Kept
  BY DEF Core
<1>1. /\ pc' # "emit" /\ call < NCalls /\ call' = call + 1
      /\ request' = [request EXCEPT ![call + 1] = [id |-> id, kind |-> kind]]
      /\ UNCHANGED <<starts, terminals, raised, replies>>
  BY DEF ReadRequest, events
<1>2. call + 1 \notin Started
  <2>1. call \in 0 .. NCalls /\ NCalls \in Nat
    BY <1>0, ProcessorAssumption DEF BridgeTypes
  <2>2. call + 1 \in Calls => starts[call + 1] = "none"
    BY <1>0, <2>1 DEF Control, Calls
  <2>3. QED
    BY <2>2 DEF Started
<1>3. /\ Started' = Started /\ Closed' = Closed
      /\ \A c : (Told(c)' <=> Told(c)) /\ (Verdict(c)' <=> Verdict(c))
  BY <1>1 DEF Started, Closed, Told, Given, Verdict
<1>4. call + 1 \notin Closed
  BY <1>0, <1>2 DEF Kept, Partition
<1>5. \A c \in Started : request'[c] = request[c]
  BY <1>0, <1>1, <1>2 DEF Started, ProcessorInv, ProcessorTypeOK
<1>6. QED
  BY <1>1, <1>3, <1>4, <1>5 DEF Agreement

\* The start of a call: neither side has anything to say of it yet.
LEMMA StartAgreesLemma ==
  ASSUME Core, Replied, Agreement, EmitStart
  PROVE  Agreement'
<1>0. ProcessorInv /\ BridgeTypes /\ Control /\ Kept
  BY DEF Core
<1>1. /\ pc = "start" /\ pc' = "track" /\ StartEvent(call)
      /\ UNCHANGED <<request, terminals, raised, replies, call>>
  BY DEF EmitStart, StartEvent, transport
<1>2. call \in Calls /\ call \notin Started /\ Given(call) = {}
  BY <1>0, <1>1, CurrentCallLemma DEF Control, Started, Replied
<1>3. Started' = Started \cup {call}
  BY <1>0, <1>1, <1>2, StartEventLemma
<1>4. call \notin Closed /\ call \notin raised
  BY <1>0, <1>2, NotStartedLemma
<1>5. terminals[call] = <<>>
  BY <1>2, <1>4 DEF Closed
<1>6. ~Told(call) /\ ~Verdict(call)
  BY <1>2, <1>4, <1>5 DEF Told, Verdict
<1>7. Closed' = Closed /\ \A c : (Told(c)' <=> Told(c)) /\ (Verdict(c)' <=> Verdict(c))
  BY <1>1 DEF Closed, Told, Given, Verdict
<1>8. QED
  BY <1>1, <1>3, <1>4, <1>6, <1>7 DEF Agreement

\* The call at hand is closed by somebody other than the upstream, and the loop is
\* done with it or could not have been answered anyway.
LEMMA ClosedAgreesLemma ==
  ASSUME Core, Agreement, NEW t \in TerminalEvents, t.cause \notin {"end", "error"},
         ClosesWith({call}, t), call \in Calls,
         UNCHANGED <<request, starts, raised, call>>,
         \A c \in Calls : Told(c)' <=> Told(c),
         pc' = "read" \/ (~IsRequestId(RequestId) /\ pc' # "emit")
  PROVE  Agreement'
<1>0. ProcessorInv /\ Kept
  BY DEF Core
<1>1. \A c \in Calls : Verdict(c)' <=> Verdict(c)
  BY <1>0, VerdictLemma
<1>2. Started' = Started /\ Started \subseteq Calls /\ RequestId' = RequestId
  BY DEF Started, RequestId
<1>3. QED
  BY <1>1, <1>2 DEF Agreement

\* The look-up of a message: an answer that finds nothing is the second one.
LEMMA HandleAgreesLemma ==
  ASSUME Core, Agreement, HandleMessage
  PROVE  Agreement'
<1> DEFINE m == Head(messages)
           found == CallAt(pending, m.id)
<1>0. ProcessorInv /\ BridgeTypes /\ Control /\ Kept
  BY DEF Core
<1>1. /\ pc = "handle" /\ pc' = "emit" /\ popped'.call = found
      /\ UNCHANGED <<request, starts, terminals, raised, call, messages, replies>>
  BY DEF HandleMessage, Pop, events
<1>2. /\ Started' = Started /\ Closed' = Closed /\ RequestId' = RequestId
      /\ \A c : (Told(c)' <=> Told(c)) /\ (Verdict(c)' <=> Verdict(c))
      /\ TakenForAnswer(Head(messages))' <=> TakenForAnswer(Head(messages))
  BY <1>1 DEF Started, Closed, RequestId, Told, Given, Verdict, TakenForAnswer
<1>3. found # NoCall => found = call /\ TakenForAnswer(m)
  BY <1>0, OneEntryLemma DEF TakenForAnswer
<1>4. ASSUME found = NoCall, TakenForAnswer(m), call \in Started, IsRequestId(RequestId)
      PROVE  Told(call)
  <2>1. CallsIn(pending) = {}
    <3>1. CallsIn(pending) # {} => CallsIn(pending) = {call} /\ CallAt(pending, RequestId) = call
      BY <1>0, PendingCallLemma
    <3>2. call # NoCall
      BY <1>0, <1>1 DEF Control
    <3>3. QED
      BY <1>4, <3>1, <3>2 DEF TakenForAnswer
  <2>2. InTrack = {} /\ Popped = {}
    BY <1>0, <1>1 DEF InTrack, Popped, Control
  <2>3. call \in raised \cup Closed
    BY <1>0, <1>4, <2>1, <2>2 DEF Kept, Partition
  <2>4. Verdict(call)
    BY <1>1, <1>4, <2>3 DEF Agreement, Verdict
  <2>5. QED
    BY <1>4, <2>4 DEF Agreement, RequestId
<1> HIDE DEF found, m
<1>5. QED
  BY <1>1, <1>2, <1>3, <1>4 DEF Agreement, m

\* A message is written, and its event, if it has one, has been emitted.
LEMMA WriteAgreesLemma ==
  ASSUME Core, Agreement, CloseAnswered \/ CloseRaises \/ Relay
  PROVE  Agreement'
<1>0. ProcessorInv /\ BridgeTypes /\ Control /\ Kept
  BY DEF Core
<1>1. /\ pc = "emit" /\ pc' = "handle" /\ WriteToClient
      /\ UNCHANGED <<request, starts, call>>
  BY DEF CloseAnswered, CloseRaises, Relay, WriteToClient, EmitTerminal, TerminalRaises, processor
<1>2. call \in Calls /\ Started' = Started /\ Started \subseteq Calls /\ RequestId' = RequestId
  BY <1>0, <1>1, CurrentCallLemma DEF Control, Started, RequestId
<1>3. /\ Told(call)' <=> Told(call) \/ TakenForAnswer(Head(messages))
      /\ \A c \in Calls : c # call => (Told(c)' <=> Told(c))
  <2>1. messages # <<>>
    BY <1>0, <1>1 DEF Control
  <2>2. \A c \in Calls : c # call => replies'[c] = replies[c]
    BY <1>0, <1>1, <1>2, <2>1, WrittenLemma
  <2>3. \A c \in Calls : c # call => (Told(c)' <=> Told(c))
    BY <2>2 DEF Told, Given
  <2>4. QED
    BY <1>0, <1>1, <1>2, <2>1, <2>3, WrittenLemma
<1>4. CASE CloseAnswered \/ CloseRaises
  <2>1. /\ popped.call = call /\ TakenForAnswer(Head(messages))
    BY <1>1, <1>4 DEF CloseAnswered, CloseRaises, Agreement
  <2>2. Verdict(call)' /\ \A c \in Calls : c # call => (Verdict(c)' <=> Verdict(c))
    <3>1. CASE CloseAnswered
      <4>1. /\ CloseCall(call, popped.cause, call) /\ UNCHANGED raised
            /\ popped.cause \in {"end", "error"} /\ popped.cause \in Causes
        BY <1>0, <1>2, <2>1, <3>1, PoppedLemma DEF CloseAnswered, EmitTerminal, Causes
      <4>2. /\ ClosesWith({call}, Terminal(popped.cause, call))
            /\ Terminal(popped.cause, call) \in TerminalEvents
            /\ Terminal(popped.cause, call).cause = popped.cause
        BY <1>0, <1>2, <4>1, CloseCallLemma, TerminalLemma DEF Terminal
      <4>3. QED
        BY <1>0, <1>1, <1>2, <4>1, <4>2, VerdictLemma
    <3>2. CASE CloseRaises
      BY <1>1, <1>2, <2>1, <3>2 DEF CloseRaises, TerminalRaises, Verdict
    <3>3. QED
      BY <1>4, <3>1, <3>2
  <2>3. QED
    BY <1>1, <1>2, <1>3, <2>1, <2>2 DEF Agreement
<1>5. CASE Relay
  <2>1. popped.call = NoCall /\ UNCHANGED <<terminals, raised>>
    BY <1>5 DEF Relay, processor
  <2>2. Closed' = Closed /\ \A c : Verdict(c)' <=> Verdict(c)
    BY <2>1 DEF Closed, Verdict
  <2>3. call \in Started /\ IsRequestId(RequestId) => (Told(call)' <=> Told(call))
    BY <1>1, <1>3, <2>1 DEF Agreement
  <2>4. request' = request
    BY <1>1
  <2>5. \A c \in Started : IsRequestId(request[c].id) => (Told(c)' <=> Verdict(c)')
    <3>1. TAKE c \in Started
    <3>2. CASE c = call
      BY <1>1, <2>2, <2>3, <3>2 DEF Agreement, RequestId
    <3>3. CASE c # call
      BY <1>2, <1>3, <2>2, <3>3 DEF Agreement
    <3>4. QED
      BY <3>2, <3>3
  <2>6. QED
    BY <1>1, <1>2, <2>2, <2>5 DEF Agreement
<1>6. QED
  BY <1>4, <1>5

\* A reply of the loop's own is not the upstream's answer.
LEMMA OwnReplyLemma ==
  ASSUME BridgeTypes, call \in Calls, UNCHANGED call, NEW kind \in ByTheLoop, Reply(kind)
  PROVE  \A c \in Calls : Told(c)' <=> Told(c)
<1>1. /\ Given(call)' = Given(call) \cup {kind}
      /\ \A c \in Calls : c # call => replies'[c] = replies[c]
  BY GivenLemma
<1>2. kind \notin FromUpstream
  BY DEF ByTheLoop, FromUpstream
<1>3. Told(call)' <=> Told(call)
  BY <1>1, <1>2 DEF Told
<1>4. \A c \in Calls : c # call => (Told(c)' <=> Told(c))
  BY <1>1 DEF Told, Given
<1>5. QED
  BY <1>3, <1>4

\* synthesize_pending_error, and the reply that goes with it.
LEMMA UnansweredAgreesLemma ==
  ASSUME Core, Agreement, Degrade \/ Fail
  PROVE  Agreement'
<1>0. ProcessorInv /\ BridgeTypes /\ Control /\ Kept
  BY DEF Core
<1>1. /\ pc \in {"handle", "unreachable"} /\ pc' = "read" /\ CloseUnanswered
      /\ UNCHANGED <<request, starts, raised, call, messages, popped>>
      /\ Reply("degraded") \/ Reply("unreachable")
  BY DEF Degrade, Fail, Unanswered, NextLine, CloseUnanswered, transport
<1>2. call \in Calls
  BY <1>0, <1>1, CurrentCallLemma DEF Control
<1>3. \A c \in Calls : Told(c)' <=> Told(c)
  BY <1>0, <1>1, <1>2, OwnReplyLemma DEF ByTheLoop
<1>4. CASE CallAt(pending, RequestId) = NoCall
  <2>1. UNCHANGED terminals /\ Started' = Started /\ Started \subseteq Calls
    BY <1>1, <1>4 DEF CloseUnanswered, Started
  <2>2. RequestId' = RequestId
    BY <1>1 DEF RequestId
  <2>3. QED
    BY <1>0, <1>1, <1>3, <2>1, <2>2, SameAgreementLemma
<1>5. CASE CallAt(pending, RequestId) # NoCall
  <2>1. CallAt(pending, RequestId) = call
    BY <1>0, <1>5, OneEntryLemma
  <2>2. CloseCall(call, "closed", NoCall) /\ "closed" \in Causes
    BY <1>1, <1>5, <2>1 DEF CloseUnanswered, Causes
  <2>3. /\ ClosesWith({call}, Terminal("closed", NoCall))
        /\ Terminal("closed", NoCall) \in TerminalEvents
        /\ Terminal("closed", NoCall).cause = "closed"
    BY <1>0, <1>2, <2>2, CloseCallLemma, TerminalLemma DEF Terminal
  <2>4. QED
    BY <1>1, <1>2, <1>3, <2>3, ClosedAgreesLemma
<1>6. QED
  BY <1>4, <1>5

\* Every step keeps the events and the replies in agreement.
LEMMA AgreementLemma ==
  ASSUME Core, Replied, Agreement, [Next]_vars
  PROVE  Agreement'
<1>0. ProcessorInv /\ BridgeTypes /\ Control /\ Kept
  BY DEF Core
<1>1. ASSUME NEW id \in AnyId, NEW kind \in Kinds, ReadRequest(id, kind)
      PROVE  Agreement'
  BY <1>1, ReadAgreesLemma
<1>2. CASE EmitStart
  BY <1>2, StartAgreesLemma
<1>3. CASE TrackBadId
  <2>1. /\ pc = "track" /\ pc' = "post" /\ CloseCall(call, "invalid", NoCall)
        /\ UNCHANGED <<request, starts, raised, call, replies>> /\ ~IsRequestId(RequestId)
    BY <1>3 DEF TrackBadId, TrackInvalid, RequestId
  <2>2. call \in Calls /\ "invalid" \in Causes
    BY <1>0, <2>1, CurrentCallLemma DEF Control, Causes
  <2>3. /\ ClosesWith({call}, Terminal("invalid", NoCall))
        /\ Terminal("invalid", NoCall) \in TerminalEvents
        /\ Terminal("invalid", NoCall).cause = "invalid"
    BY <1>0, <2>1, <2>2, CloseCallLemma, TerminalLemma DEF Terminal
  <2>4. \A c \in Calls : Told(c)' <=> Told(c)
    BY <2>1 DEF Told, Given
  <2>5. QED
    BY <2>1, <2>2, <2>3, <2>4, ClosedAgreesLemma
<1>4. CASE HandleMessage
  BY <1>4, HandleAgreesLemma
<1>5. CASE CloseAnswered \/ CloseRaises \/ Relay
  BY <1>5, WriteAgreesLemma
<1>6. CASE Degrade \/ Fail
  BY <1>6, UnansweredAgreesLemma
<1>7. CASE RejectRequest \/ AnswerOwnTool
  <2>1. /\ pc' = "read" /\ pc # "read" /\ pc # "exited"
        /\ UNCHANGED <<request, starts, terminals, raised, call, messages, popped>>
        /\ Reply("internal error") \/ Reply("own")
    BY <1>7 DEF RejectRequest, AnswerOwnTool, processor, transport
  <2>2. call \in Calls /\ Started \subseteq Calls /\ Started' = Started /\ RequestId' = RequestId
    BY <1>0, <2>1, CurrentCallLemma DEF Control, Started, RequestId
  <2>3. \A c \in Calls : Told(c)' <=> Told(c)
    BY <1>0, <2>1, <2>2, OwnReplyLemma DEF ByTheLoop
  <2>4. QED
    BY <1>0, <2>1, <2>2, <2>3, SameAgreementLemma
<1>8. CASE StartFails \/ Track \/ Answered \/ DropNotification \/ ClientGone \/ Exited \/ UNCHANGED vars
  <2>1. UNCHANGED terminals
    <3>1. CASE Track
      BY <3>1, TrackLemma
    <3>2. CASE ClientGone
      BY <3>2, ClientGoneKeepsLemma
    <3>3. QED
      BY <1>8, <3>1, <3>2
      DEF StartFails, Answered, DropNotification, Exited, vars, processor
  <2>2. /\ UNCHANGED <<request, starts, raised, call, messages, popped, replies>>
        /\ pc \in {"read", "exited"} => pc' \in {"read", "exited"}
        /\ pc' = "emit" => pc = "emit"
    BY <1>8 DEF StartFails, Track, TrackValid, Answered, DropNotification, NextLine, ClientGone,
                Exited, vars, processor, transport
  <2>3. /\ Started' = Started /\ RequestId' = RequestId
        /\ \A c : Told(c)' <=> Told(c)
    BY <2>2 DEF Started, RequestId, Told, Given
  <2>4. QED
    BY <1>0, <2>1, <2>2, <2>3, SameAgreementLemma
<1>9. CASE \/ \E body \in Bodies : BodyArrives(body)
           \/ StreamOpens
           \/ \E m \in Message : StreamMessage(m)
           \/ StreamComment \/ StreamSilent \/ StreamEnds \/ PostFails
  <2>1. /\ pc \in {"post", "stream"} /\ pc' \notin {"read", "exited", "emit"}
        /\ UNCHANGED processor /\ UNCHANGED <<call, popped, replies>>
    BY <1>9 DEF BodyArrives, StreamOpens, StreamMessage, StreamComment, StreamSilent,
                StreamEnds, PostFails
  <2>2. /\ Started' = Started /\ Closed' = Closed /\ RequestId' = RequestId
        /\ UNCHANGED <<request, terminals, raised>>
        /\ \A c : (Told(c)' <=> Told(c)) /\ (Verdict(c)' <=> Verdict(c))
    BY <2>1 DEF Started, Closed, RequestId, Told, Given, Verdict, processor
  <2>3. QED
    BY <2>1, <2>2 DEF Agreement
<1>10. QED
  BY <1>1, <1>2, <1>3, <1>4, <1>5, <1>6, <1>7, <1>8, <1>9 DEF Next

-----------------------------------------------------------------------------
(* The theorems.                                                           *)

\* The invariant is inductive.
THEOREM Invariance == Spec => []IInv
<1>1. Init => IInv
  BY InitLemma
<1>2. IInv /\ [Next]_vars => IInv'
  <2> SUFFICES ASSUME IInv, [Next]_vars PROVE IInv'
    OBVIOUS
  <2>1. /\ Core /\ ProcessorInv /\ OneTerminalPerCall
        /\ Replied /\ RepliesAreConsistent /\ Agreement
    BY DEF IInv, Core
  <2>2. Core' /\ Effect
    BY <2>1, StepLemma
  <2>3. OneTerminalPerCall'
    <3>1. Closed' \subseteq Started'
      BY <2>2 DEF Core, Kept, Partition
    <3>2. QED
      BY <2>1, <2>2, <3>1, OneTerminalLemma
  <2>4. Replied' /\ RepliesAreConsistent'
    BY <2>1, RepliedLemma
  <2>5. Agreement'
    BY <2>1, AgreementLemma
  <2>6. QED
    BY <2>2, <2>3, <2>4, <2>5 DEF IInv
<1>3. QED
  BY <1>1, <1>2, PTL DEF Spec

\* Every variable has its type.
THEOREM TypeCorrect == Spec => []TypeOK
<1>1. IInv => TypeOK
  BY DEF IInv, Core, ProcessorInv, BridgeTypes, TypeOK
<1>2. QED
  BY <1>1, Invariance, PTL

\* The loop comes back to stdin, and leaves it, with an empty table and with no
\* start that has neither end nor error, whatever the upstream did.
THEOREM LoopIsClean == Spec => []LoopClosesEveryCall
<1>1. IInv => LoopClosesEveryCall
  <2> SUFFICES ASSUME IInv, pc \in {"read", "exited"}
               PROVE  pending = <<>> /\ Started \subseteq Closed \cup raised
    BY DEF LoopClosesEveryCall
  <2>1. ProcessorInv /\ Control /\ Kept
    BY DEF IInv, Core
  <2>2. CallsIn(pending) = {} /\ InTrack = {} /\ Popped = {}
    BY <2>1 DEF Control, InTrack, Popped
  <2>3. pending = <<>>
    <3>1. pending \in Seq([id : Ids, call : Calls])
      BY <2>1 DEF ProcessorInv, ProcessorTypeOK
    <3>2. DOMAIN pending = {}
      BY <2>2 DEF CallsIn
    <3>3. QED
      BY <3>1, <3>2
  <2>4. Started \subseteq Closed \cup raised
    BY <2>1, <2>2 DEF Kept, Partition
  <2>5. QED
    BY <2>3, <2>4
<1>2. QED
  BY <1>1, Invariance, PTL

\* Fail-open: when the next line is read, no request with an id is without an answer,
\* unless a request of the upstream's own under that id was taken for it.
THEOREM RequestsAreAnswered == Spec => []EveryRequestIsAnswered
<1>1. IInv => EveryRequestIsAnswered
  <2> SUFFICES ASSUME IInv, NEW c \in 1 .. call, request[c].id # NoId,
                      pc \in {"read", "exited"}
               PROVE  IsAnswered(c) \/ (Mistaken(c) /\ request[c].id \in ServerIds)
    BY DEF EveryRequestIsAnswered
  <2>1. BridgeTypes /\ Replied
    BY DEF IInv, Core
  <2>2. call \in 0 .. NCalls /\ NCalls \in Nat
    BY <2>1, ProcessorAssumption DEF BridgeTypes
  <2>3. c \in Calls /\ (c < call \/ c = call)
    BY <2>2 DEF Calls
  <2>4. Given(c) # {}
    BY <2>1, <2>3 DEF Replied
  <2>5. IsAnswered(c) \/ Mistaken(c)
    BY <2>4 DEF IsAnswered, Mistaken
  <2>6. QED
    BY <2>1, <2>3, <2>5 DEF Replied
<1>2. QED
  BY <1>1, Invariance, PTL

\* With an upstream whose own requests use none of the client's ids, every request
\* with an id is answered by the time the next line is read.
THEOREM NoCollisionNoSilence ==
  ServerIds = {} =>
    (Spec => [](pc \in {"read", "exited"} =>
                  \A c \in 1 .. call : request[c].id # NoId => IsAnswered(c)))
<1> SUFFICES ASSUME ServerIds = {}
             PROVE  Spec => [](pc \in {"read", "exited"} =>
                               \A c \in 1 .. call : request[c].id # NoId => IsAnswered(c))
  OBVIOUS
<1>1. EveryRequestIsAnswered =>
        (pc \in {"read", "exited"} =>
           \A c \in 1 .. call : request[c].id # NoId => IsAnswered(c))
  BY DEF EveryRequestIsAnswered
<1>2. QED
  BY <1>1, RequestsAreAnswered, PTL

\* The loop answers a request at most once, and never one that a message of the
\* upstream has answered; no handshake request fails.
THEOREM RepliesAgree == Spec => []RepliesAreConsistent
<1>1. IInv => RepliesAreConsistent
  BY DEF IInv
<1>2. QED
  BY <1>1, Invariance, PTL

\* The events of a call end with the upstream's verdict exactly if the client was given
\* a message of the upstream under its id, be it the answer or one mistaken for it.
THEOREM EventsAgree == Spec => []EventsAgreeWithReplies
<1>1. IInv => EventsAgreeWithReplies
  BY DEF IInv, Agreement, Told, Verdict, EventsAgreeWithReplies
<1>2. QED
  BY <1>1, Invariance, PTL

\* The events of the bridge are events the ledger of calls allows, as those of a
\* stdio session are.
THEOREM BridgeImplementsLedger == Spec => ImplementsLedger
<1>1. Init => Ledger!Init
  BY LedgerInitLemma DEF Init
<1>2. IInv /\ [Next]_vars => [Ledger!Next]_LedgerState
  <2> SUFFICES ASSUME IInv, [Next]_vars PROVE [Ledger!Next]_LedgerState
    OBVIOUS
  <2>1. Core /\ ProcessorInv /\ OneTerminalPerCall
    BY DEF IInv, Core
  <2>2. Effect
    BY <2>1, StepLemma
  <2>3. QED
    BY <2>1, <2>2, LedgerStepLemma
<1>3. QED
  BY <1>1, <1>2, Invariance, PTL
  DEF Spec, ImplementsLedger, Ledger!Spec, LedgerState, LedgerOf
=============================================================================
