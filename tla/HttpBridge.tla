----------------------------- MODULE HttpBridge -----------------------------
(***************************************************************************)
(* The bridge to an HTTP upstream (run_http_proxy): one thread reads a     *)
(* request, gives it to the MessageProcessor, POSTs it, and writes what    *)
(* comes back.  A POST is answered by a body that is there at once, by an  *)
(* event stream that is read to its end, or by an exception; whatever      *)
(* comes, the loop closes the call and answers the client before it reads  *)
(* the next line.                                                          *)
(***************************************************************************)
EXTENDS MessageProcessor

CONSTANTS
  MaxMessages,     \* how many messages one POST brings back at most
  ServerIds,       \* the client's ids the upstream uses for requests of its own
  KeepsAlive       \* does the upstream send comments on a stream it keeps open?

ASSUME BridgeAssumption ==
  /\ MaxMessages \in Nat
  /\ ServerIds \subseteq Ids
  /\ KeepsAlive \in BOOLEAN

VARIABLES
  pc,          \* where the loop is
  call,        \* the request it works on
  messages,    \* what the POST brought and the loop has yet to handle
  responded,   \* did one of them have the id of the request?
  popped,      \* the call the current message popped, and what closes it
  silent,      \* nothing arrived on the stream since the socket timeout began
  replies      \* per call: what the client was given under its id, in order

transport == <<messages, responded, popped, silent>>
vars == <<processor, pc, call, transport, replies>>

NothingPopped == [call |-> NoCall, cause |-> "end"]

Init ==
  /\ ProcessorInit
  /\ pc = "read"
  /\ call = NoCall
  /\ messages = <<>>
  /\ responded = FALSE
  /\ popped = NothingPopped
  /\ silent = FALSE
  /\ replies = [c \in Calls |-> <<>>]

\* A reply the loop makes up, or a message of the upstream under the id of the
\* request: its answer, or a request of the upstream's own.
ByTheLoop == {"degraded", "unreachable", "internal error", "own"}
FromUpstream == {"upstream", "request"}

Reply(kind) == replies' = [replies EXCEPT ![call] = Append(@, kind)]

-----------------------------------------------------------------------------
(* The client's request: handle_client_message.                            *)

ReadRequest(id, kind) ==
  /\ pc = "read" /\ call < NCalls
  /\ call' = call + 1
  /\ request' = [request EXCEPT ![call + 1] = [id |-> id, kind |-> kind]]
  /\ pc' = CASE Observed(kind)   -> "start"
            [] kind = OwnTool   -> "own"
            [] OTHER            -> "post"
  /\ UNCHANGED <<events, pending, emitterOn, transport, replies>>

\* params, or the arguments of the proxy's own tool, are not an object: the
\* handler raises and the loop answers -32603.
RejectRequest ==
  /\ pc = "own" \/ (pc = "start" /\ request[call].kind # "tool_list")
  /\ Reply("internal error")
  /\ pc' = "read"
  /\ UNCHANGED <<processor, call, transport>>

\* The proxy's own tool: a report is recorded or refused, and either way nothing
\* is tracked or sent to the upstream.
AnswerOwnTool ==
  /\ pc = "own"
  /\ Reply("own")
  /\ pc' = "read"
  /\ UNCHANGED <<processor, call, transport>>

EmitStart ==
  /\ pc = "start"
  /\ StartEvent(call)
  /\ pc' = "track"
  /\ UNCHANGED <<call, transport, replies>>

\* Mutant: a call is tracked although its start event failed.
TrackWithoutStart ==
  /\ pc = "start"
  /\ pc' = "track"
  /\ UNCHANGED <<processor, call, transport, replies>>

StartFails ==
  /\ pc = "start"
  /\ pc' = "post"
  /\ UNCHANGED <<processor, call, transport, replies>>

TrackBadId ==
  /\ pc = "track"
  /\ TrackInvalid(call)
  /\ pc' = "post"
  /\ UNCHANGED <<call, transport, replies>>

\* The loop leaves the table empty (LoopClosesEveryCall), so that no id displaces
\* a call: if one did, the loop would have no step to take here.
Track ==
  /\ pc = "track" /\ DisplacedBy(call) = NoCall
  /\ TrackValid(call)
  /\ pc' = "post"
  /\ UNCHANGED <<call, transport, replies>>

-----------------------------------------------------------------------------
(* The POST: StreamableHttpClient.post, _parse_json_body and _parse_sse.   *)

RequestId == request[call].id

\* A message of the upstream: a response in some shape, to this request, to another
\* or to none, or a request of its own (ping, roots/list, sampling).
Message == [id : AnyId, shape : Shapes] \cup [id : ServerIds, shape : {"request"}]

\* The loop looks at the id alone, whatever the message is.
TakenForAnswer(m) == m.id = RequestId

ReplyKind(m) == IF m.shape = "request" THEN "request" ELSE "upstream"

\* A 202, an empty body or one that cannot be parsed brings nothing; a body is
\* one message, or an array of them.
BodyArrives(body) ==
  /\ pc = "post"
  /\ messages' = body
  /\ responded' = FALSE
  /\ pc' = "handle"
  /\ UNCHANGED <<processor, call, popped, silent, replies>>

StreamOpens ==
  /\ pc = "post"
  /\ messages' = <<>>
  /\ silent' = FALSE
  /\ pc' = "stream"
  /\ UNCHANGED <<processor, call, responded, popped, replies>>

\* The messages of a stream wait until it ends.
StreamMessage(m) ==
  /\ pc = "stream" /\ Len(messages) < MaxMessages
  /\ messages' = Append(messages, m)
  /\ silent' = FALSE
  /\ UNCHANGED <<processor, pc, call, responded, popped, replies>>

\* A comment line: nothing but a sign of life.
StreamComment ==
  /\ pc = "stream" /\ KeepsAlive /\ silent
  /\ silent' = FALSE
  /\ UNCHANGED <<processor, pc, call, messages, responded, popped, replies>>

\* The socket timeout runs, from the last byte that arrived.
StreamSilent ==
  /\ pc = "stream" /\ ~silent
  /\ silent' = TRUE
  /\ UNCHANGED <<processor, pc, call, messages, responded, popped, replies>>

StreamEnds ==
  /\ pc = "stream"
  /\ responded' = FALSE
  /\ pc' = "handle"
  /\ UNCHANGED <<processor, call, messages, popped, silent, replies>>

\* Mutant: the socket timeout does not apply to a stream.
PostFailsUnlessStream ==
  /\ pc = "post"
  /\ messages' = <<>>
  /\ pc' = "unreachable"
  /\ UNCHANGED <<processor, call, responded, popped, silent, replies>>

\* The connection fails, a status that is not 2xx, or the timeout of a read: the
\* exception leaves post(), and what the stream had brought goes with it.
PostFails ==
  /\ pc = "post" \/ (pc = "stream" /\ silent)
  /\ messages' = <<>>
  /\ pc' = "unreachable"
  /\ UNCHANGED <<processor, call, responded, popped, silent, replies>>

-----------------------------------------------------------------------------
(* The responses: handle_server_message, one message at a time.            *)

\* Mutant: the last message decides whether the request was answered.
HandleLast ==
  /\ pc = "handle" /\ messages # <<>>
  /\ LET m     == Head(messages)
         found == CallAt(pending, m.id)
     IN  /\ Pop(m.id)
         /\ popped' = [call |-> found, cause |-> CauseFor(found, m.shape)]
         /\ responded' = TakenForAnswer(m)
         /\ pc' = "emit"
  /\ UNCHANGED <<call, messages, silent, replies>>

HandleMessage ==
  /\ pc = "handle" /\ messages # <<>>
  /\ LET m     == Head(messages)
         found == CallAt(pending, m.id)
     IN  /\ Pop(m.id)
         /\ popped' = [call |-> found, cause |-> CauseFor(found, m.shape)]
         /\ responded' = (responded \/ TakenForAnswer(m))
         /\ pc' = "emit"
  /\ UNCHANGED <<call, messages, silent, replies>>

\* The message goes to the client; it may be the answer.
WriteToClient ==
  /\ IF TakenForAnswer(Head(messages)) THEN Reply(ReplyKind(Head(messages)))
     ELSE UNCHANGED replies
  /\ messages' = Tail(messages)
  /\ popped' = NothingPopped
  /\ pc' = "handle"
  /\ UNCHANGED <<call, responded, silent>>

CloseAnswered ==
  /\ pc = "emit" /\ popped.call # NoCall
  /\ EmitTerminal(popped.call, popped.cause, call)
  /\ WriteToClient

CloseRaises ==
  /\ pc = "emit" /\ popped.call # NoCall
  /\ TerminalRaises(popped.call, popped.cause)
  /\ WriteToClient

Relay ==
  /\ pc = "emit" /\ popped.call = NoCall
  /\ WriteToClient
  /\ UNCHANGED processor

-----------------------------------------------------------------------------
(* Nothing answered the request: the loop does.                            *)

Handshake == request[call].kind \in {"initialize", "tool_list"}

\* Mutant: the event of the call reports success.
CloseAsEnd ==
  LET found == CallAt(pending, RequestId)
  IN  /\ pending' = Without(pending, RequestId)
      /\ IF found = NoCall THEN UNCHANGED terminals ELSE CloseCall(found, "end", NoCall)
      /\ UNCHANGED <<request, starts, raised, emitterOn>>

\* synthesize_pending_error: close the call, if the id still holds one.
CloseUnanswered ==
  LET found == CallAt(pending, RequestId)
  IN  /\ pending' = Without(pending, RequestId)
      /\ IF found = NoCall THEN UNCHANGED terminals ELSE CloseCall(found, "closed", NoCall)
      /\ UNCHANGED <<request, starts, raised, emitterOn>>

NextLine == pc' = "read" /\ UNCHANGED <<call, transport>>

\* Mutant: a POST that went through is taken for an answer.
AnsweredByStatus ==
  /\ pc = "handle" /\ messages = <<>>
  /\ NextLine
  /\ UNCHANGED <<processor, replies>>

Answered ==
  /\ pc = "handle" /\ messages = <<>> /\ (responded \/ RequestId = NoId)
  /\ NextLine
  /\ UNCHANGED <<processor, replies>>

Unanswered ==
  \/ pc = "unreachable"
  \/ pc = "handle" /\ messages = <<>> /\ ~responded /\ RequestId # NoId

\* _degrade: a handshake request gets a healthy result, with or without an id.
Degrade ==
  /\ Unanswered /\ Handshake
  /\ CloseUnanswered
  /\ Reply("degraded")
  /\ NextLine

\* Mutant: the client is told, and the call stays open.
FailSilently ==
  /\ Unanswered /\ ~Handshake /\ RequestId # NoId
  /\ Reply("unreachable")
  /\ NextLine
  /\ UNCHANGED processor

\* Any other request gets the error -32001.
Fail ==
  /\ Unanswered /\ ~Handshake /\ RequestId # NoId
  /\ CloseUnanswered
  /\ Reply("unreachable")
  /\ NextLine

\* A notification that could not be sent is dropped.
DropNotification ==
  /\ Unanswered /\ ~Handshake /\ RequestId = NoId
  /\ NextLine
  /\ UNCHANGED <<processor, replies>>

\* EOF on stdin: drain_pending finds the table as the loop left it, and the
\* emitter stops.
ClientGone ==
  /\ pc = "read"
  /\ terminals' = [c \in Calls |-> IF c \in CallsIn(pending)
                                   THEN Append(terminals[c], Terminal("closed", NoCall))
                                   ELSE terminals[c]]
  /\ pending' = <<>>
  /\ emitterOn' = FALSE
  /\ pc' = "exited"
  /\ UNCHANGED <<request, starts, raised, call, transport, replies>>

Exited == pc = "exited" /\ UNCHANGED vars

Bodies == UNION {[1 .. n -> Message] : n \in 0 .. MaxMessages}

Next ==
  \/ \E id \in AnyId, kind \in Kinds : ReadRequest(id, kind)
  \/ RejectRequest
  \/ AnswerOwnTool
  \/ EmitStart
  \/ StartFails
  \/ TrackBadId
  \/ Track
  \/ \E body \in Bodies : BodyArrives(body)
  \/ StreamOpens
  \/ \E m \in Message : StreamMessage(m)
  \/ StreamComment
  \/ StreamSilent
  \/ StreamEnds
  \/ PostFails
  \/ HandleMessage
  \/ CloseAnswered
  \/ CloseRaises
  \/ Relay
  \/ Answered
  \/ Degrade
  \/ Fail
  \/ DropNotification
  \/ ClientGone
  \/ Exited

Spec == Init /\ [][Next]_vars

(* The loop's own steps are taken; the socket timeout runs out on a request  *)
(* that is not answered at all, and on a stream that brings nothing.         *)
Loop ==
  \/ RejectRequest \/ AnswerOwnTool \/ EmitStart \/ StartFails \/ TrackBadId \/ Track
  \/ HandleMessage \/ CloseAnswered \/ CloseRaises \/ Relay
  \/ Answered \/ Degrade \/ Fail \/ DropNotification

Fairness ==
  /\ WF_vars(Loop)
  /\ WF_vars(pc = "post" /\ (PostFails \/ StreamOpens))
  /\ WF_vars(StreamSilent)
  /\ WF_vars(pc = "stream" /\ PostFails)

FairSpec == Spec /\ Fairness

-----------------------------------------------------------------------------
(* Correctness.                                                            *)

\* Every variable has its type.
TypeOK ==
  /\ ProcessorTypeOK
  /\ pc \in {"read", "own", "start", "track", "post", "stream", "handle", "emit",
             "unreachable", "exited"}
  /\ call \in 0 .. NCalls
  /\ messages \in Seq(Message) /\ Len(messages) <= MaxMessages
  /\ responded \in BOOLEAN
  /\ popped \in [call : 0 .. NCalls, cause : {"end", "error", "raises"}]
  /\ silent \in BOOLEAN
  /\ replies \in [Calls -> Seq(ByTheLoop \cup FromUpstream)]

\* Whatever the upstream did, the loop comes back to stdin with nothing pending:
\* every start has its end or error by then.
LoopClosesEveryCall ==
  pc \in {"read", "exited"} => pending = <<>> /\ Started \subseteq Closed \cup raised

Given(c) == {replies[c][i] : i \in DOMAIN replies[c]}

\* The client was answered, by the upstream or by the loop; or a request of the
\* upstream's own was taken for the answer.
IsAnswered(c) == Given(c) \ {"request"} # {}
Mistaken(c) == "request" \in Given(c)

\* Fail-open: when the next line is read, the client has been answered for every
\* request that has an id, whatever the POST brought.  The one way out is a request
\* of the upstream's own under that very id: the loop takes it for the answer, and
\* if no other comes the client waits for ever.
EveryRequestIsAnswered ==
  pc \in {"read", "exited"} =>
    \A c \in 1 .. call : request[c].id # NoId =>
      IsAnswered(c) \/ (Mistaken(c) /\ request[c].id \in ServerIds)

\* The loop answers a request itself at most once, and never one that a message of
\* the upstream has answered; no handshake request is failed, which would wedge the
\* client, and the proxy's own tool answers alone, be the upstream there or not.
RepliesAreConsistent ==
  \A c \in Calls :
    /\ Given(c) \cap ByTheLoop # {} => Len(replies[c]) = 1
    /\ request[c].kind \in {"initialize", "tool_list"} => "unreachable" \notin Given(c)
    /\ request[c].kind = OwnTool => Given(c) \subseteq {"own", "internal error"}

\* The events tell what the client saw: the call ends with the upstream's verdict
\* exactly if the client got a message of the upstream under its id: the answer,
\* unless a request of the upstream's own was mistaken for it.
EventsAgreeWithReplies ==
  pc \in {"read", "exited"} =>
    \A c \in Started : IsRequestId(request[c].id) =>
      (Given(c) \cap FromUpstream # {} <=>
         c \in raised \/ \E i \in DOMAIN terminals[c] : terminals[c][i].cause \in {"end", "error"})

\* The module docstring of proxy.py: "a timed-out / dropped / rejected POST yields a
\* synthetic error event + a JSON-RPC error to Claude [...], never a hang."
NeverHangs == pc = "post" ~> pc = "read"

\* What holds of it: unless the upstream keeps a stream open with comments for
\* ever, the loop comes back to stdin from every POST.
QuietStreamsEnd == <>[][~StreamComment]_vars => NeverHangs
=============================================================================
