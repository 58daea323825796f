---------------------------- MODULE StdioSession ----------------------------
(***************************************************************************)
(* One session of the proxy over stdio (run_proxy): the client pump t_in,  *)
(* the server pump t_out and the main thread work on one MessageProcessor, *)
(* whose table of pending calls is the only thing that pairs a response    *)
(* with the start event that announced its request.                        *)
(*                                                                         *)
(* A thread's step is the code between two points at which another thread  *)
(* may act: a critical section of _pending_lock, an event handed to the    *)
(* emitter, a line read or written.                                        *)
(***************************************************************************)
EXTENDS MessageProcessor

CONSTANTS
  ServerIds,       \* the ids of the upstream's own requests
  ReusesIds,       \* may a client use an id twice?
  SendsBatches,    \* may a client send a JSON-RPC batch?
  StrayLines       \* may the upstream write JSON that is no object, unasked?

ASSUME SessionAssumption ==
  /\ ServerIds \subseteq Ids
  /\ ReusesIds \in BOOLEAN
  /\ SendsBatches \in BOOLEAN
  /\ StrayLines \in BOOLEAN

VARIABLES
  tin,         \* the client pump: where it is, its call, the call it displaced
  tout,        \* the server pump: where it is, the call it popped, the answer
  main,        \* where run_proxy is
  outstanding, \* what drain_pending took from the table and has yet to close
  upstream,    \* is the child running?
  unanswered,  \* calls whose request the upstream has and may answer
  replied,     \* calls whose response, or error, was written to the client
  batch        \* a JSON-RPC batch the client sent: none, forwarded

wire == <<upstream, unanswered, replied, batch>>
vars == <<processor, tin, tout, main, outstanding, wire>>

ToutReading == [pc |-> "read", call |-> NoCall, by |-> NoCall, cause |-> "end"]

Init ==
  /\ ProcessorInit
  /\ tin = [pc |-> "read", call |-> NoCall, displaced |-> NoCall]
  /\ tout = ToutReading
  /\ main = "wait"
  /\ outstanding = {}
  /\ upstream = "running"
  /\ unanswered = {}
  /\ replied = {}
  /\ batch = "none"

\* Daemon threads run until the process ends.
Alive == main # "exited"

-----------------------------------------------------------------------------
(* t_in: _pump_client_to_server and handle_client_message.                 *)

TinAt(pc) == Alive /\ tin.pc = pc

Proceed(pc) == tin' = [tin EXCEPT !.pc = pc]

NextCall == tin.call + 1

UsedIds == {request[c].id : c \in 1 .. tin.call} \cap Ids

\* A request line.  A method the proxy does not observe is only forwarded.
ReadRequest(id, kind) ==
  /\ TinAt("read") /\ tin.call < NCalls
  /\ ReusesIds \/ id \notin UsedIds
  /\ request' = [request EXCEPT ![NextCall] = [id |-> id, kind |-> kind]]
  /\ tin' = [pc |-> CASE Observed(kind)  -> "start"
                      [] kind = OwnTool  -> "own"
                      [] OTHER           -> "forward",
             call |-> NextCall, displaced |-> NoCall]
  /\ UNCHANGED <<events, pending, emitterOn, tout, main, outstanding, wire>>

\* params, or the arguments of the proxy's own tool, are not an object: the
\* handler raises and the pump answers -32603.
RejectRequest ==
  /\ TinAt("own") \/ (TinAt("start") /\ request[tin.call].kind # "tool_list")
  /\ replied' = replied \cup {tin.call}
  /\ Proceed("read")
  /\ UNCHANGED <<processor, tout, main, outstanding, upstream, unanswered, batch>>

\* The proxy's own tool: the pump answers, though the child may be gone.
AnswerOwnTool ==
  /\ TinAt("own")
  /\ replied' = replied \cup {tin.call}
  /\ Proceed("read")
  /\ UNCHANGED <<processor, tout, main, outstanding, upstream, unanswered, batch>>

EmitStart ==
  /\ TinAt("start")
  /\ StartEvent(tin.call)
  /\ Proceed("track")
  /\ UNCHANGED <<tout, main, outstanding, wire>>

\* Mutant: a call is tracked although its start event failed.
TrackWithoutStart ==
  /\ TinAt("start")
  /\ Proceed("track")
  /\ UNCHANGED <<processor, tout, main, outstanding, wire>>

\* enqueue_*_start raises: no event, hence no entry; the request goes on.
StartFails ==
  /\ TinAt("start")
  /\ Proceed("forward")
  /\ UNCHANGED <<processor, tout, main, outstanding, wire>>

TrackBadId ==
  /\ TinAt("track")
  /\ TrackInvalid(tin.call)
  /\ Proceed("forward")
  /\ UNCHANGED <<tout, main, outstanding, wire>>

\* Mutant: the return value of the pop is not looked at.
TrackForgets ==
  /\ TinAt("track")
  /\ TrackValid(tin.call)
  /\ Proceed("forward")
  /\ UNCHANGED <<tout, main, outstanding, wire>>

Track ==
  /\ TinAt("track")
  /\ TrackValid(tin.call)
  /\ tin' = [tin EXCEPT !.pc = IF DisplacedBy(tin.call) = NoCall THEN "forward" ELSE "close",
                        !.displaced = DisplacedBy(tin.call)]
  /\ UNCHANGED <<tout, main, outstanding, wire>>

\* Mutants: the new call is closed instead of the displaced one, or none is.
CloseReusing ==
  /\ TinAt("close")
  /\ CloseDisplaced(tin.call)
  /\ tin' = [tin EXCEPT !.pc = "forward", !.displaced = NoCall]
  /\ UNCHANGED <<tout, main, outstanding, wire>>

CloseNothing ==
  /\ TinAt("close")
  /\ tin' = [tin EXCEPT !.pc = "forward", !.displaced = NoCall]
  /\ UNCHANGED <<processor, tout, main, outstanding, wire>>

CloseReused ==
  /\ TinAt("close")
  /\ CloseDisplaced(tin.displaced)
  /\ tin' = [tin EXCEPT !.pc = "forward", !.displaced = NoCall]
  /\ UNCHANGED <<tout, main, outstanding, wire>>

\* The request goes to the child's stdin.  A write to a child that is gone
\* fails and is logged: the request is lost.
Forward ==
  /\ TinAt("forward")
  /\ unanswered' = IF upstream = "running" /\ request[tin.call].id # NoId
                   THEN unanswered \cup {tin.call} ELSE unanswered
  /\ Proceed("read")
  /\ UNCHANGED <<processor, tout, main, outstanding, upstream, replied, batch>>

\* A line that is not one JSON object is forwarded as it is: a batch stays intact.
ForwardBatch ==
  /\ TinAt("read") /\ SendsBatches /\ batch = "none" /\ upstream = "running"
  /\ batch' = "forwarded"
  /\ UNCHANGED <<processor, tin, tout, main, outstanding, upstream, unanswered, replied>>

\* EOF on stdin, or a line that cannot be decoded: the pump closes the child's
\* stdin, arms the escalation and ends.
ClientGone ==
  /\ TinAt("read")
  /\ Proceed("gone")
  /\ UNCHANGED <<processor, tout, main, outstanding, wire>>

ClientPump ==
  \/ \E id \in AnyId, kind \in Kinds : ReadRequest(id, kind)
  \/ RejectRequest
  \/ AnswerOwnTool
  \/ EmitStart
  \/ StartFails
  \/ TrackBadId
  \/ Track
  \/ CloseReused
  \/ Forward
  \/ ForwardBatch
  \/ ClientGone

-----------------------------------------------------------------------------
(* t_out: _pump_server_to_client and handle_server_message.                *)

ToutAt(pc) == Alive /\ tout.pc = pc

\* The lookup of a message's id; by is the call the message answers, if any.
Receive(id, shape, by) ==
  /\ Pop(id)
  /\ LET call == CallAt(pending, id)
     IN  tout' = [pc |-> "emit", call |-> call, by |-> by, cause |-> CauseFor(call, shape)]
  /\ UNCHANGED <<tin, main, outstanding, upstream, replied, batch>>

\* The upstream's answer to a call, sent before it exited if it has.
ReceiveAnswer(c, shape) ==
  /\ ToutAt("read") /\ c \in unanswered
  /\ Receive(request[c].id, shape, c)
  /\ unanswered' = unanswered \ {c}

\* A request of the upstream's own: ping, roots/list, sampling.
ReceiveServerRequest(id) ==
  /\ ToutAt("read")
  /\ Receive(id, "result", NoCall)
  /\ UNCHANGED unanswered

\* A line that is JSON and no object: the array that answers a batch, or anything an
\* upstream writes there of its own accord.  handle_server_message calls get on it, and
\* the exception ends the pump, as does that of a line that cannot be decoded.
ReceiveNonObject ==
  /\ ToutAt("read") /\ (batch = "forwarded" \/ StrayLines)
  /\ tout' = [tout EXCEPT !.pc = "dead"]
  /\ UNCHANGED <<processor, tin, main, outstanding, wire>>

\* Mutant: a message that answers no tracked call is not written.
WriteCorrelated ==
  /\ replied' = IF tout.call # NoCall THEN replied \cup ({tout.by} \ {NoCall}) ELSE replied
  /\ tout' = ToutReading
  /\ UNCHANGED <<tin, main, outstanding, upstream, unanswered, batch>>

\* The message goes to the client, and with it the answer to a call if it is one.
WriteToClient ==
  /\ replied' = replied \cup ({tout.by} \ {NoCall})
  /\ tout' = ToutReading
  /\ UNCHANGED <<tin, main, outstanding, upstream, unanswered, batch>>

CloseAnswered ==
  /\ ToutAt("emit") /\ tout.call # NoCall
  /\ EmitTerminal(tout.call, tout.cause, tout.by)
  /\ WriteToClient

CloseRaises ==
  /\ ToutAt("emit") /\ tout.call # NoCall
  /\ TerminalRaises(tout.call, tout.cause)
  /\ WriteToClient

\* A message that popped no call is only passed on.
Relay ==
  /\ ToutAt("emit") /\ tout.call = NoCall
  /\ WriteToClient
  /\ UNCHANGED processor

\* EOF: the child, and whoever shared its stdout, is gone.
UpstreamOutputEnds ==
  /\ ToutAt("read") /\ upstream = "exited"
  /\ tout' = [tout EXCEPT !.pc = "done"]
  /\ UNCHANGED <<processor, tin, main, outstanding, wire>>

ServerPump ==
  \/ \E c \in Calls, shape \in Shapes : ReceiveAnswer(c, shape)
  \/ \E id \in ServerIds : ReceiveServerRequest(id)
  \/ ReceiveNonObject
  \/ CloseAnswered
  \/ CloseRaises
  \/ Relay
  \/ UpstreamOutputEnds

-----------------------------------------------------------------------------
(* The child and the main thread.                                          *)

UpstreamExits ==
  /\ Alive /\ upstream = "running"
  /\ upstream' = "exited"
  /\ UNCHANGED <<processor, tin, tout, main, outstanding, unanswered, replied, batch>>

\* child.wait() has returned; t_out.join(timeout=2.0) returns when the pump is
\* over or when the timeout is.
JoinServerPump ==
  /\ main = "wait" /\ upstream = "exited"
  /\ main' = "drain"
  /\ UNCHANGED <<processor, tin, tout, outstanding, wire>>

DrainPending ==
  /\ main = "drain"
  /\ outstanding' = CallsIn(pending)
  /\ EmptyTable
  /\ main' = "close"
  /\ UNCHANGED <<tin, tout, wire>>

CloseOutstanding(c) ==
  /\ main = "close" /\ c \in outstanding
  /\ CloseDrained(c)
  /\ outstanding' = outstanding \ {c}
  /\ UNCHANGED <<tin, tout, main, wire>>

\* Mutant: the emitter stops before the drained calls are closed.
StopEmitterFirst ==
  /\ main = "close"
  /\ emitterOn' = FALSE
  /\ main' = "stop"
  /\ UNCHANGED <<request, events, pending, tin, tout, outstanding, wire>>

\* emitter.stop() queues the sentinel: a later event is never delivered.
StopEmitter ==
  /\ main = "close" /\ outstanding = {}
  /\ emitterOn' = FALSE
  /\ main' = "stop"
  /\ UNCHANGED <<request, events, pending, tin, tout, outstanding, wire>>

Exit ==
  /\ main = "stop"
  /\ main' = "exited"
  /\ UNCHANGED <<processor, tin, tout, outstanding, wire>>

MainThread ==
  \/ JoinServerPump
  \/ DrainPending
  \/ \E c \in Calls : CloseOutstanding(c)
  \/ StopEmitter
  \/ Exit

\* The process is gone: nothing happens any more.
Exited == main = "exited" /\ UNCHANGED vars

Next == ClientPump \/ ServerPump \/ UpstreamExits \/ MainThread \/ Exited

Spec == Init /\ [][Next]_vars

\* What a thread does once it has read a request, or a message ...
ClientStep == AnswerOwnTool \/ EmitStart \/ TrackBadId \/ Track \/ CloseReused \/ Forward
ServerStep == CloseAnswered \/ CloseRaises \/ Relay

(* ... it does: a thread that can take its next step takes it.  The client   *)
(* and the child do as they please.                                          *)
Fairness == WF_vars(ClientStep) /\ WF_vars(ServerStep) /\ WF_vars(MainThread)

\* An upstream that answers a call it was asked, and a pump that keeps up.
Answering(c) == \E shape \in Shapes : ReceiveAnswer(c, shape)
UpstreamAnswers(c) == SF_vars(Answering(c))

FairSpec == Spec /\ Fairness /\ \A c \in Calls : UpstreamAnswers(c)

-----------------------------------------------------------------------------
(* Correctness.                                                            *)

\* Every variable has its type, and the table never outgrows MAX_PENDING.
TypeOK ==
  /\ ProcessorTypeOK
  /\ tin \in [pc : {"read", "own", "start", "track", "close", "forward", "gone"},
              call : Calls \cup {NoCall}, displaced : Calls \cup {NoCall}]
  /\ tout \in [pc : {"read", "emit", "done", "dead"}, call : Calls \cup {NoCall},
               by : Calls \cup {NoCall}, cause : {"end", "error", "raises"}]
  /\ main \in {"wait", "drain", "close", "stop", "exited"}
  /\ outstanding \subseteq Calls
  /\ upstream \in {"running", "exited"}
  /\ unanswered \subseteq Calls
  /\ replied \subseteq Calls
  /\ batch \in {"none", "forwarded"}

\* Who has the duty to close a started call: t_in before it tracks it or after
\* it displaced it, the table, t_out once it popped it, drain_pending.
InTrack == IF tin.pc = "track" THEN {tin.call} ELSE {}
Displaced == {tin.displaced} \ {NoCall}
Popped == {tout.call} \ {NoCall}
Keepers == <<InTrack, CallsIn(pending), Displaced, Popped, outstanding, raised, Closed>>

\* A call whose start event was emitted is never forgotten and never handed to
\* two threads: it is closed, its end event raised, or exactly one of the
\* table, t_in, t_out and drain_pending still has to close it.  Eviction, a
\* reused id, a response and the shutdown race for the same entry.
OneKeeper ==
  /\ UNION {Keepers[i] : i \in DOMAIN Keepers} = Started
  /\ \A i, j \in DOMAIN Keepers : i # j => Keepers[i] \cap Keepers[j] = {}

\* A call is tracked before its request leaves, so a response never overtakes
\* its entry: it meets it, or somebody else has taken the call over.
AnswersMeetTheirCall ==
  \A c \in unanswered \cap Started :
    c \in CallsIn(pending) \cup Displaced \cup Popped \cup outstanding \cup raised \cup Closed

\* When ids are reused the two answers cannot be told apart, and the first to
\* arrive closes the later call: never does an answer close a call that is
\* older than the one it was meant for.
AnswerNeverClosesAnOlderCall ==
  \A c \in Closed : \A i \in DOMAIN terminals[c] :
    LET by == terminals[c][i].by
    IN  by \in Started => by <= c

\* When both pumps are over by the time drain_pending runs, every start that was
\* delivered has its end or error delivered too, but for an end that raised.
CleanExitLeavesNothingOpen ==
  [](main = "drain" /\ tin.pc = "gone" /\ tout.pc \in {"done", "dead"}
     => [](main = "exited" => \A c \in Calls \ raised : starts[c] = "kept" => Paired(c)))

\* Nothing more is read from the upstream.
ServerPumpOver == upstream = "exited" \/ tout.pc = "dead"

\* A call whose start was emitted is closed, or its end raises, as long as the
\* upstream answers and its answers are read.
EveryStartCloses ==
  \A c \in Calls : starts[c] = "kept" ~> c \in Closed \cup raised \/ ServerPumpOver

\* Every answer of the upstream reaches the client, whatever became of its call
\* in the table: evicted, displaced, drained or never tracked.
AnswersReachTheClient ==
  \A c \in Calls : c \in unanswered ~> c \in replied \/ ServerPumpOver

\* The module docstring of proxy.py: "Errors anywhere in the proxy MUST NOT
\* propagate to either pipe": no message of the upstream ends the server pump.
NoMessageEndsThePump == tout.pc # "dead"

\* handle_server_message: "Correlate this response to a pending call (by id)".
EndsAnswerTheirCall ==
  \A c \in Closed : \A i \in DOMAIN terminals[c] :
    terminals[c][i].cause \in {"end", "error"} => terminals[c][i].by = c
=============================================================================
