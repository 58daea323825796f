-------------------------- MODULE MessageProcessor --------------------------
(***************************************************************************)
(* MessageProcessor: the message layer both transports share.  It emits a  *)
(* start event for each request it observes, keeps the request in the      *)
(* table of pending calls, and closes the call with an end or error event  *)
(* when a response, an overflow, a reused id or the shutdown takes it out. *)
(*                                                                         *)
(* The module gives the pieces of its handlers as actions on its own       *)
(* state; a transport says which thread takes them, and in which order.    *)
(* A call is one client request, named by its number in the order in       *)
(* which the client sent them.                                             *)
(***************************************************************************)
EXTENDS PendingCalls

CONSTANTS
  NCalls,      \* how many requests the client sends at most
  Ids,         \* the JSON-RPC ids a client uses
  NoId,        \* no id: a notification
  BadId,       \* an id that is a boolean, a list or an object
  Kinds,       \* the kinds of request the client sends
  Shapes       \* the shapes of response the upstream gives

Listings == {"resource_list", "prompt_list"}
TrackedKinds == {"tool", "tool_list", "resource_read", "prompt_get"} \cup Listings
\* A call of the tool the proxy injected: answered here, forwarded never.
OwnTool == "annotation"
AllKinds == TrackedKinds \cup {"initialize", OwnTool, "other"}
AllShapes == {"result", "isError", "error", "malformed"}
AnyId == Ids \cup {NoId, BadId}

ASSUME ProcessorAssumption ==
  /\ NCalls \in Nat
  /\ NoId \notin Ids /\ BadId \notin Ids /\ NoId # BadId
  /\ Kinds \subseteq AllKinds
  /\ Shapes \subseteq AllShapes

Calls == 1 .. NCalls

VARIABLES
  request,     \* what each call asked: its id and kind
  starts,      \* its *_start event: none, kept by the emitter, or too late
  terminals,   \* the *_end and *_error events emitted for it, in order
  raised,      \* calls whose terminal event could not be built
  pending,     \* _pending
  emitterOn    \* stop() has not yet queued the sentinel

processor == <<request, starts, terminals, raised, pending, emitterOn>>
events == <<starts, terminals, raised>>

ProcessorInit ==
  /\ request = [c \in Calls |-> [id |-> NoId, kind |-> "other"]]
  /\ starts = [c \in Calls |-> "none"]
  /\ terminals = [c \in Calls |-> <<>>]
  /\ raised = {}
  /\ pending = <<>>
  /\ emitterOn = TRUE

\* A terminal event: why the call is closed; by, the call whose answer closed it,
\* or NoCall; kept, whether the emitter still took the event.
Causes == {"end", "error", "reused", "invalid", "evicted", "closed"}
Terminal(cause, by) == [cause |-> cause, by |-> by, kept |-> emitterOn]

\* _close_unanswered, or the answer's own end or error event.
CloseCall(c, cause, by) ==
  terminals' = [terminals EXCEPT ![c] = Append(@, Terminal(cause, by))]

\* _is_request_id: only these are tracked, and only these pop.
IsRequestId(id) == id \in Ids

Observed(kind) == kind \in TrackedKinds

\* enqueue_*_start.  After stop() it returns without an event and without an
\* error, so that the call is tracked all the same.
StartEvent(c) ==
  /\ starts' = [starts EXCEPT ![c] = IF emitterOn THEN "kept" ELSE "late"]
  /\ UNCHANGED <<request, terminals, raised, pending, emitterOn>>

\* _track of a call no response can match: it is closed at once.
TrackInvalid(c) ==
  /\ ~IsRequestId(request[c].id)
  /\ CloseCall(c, "invalid", NoCall)
  /\ UNCHANGED <<request, starts, raised, pending, emitterOn>>

\* _track, the critical section: pop the call the id displaces, insert, evict.
DisplacedBy(c) == CallAt(pending, request[c].id)

\* Mutant: a full table refuses the new call instead of evicting the oldest.
TrackUnlessFull(c) ==
  /\ IsRequestId(request[c].id)
  /\ pending' = IF Len(pending) >= MaxPending THEN pending
                ELSE Inserted(pending, request[c].id, c)
  /\ UNCHANGED <<request, events, emitterOn>>

TrackValid(c) ==
  /\ IsRequestId(request[c].id)
  /\ LET table == Inserted(pending, request[c].id, c)
     IN  /\ pending' = Trimmed(table)
         /\ terminals' = [d \in Calls |->
                            IF d \in Evicted(table)
                            THEN Append(terminals[d], Terminal("evicted", NoCall))
                            ELSE terminals[d]]
  /\ UNCHANGED <<request, starts, raised, emitterOn>>

\* _track, after the lock.
CloseDisplaced(c) ==
  /\ CloseCall(c, "reused", NoCall)
  /\ UNCHANGED <<request, starts, raised, pending, emitterOn>>

\* _pop_pending under the lock, for any message of the upstream that has an id,
\* be it a response or not.
Pop(id) ==
  /\ pending' = Without(pending, id)
  /\ UNCHANGED <<request, events, emitterOn>>

\* What handle_server_message makes of a response for a call of this kind.
\* The count of a listing whose result has not the expected shape raises.
CauseOf(kind, shape) ==
  IF shape = "error" \/ (shape = "isError" /\ kind = "tool") THEN "error"
  ELSE IF shape = "malformed" /\ kind \in Listings THEN "raises"
  ELSE "end"

CauseFor(call, shape) ==
  IF call = NoCall THEN "end" ELSE CauseOf(request[call].kind, shape)

\* The terminal event of the call popped; an exception is logged, and the call
\* is in the table no more.
EmitTerminal(call, cause, by) ==
  /\ cause # "raises"
  /\ CloseCall(call, cause, by)
  /\ UNCHANGED <<request, starts, raised, pending, emitterOn>>

TerminalRaises(call, cause) ==
  /\ cause = "raises"
  /\ raised' = raised \cup {call}
  /\ UNCHANGED <<request, starts, terminals, pending, emitterOn>>

\* Mutant: drain_pending copies the table and does not clear it.
EmptyTableKeeps == UNCHANGED <<request, events, pending, emitterOn>>

\* drain_pending, the critical section.
EmptyTable ==
  /\ pending' = <<>>
  /\ UNCHANGED <<request, events, emitterOn>>

\* drain_pending, the event of one call it took.
CloseDrained(c) ==
  /\ CloseCall(c, "closed", NoCall)
  /\ UNCHANGED <<request, starts, raised, pending, emitterOn>>

-----------------------------------------------------------------------------
(* Correctness, in terms of the processor's own state.                     *)

ProcessorTypeOK ==
  /\ request \in [Calls -> [id : AnyId, kind : AllKinds]]
  /\ starts \in [Calls -> {"none", "kept", "late"}]
  /\ terminals \in [Calls -> Seq([cause : Causes, by : Calls \cup {NoCall}, kept : BOOLEAN])]
  /\ raised \subseteq Calls
  /\ pending \in Seq([id : Ids, call : Calls])
  /\ Len(pending) <= MaxPending
  /\ emitterOn \in BOOLEAN

Started == {c \in Calls : starts[c] # "none"}
Closed == {c \in Calls : terminals[c] # <<>>}

\* The consumer of the events sees this call's end, if it saw its start.
Paired(c) == \E i \in DOMAIN terminals[c] : terminals[c][i].kept

\* No call is closed twice, whichever of response, eviction, reuse and shutdown
\* come together, and none without a start: the worker could not pair it.
OneTerminalPerCall ==
  \A c \in Calls : Len(terminals[c]) <= 1 /\ (c \in Closed => c \in Started)

\* Overflow closes the oldest calls and no more of them than it must: what stays
\* in the table is younger and fills it.
EvictsTheOldest ==
  [][\A c \in Calls :
       (\E i \in DOMAIN terminals'[c] \ DOMAIN terminals[c] : terminals'[c][i].cause = "evicted")
       => Len(pending') = MaxPending /\ \A d \in CallsIn(pending') : c < d]_processor

\* Every event emitted is one the ledger of calls allows.
Ledger == INSTANCE CallLedger WITH
  ledger <- [c \in Calls |-> IF terminals[c] # <<>>
                             THEN IF Len(terminals[c]) = 1 THEN "closed" ELSE "closed twice"
                             ELSE IF starts[c] # "none" THEN "open" ELSE "absent"]

ImplementsLedger == Ledger!Spec
=============================================================================
