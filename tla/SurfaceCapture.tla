--------------------------- MODULE SurfaceCapture ---------------------------
(***************************************************************************)
(* What the processor learns from tools/list, in the two pumps of the      *)
(* stdio transport.  The client pump remembers which requests ask for a    *)
(* first page; the server pump keeps what initialize said of the server,   *)
(* turns a complete answer to a first page into a surface_snapshot event,  *)
(* once for every surface, then adds user_goal to the tools of every page  *)
(* and records for each tool whether it declared the name itself.  The     *)
(* client pump reads that record to decide whether the user_goal of a call *)
(* is the vendor's or the proxy's own.                                     *)
(*                                                                         *)
(* user_goal stands for the retired names as well: each is kept exactly if *)
(* the tool is on record as declaring it.  The three parts of a surface    *)
(* that initialize brings are one, known or not.  The table of pending     *)
(* calls is StdioSession's.                                                *)
(***************************************************************************)
EXTENDS Naturals, Sequences, SequencesExt

CONSTANTS
  Tools,           \* the tools of the upstream
  SecondPage,      \* the tools that a surface of two pages lists on the second
  Ids,             \* request ids
  MaxToollists,    \* MAX_PENDING_TOOLLISTS
  MaxRequests,     \* initialize and tools/list requests of the client
  MaxCalls,        \* tools/call requests of the client
  MaxChanges,      \* changes of the upstream's surface
  MaxPings         \* requests of the upstream's own

ASSUME SurfaceAssumption ==
  /\ SecondPage \subseteq Tools
  /\ MaxToollists \in Nat \ {0}
  /\ {MaxRequests, MaxCalls, MaxChanges, MaxPings} \subseteq Nat

\* Who declares user_goal: the tool itself, or nobody until the proxy does.
Declarations == {"native", "plain"}
Surface == [Tools -> Declarations]

VARIABLES
  now,         \* the upstream's surface, and whether it lists it on two pages
  listed,      \* what the upstream has listed each tool as, in that order
  had,         \* the surfaces that the upstream has had
  requests,    \* the requests the upstream has not answered
  wire,        \* upstream to proxy
  tin,         \* the client pump
  tout,        \* the server pump
  server_meta, \* is it known what initialize says of the server?
  toollist_first_page_ids,
  emitted_surface_hashes,
  snapshots,   \* the snapshots that were queued, each with the id of its request
  lost,        \* surfaces whose event could not be queued
  param_registry,
  seen,        \* the listing of each tool that the client has last received
  turnsPage,   \* has the client received a page that is not the last?
  met,         \* has the client received the answer to initialize?
  excused,     \* ids used again, used by the upstream, or dropped from a full table
  used         \* requests, calls, changes and pings so far

upstream == <<now, listed, had>>
processor == <<server_meta, toollist_first_page_ids, emitted_surface_hashes, snapshots, lost,
               param_registry>>
client == <<seen, turnsPage, met>>
vars == <<upstream, requests, wire, tin, tout, processor, client, excused, used>>

Reading == [pc |-> "read"]

Init ==
  /\ now \in [tools : Surface, paged : BOOLEAN]
  /\ listed = [t \in Tools |-> <<>>]
  /\ had = {now.tools}
  /\ requests = {}
  /\ wire = <<>>
  /\ tin = Reading /\ tout = Reading
  /\ server_meta = "unknown"
  /\ toollist_first_page_ids = <<>>
  /\ emitted_surface_hashes = {}
  /\ snapshots = <<>>
  /\ lost = {}
  /\ param_registry = [t \in Tools |-> "unlisted"]
  /\ seen = [t \in Tools |-> 0]
  /\ turnsPage = FALSE
  /\ met = FALSE
  /\ excused = {}
  /\ used = [ids |-> {}, requests |-> 0, calls |-> 0, changes |-> 0, pings |-> 0]

Spend(what, max) == used[what] < max /\ used' = [used EXCEPT ![what] = @ + 1]

-----------------------------------------------------------------------------
(* The client pump.                                                        *)

ReadRequest(id, asks) ==
  /\ tin.pc = "read"
  /\ asks = "next page" => turnsPage
  /\ used.requests < MaxRequests
  /\ used' = [used EXCEPT !.requests = @ + 1, !.ids = @ \cup {id}]
  /\ excused' = IF id \in used.ids THEN excused \cup {id} ELSE excused
  /\ tin' = [pc |-> IF asks = "first page" THEN "track" ELSE "forward",
             request |-> [id |-> id, asks |-> asks, met |-> met]]
  /\ UNCHANGED <<upstream, requests, wire, tout, processor, client>>

\* A mistake: no limit.
RememberedAll(ids, id) == IF id \in ToSet(ids) THEN ids ELSE Append(ids, id)

\* An insertion-ordered dict: a key that is there keeps its place, and the key
\* that has been there longest goes.
Remembered(ids, id) ==
  LET with == IF id \in ToSet(ids) THEN ids ELSE Append(ids, id)
  IN  IF Len(with) > MaxToollists THEN Tail(with) ELSE with

Forgotten(ids, id) ==
  IF id \in ToSet(ids) THEN RemoveAt(ids, CHOOSE i \in DOMAIN ids : ids[i] = id) ELSE ids

TrackFirstPage ==
  /\ tin.pc = "track"
  /\ toollist_first_page_ids' = Remembered(toollist_first_page_ids, tin.request.id)
  /\ excused' = excused \cup
       (ToSet(toollist_first_page_ids) \ ToSet(Remembered(toollist_first_page_ids, tin.request.id)))
  /\ tin' = [tin EXCEPT !.pc = "forward"]
  /\ UNCHANGED <<upstream, requests, wire, tout, server_meta, emitted_surface_hashes,
                 snapshots, lost, param_registry, client, used>>

Forward ==
  /\ tin.pc = "forward"
  /\ requests' = requests \cup {tin.request}
  /\ tin' = Reading
  /\ UNCHANGED <<upstream, wire, tout, processor, client, excused, used>>

\* A call with a user_goal, from a client that goes by the listings it has seen.
ReadCall(tool) ==
  /\ tin.pc = "read"
  /\ Spend("calls", MaxCalls)
  /\ tin' = [pc |-> "extract", tool |-> tool, seen |-> seen[tool]]
  /\ UNCHANGED <<upstream, requests, wire, tout, processor, client, excused>>

\* Native: the argument is the vendor's.  Injected, or not on record: the proxy's.
Keeps(disposition) == disposition = "native"

ExtractGoalParams ==
  /\ tin.pc = "extract"
  /\ tin' = [pc   |-> "forward call",
             tool |-> tin.tool,
             seen |-> tin.seen,
             upTo |-> Len(listed[tin.tool]),
             kept |-> Keeps(param_registry[tin.tool])]
  /\ UNCHANGED <<upstream, requests, wire, tout, processor, client, excused, used>>

ForwardCall ==
  /\ tin.pc = "forward call"
  /\ tin' = Reading
  /\ UNCHANGED <<upstream, requests, wire, tout, processor, client, excused, used>>

ClientPump ==
  \/ \E id \in Ids, asks \in {"server", "first page", "next page"} : ReadRequest(id, asks)
  \/ TrackFirstPage
  \/ Forward
  \/ \E tool \in Tools : ReadCall(tool)
  \/ ExtractGoalParams
  \/ ForwardCall

-----------------------------------------------------------------------------
(* The upstream.                                                           *)

Changes(tools, paged) ==
  /\ Spend("changes", MaxChanges)
  /\ now' = [tools |-> tools, paged |-> paged]
  /\ had' = had \cup {tools}
  /\ UNCHANGED <<listed, requests, wire, tin, tout, processor, client, excused>>

PageOf(request) ==
  IF ~now.paged THEN Tools ELSE IF request.asks = "next page" THEN SecondPage
  ELSE Tools \ SecondPage

\* In any order, each with the surface of its moment.
Answers(request) ==
  /\ request.asks # "server"
  /\ requests' = requests \ {request}
  /\ listed' = [t \in Tools |-> IF t \in PageOf(request)
                                THEN Append(listed[t], now.tools[t]) ELSE listed[t]]
  /\ wire' = Append(wire,
       [id    |-> request.id,
        shape |-> "tools",
        tools |-> [t \in PageOf(request) |-> now.tools[t]],
        place |-> [t \in PageOf(request) |-> Len(listed[t]) + 1],
        first |-> request.asks = "first page",
        nextCursor |-> now.paged /\ request.asks = "first page",
        met   |-> request.met])
  /\ UNCHANGED <<now, had, tin, tout, processor, client, excused, used>>

\* What initialize says of the server; an error; or a result of no such kind.
AnswersOtherwise(request, shape) ==
  /\ requests' = requests \ {request}
  /\ wire' = Append(wire, [id |-> request.id, shape |-> shape])
  /\ UNCHANGED <<upstream, tin, tout, processor, client, excused, used>>

\* A request of its own, whose id is from its own space.
Pings(id) ==
  /\ Spend("pings", MaxPings)
  /\ wire' = Append(wire, [id |-> id, shape |-> "request"])
  /\ excused' = excused \cup {id}
  /\ UNCHANGED <<upstream, requests, tin, tout, processor, client>>

Upstream ==
  \/ \E tools \in Surface, paged \in BOOLEAN : Changes(tools, paged)
  \/ \E request \in requests :
       \/ Answers(request)
       \/ request.asks = "server" /\ AnswersOtherwise(request, "server")
       \/ \E shape \in {"error", "other"} : AnswersOtherwise(request, shape)
  \/ \E id \in Ids : Pings(id)

-----------------------------------------------------------------------------
(* The server pump.                                                        *)

\* The tools whose schema gets the proxy's user_goal.
Plain(msg) == IF msg.shape = "tools" THEN {t \in DOMAIN msg.tools : msg.tools[t] = "plain"} ELSE {}

\* A mistake: the parameters are added first.
ReceiveInjected ==
  /\ tout.pc = "read" /\ wire # <<>>
  /\ wire' = Tail(wire)
  /\ tout' = [pc |-> "capture", msg |-> Head(wire), added |-> Plain(Head(wire))]
  /\ UNCHANGED <<upstream, requests, tin, processor, client, excused, used>>

Receive ==
  /\ tout.pc = "read" /\ wire # <<>>
  /\ wire' = Tail(wire)
  /\ tout' = [pc |-> "capture", msg |-> Head(wire), added |-> {}]
  /\ UNCHANGED <<upstream, requests, tin, processor, client, excused, used>>

At(pc) == tout.pc = pc
Goto(pc) == tout' = [tout EXCEPT !.pc = pc]

\* Whatever has no result: an error, and a request of the upstream's own.
ForgetFirstPage ==
  /\ At("capture") /\ tout.msg.shape \in {"error", "request"}
  /\ toollist_first_page_ids' = Forgotten(toollist_first_page_ids, tout.msg.id)
  /\ Goto("relay")
  /\ UNCHANGED <<upstream, requests, wire, tin, server_meta, emitted_surface_hashes,
                 snapshots, lost, param_registry, client, excused, used>>

CaptureNothing ==
  /\ At("capture") /\ tout.msg.shape = "other"
  /\ Goto("relay")
  /\ UNCHANGED <<upstream, requests, wire, tin, processor, client, excused, used>>

\* Whatever says protocolVersion or serverInfo, and no list of tools with it.
LearnServer ==
  /\ At("capture") /\ tout.msg.shape = "server"
  /\ server_meta' = "known"
  /\ Goto("relay")
  /\ UNCHANGED <<upstream, requests, wire, tin, toollist_first_page_ids,
                 emitted_surface_hashes, snapshots, lost, param_registry, client, excused,
                 used>>

\* A mistake: every first page is taken for the surface.
IsFirstPage(msg) == msg.id \in ToSet(toollist_first_page_ids)

\* Only a first page that is the last one is a surface.
IsSurface(msg) == msg.id \in ToSet(toollist_first_page_ids) /\ ~msg.nextCursor

CaptureSurface ==
  /\ At("capture") /\ tout.msg.shape = "tools"
  /\ toollist_first_page_ids' = Forgotten(toollist_first_page_ids, tout.msg.id)
  /\ Goto(IF IsSurface(tout.msg) THEN "digest" ELSE "inject")
  /\ UNCHANGED <<upstream, requests, wire, tin, server_meta, emitted_surface_hashes,
                 snapshots, lost, param_registry, client, excused, used>>

\* The tools as the message lists them by now: the injection changes it in place.
ToolsNow == [t \in DOMAIN tout.msg.tools |->
               IF t \in tout.added THEN "the proxy's" ELSE tout.msg.tools[t]]

SurfaceOf(tools) == [server |-> server_meta, tools |-> tools]

\* A mistake: a surface is known by the names of its tools.
DigestNames ==
  /\ At("digest")
  /\ emitted_surface_hashes' = emitted_surface_hashes \cup {SurfaceOf(ToolsNow)}
  /\ Goto(IF \E surface \in emitted_surface_hashes : DOMAIN surface.tools = DOMAIN tout.msg.tools
          THEN "inject" ELSE "emit")
  /\ UNCHANGED <<upstream, requests, wire, tin, server_meta, toollist_first_page_ids,
                 snapshots, lost, param_registry, client, excused, used>>

\* A mistake: the hash is looked up and not recorded.
DigestForgets ==
  /\ At("digest")
  /\ Goto(IF SurfaceOf(ToolsNow) \in emitted_surface_hashes THEN "inject" ELSE "emit")
  /\ UNCHANGED <<upstream, requests, wire, tin, processor, client, excused, used>>

Digest ==
  /\ At("digest")
  /\ emitted_surface_hashes' = emitted_surface_hashes \cup {SurfaceOf(ToolsNow)}
  /\ Goto(IF SurfaceOf(ToolsNow) \in emitted_surface_hashes THEN "inject" ELSE "emit")
  /\ UNCHANGED <<upstream, requests, wire, tin, server_meta, toollist_first_page_ids,
                 snapshots, lost, param_registry, client, excused, used>>

EmitSnapshot ==
  /\ At("emit")
  /\ snapshots' = Append(snapshots,
       [surface |-> SurfaceOf(ToolsNow), id |-> tout.msg.id, met |-> tout.msg.met])
  /\ Goto("inject")
  /\ UNCHANGED <<upstream, requests, wire, tin, server_meta, toollist_first_page_ids,
                 emitted_surface_hashes, lost, param_registry, client, excused, used>>

\* Logged, and the hash stays.
EmitFails ==
  /\ At("emit")
  /\ lost' = lost \cup {SurfaceOf(ToolsNow)}
  /\ Goto("inject")
  /\ UNCHANGED <<upstream, requests, wire, tin, server_meta, toollist_first_page_ids,
                 emitted_surface_hashes, snapshots, param_registry, client, excused, used>>

\* A mistake: the record is what the last page said.
Replaced(msg) ==
  [t \in Tools |-> IF t \notin DOMAIN msg.tools THEN "unlisted"
                   ELSE IF msg.tools[t] = "native" THEN "native" ELSE "injected"]

\* Upserted for the tools of this page; the others keep what is on record.
Upserted(msg) ==
  [t \in Tools |-> IF t \notin DOMAIN msg.tools THEN param_registry[t]
                   ELSE IF msg.tools[t] = "native" THEN "native" ELSE "injected"]

InjectIntentParams ==
  /\ At("inject")
  /\ param_registry' = Upserted(tout.msg)
  /\ tout' = [tout EXCEPT !.pc = "relay", !.added = Plain(tout.msg)]
  /\ UNCHANGED <<upstream, requests, wire, tin, server_meta, toollist_first_page_ids,
                 emitted_surface_hashes, snapshots, lost, client, excused, used>>

Relay ==
  /\ At("relay")
  /\ IF tout.msg.shape = "tools"
     THEN /\ seen' = [t \in Tools |-> IF t \in DOMAIN tout.msg.place
                                      THEN tout.msg.place[t] ELSE seen[t]]
          /\ turnsPage' = (turnsPage \/ tout.msg.nextCursor)
     ELSE UNCHANGED <<seen, turnsPage>>
  /\ met' = (met \/ tout.msg.shape = "server")
  /\ tout' = Reading
  /\ UNCHANGED <<upstream, requests, wire, tin, processor, excused, used>>

ServerPump ==
  \/ Receive
  \/ ForgetFirstPage \/ CaptureNothing \/ LearnServer \/ CaptureSurface
  \/ Digest \/ EmitSnapshot \/ EmitFails
  \/ InjectIntentParams
  \/ Relay

Next == ClientPump \/ Upstream \/ ServerPump

Spec == Init /\ [][Next]_vars

-----------------------------------------------------------------------------
(* Correctness.                                                            *)

\* Every variable has its type, and the table of first pages its limit.
TypeOK ==
  /\ now \in [tools : Surface, paged : BOOLEAN]
  /\ had \subseteq Surface
  /\ requests \subseteq [id : Ids, asks : {"server", "first page", "next page"}, met : BOOLEAN]
  /\ tin.pc \in {"read", "track", "forward", "extract", "forward call"}
  /\ tout.pc \in {"read", "capture", "digest", "emit", "inject", "relay"}
  /\ server_meta \in {"unknown", "known"}
  /\ toollist_first_page_ids \in Seq(Ids) /\ Len(toollist_first_page_ids) <= MaxToollists
  /\ param_registry \in [Tools -> {"unlisted", "native", "injected"}]
  /\ \A t \in Tools : seen[t] \in 0 .. Len(listed[t])
  /\ excused \subseteq Ids

\* _capture_surface: "a partial page must never masquerade as the surface", nor
\* one with the proxy's own parameters.  What is sent is a surface the upstream
\* had, unless a client used the id of the list request again; and it says what
\* the server is if the client knew that when it asked.
SnapshotsAreSurfaces ==
  \A n \in DOMAIN snapshots :
    /\ snapshots[n].surface.tools \in had \/ snapshots[n].id \in excused
    /\ snapshots[n].met => snapshots[n].surface.server = "known"

\* A whole surface that passes the proxy is on its way to the client only when
\* its snapshot was queued, then or before, or could not be: no race between the
\* two pumps loses it.
NoSurfaceIsMissed ==
  LET msg == tout.msg
  IN  tout.pc = "relay" /\ msg.shape = "tools" /\ msg.id \notin excused =>
          \/ ~msg.first \/ msg.nextCursor
          \/ SurfaceOf(msg.tools) \in lost
          \/ \E n \in DOMAIN snapshots : snapshots[n].surface = SurfaceOf(msg.tools)

\* A client that lists an unchanged surface again causes no second event.
SurfacesAreSentOnce ==
  \A m, n \in DOMAIN snapshots : snapshots[m].surface = snapshots[n].surface => m = n

\* The user_goal of a call goes to the vendor exactly if a listing said that the
\* tool declares it, and that listing is no older than the last one the client
\* had seen: no page, no race with a relay and no other tool's listing brings
\* back an older record.
GoalsFollowTheListing ==
  tin.pc = "forward call" =>
    \E n \in tin.seen .. tin.upTo :
      tin.kept <=> n # 0 /\ listed[tin.tool][n] = "native"
=============================================================================
