# Formal models of baton-proxy

baton-proxy sits between an MCP client and an MCP server (the *upstream*). It
relays JSON-RPC in both directions, tells a sink what went by as *events*, and
promises never to be the reason that a session fails. This directory holds TLA+
models of its concurrent and stateful parts, the TLC configurations that check
them, and TLAPS proofs that their safety properties, and most of their liveness
properties, hold for every value of the constants. Where the code breaks its word,
a theorem says under which condition it keeps it.

Paths below are relative to the repository: `proxy.py`, `emitter.py` and
`transport_http.py` stand for the files in `src/baton_proxy/`, `kit.py` for
`try/kit.py`. `PROJECT.json` maps every definition to the lines it models.

## 1. Inventory

| component | state it keeps | operations | talks to |
|---|---|---|---|
| message processor (`proxy.py`, `MessageProcessor`) | `_pending`: id -> open call, insertion order, at most `MAX_PENDING` | `handle_client_message`, `_track`, `_evict_overflow`, `handle_server_message`, `_pop_pending`, `drain_pending`, `synthesize_pending_error` | called by both transports, from two threads and the main thread; calls the emitter |
| stdio transport (`run_proxy`, `_pump_*`) | two pump threads, the child and its pipes | read, process, forward; join, drain, stop | client, child, processor, shutdown |
| upstream shutdown (`_UpstreamShutdown`, `_signal_upstream`) | a timer, `signalled` | `begin`, `_terminate`, `_kill`, `cancel`, `result` | armed by the client pump, cancelled by the main thread; `Popen` |
| HTTP bridge loop (`run_http_proxy`, `_run_http_loop`, `_degrade`) | one request at a time | POST, relay, degrade, fail | processor, HTTP client |
| streamable HTTP client (`transport_http.py`) | session id, protocol version | `post`, `_parse_json_body`, `_parse_sse`, `_normalize` | HTTP upstream |
| event emitter (`emitter.py`) | `_queue`, `_seq`, `_drop_count`, drain thread, sink | `enqueue_*`, `_enqueue`, `_drain`, `_deliver`, `start`, `stop` | every thread of the proxy; sinks |
| sinks (`sinks.py`) | a file, a stream, a connection each; `MultiSink` has several | `make_sink`, `write`, `close` | built by `Emitter.start`, written by the drain thread |
| surface capture and injection (`proxy.py`) | `_server_meta`, `_toollist_first_page_ids`, `_emitted_surface_hashes`, `_param_registry` | `_capture_surface`, `_inject_intent_params`, `_extract_goal_params` | both pumps; the emitter |
| annotation tool (`proxy.py`) | none | answers a call to its own tool, tracks and forwards nothing | client pump or bridge loop, emitter |
| try kit (`kit.py`) | the client's config, `.mcp.json`, `state.json`, backups | `setup`, `uninstall`, `receipt`, `reveal` | files that the MCP client and the person write too |
| entry point and configuration (`main`, `_bootstrap`, `config.py`, `Emitter.start`) | the settings; the default file in `/tmp` | read, tell the agent, guard, build the sinks, spawn | environment, sinks, other accounts' proxies |
| identity, scrubber, error results, model text | none | validate, replace, extract | - |

### What is hard here

- *Who closes a call.* An answer, an overflow of the table, an id used again and
  the end of the session compete for one entry, from three threads. The lock
  covers the table and not the events, so a call spends time in the hands of a
  thread: between start and `_track`, between pop and `end`, between the drain
  and its events.
- *Ids that are not the proxy's.* The client chooses them, may use one twice,
  and the upstream's own requests use ids from a space of their own.
- *A queue nobody may wait on.* Overflow is a pair of queue operations among
  threads that do not all take the same lock.
- *A child that need not cooperate.* It may ignore EOF, SIGTERM or its stdin;
  poll, reap and signal are steps of two threads, and a pid may be another process's
  by the time it is signalled.
- *HTTP answers of any shape*, one, many, none, half a stream, requests of the
  upstream's own among them, to a loop that handles one request at a time.
- *Listings that overtake one another* while a second thread relies on them.
- *Files that other hands edit* for days, and commands that may be killed
  between two writes.
- *A start with many ways out.* Settings are judged in five places, before there
  is a log or a sink, and whatever raises takes the wrapped server away; the
  default event file is shared by all accounts of a machine.

### What makes each component correct

- processor and transports: every start is closed exactly once, by the right
  party; overflow takes the oldest; an answer meets its call; every answer
  reaches the client, whatever became of the event.
- bridge: every request is answered, unless a request of the upstream's own is
  taken for its answer; replies and events agree; nothing pending at the next line,
  no failed handshake.
- emitter: at most once, in order; only the oldest is dropped; a clean stop
  loses nothing; producers never wait for the sink, and `stop` only for a file that
  hangs in a write; a sink that fails costs the other sinks nothing.
- shutdown: no signal before the child has been given its EOF; no rung begins
  after the wait; the status is the upstream's own; the session ends.
- surface: a snapshot is a surface the upstream had, with what the client knew of
  the server; none is missed or sent twice; `user_goal` goes where the newest listing said.
- kit: the original entry is never lost and comes back to the letter; what
  others changed is kept; no refusal says something false.
- start: a proxy that is up has every sink it was given and has said what it
  ignores; under a placeholder no collector is used whose scheme is in lower case; the
  wrapped server is kept from starting by a mistake in the settings, a command that
  cannot be run, an extra that is missing or an event file that cannot be opened, and by
  nothing else.

## 2. Modules

    PendingCalls            the table, as operators on a sequence
      MessageProcessor      the handlers, as actions on the processor's state
        StdioSession          + two pumps, main thread, child (MCStdioSession for TLC)
        HttpBridge            + the loop and the POST
    CallLedger              what both promise: absent -> open -> closed
    Emitter                 queue, producers, drain thread, fan-out, stop
    LossyFifo               what it promises each sink: in order, at most once
    UpstreamShutdown        child, pipe, ladder, wait
    SurfaceCapture          initialize, first pages, snapshots, the parameter record
                              (MCSurfaceCapture for TLC)
    Startup                 settings, guards, sinks, spawn, for several accounts
    TryKit                  setup, receipt, uninstall over four kinds of file

    MessageProcessorProofs  lemmas about the table, the handlers and the ledger
      StdioSessionProofs      the theorems of section 5, each of a module
      HttpBridgeProofs
    EmitterProofs, UpstreamShutdownProofs, SurfaceCaptureProofs, StartupProofs,
    TryKitProofs

`StdioSession` and `HttpBridge` share `MessageProcessor` as the transports share
the class: it gives the pieces of each handler, and the transport says which
thread takes them in which order. `CallLedger` and `LossyFifo` are abstract
specifications; `MessageProcessor!Ledger` and `Emitter!Fifo(s)`, one for each sink, instantiate them
under a refinement mapping, and `ImplementsLedger` and `DeliversInOrder` say that
the detailed behaviours are behaviours of the abstract ones.

A definition marked *Mutant* or *A mistake* is no part of a specification. It is
the form a plausible bug would give the definition next to it, and `PROJECT.json`
names for every checked property the one that breaks it.

### PendingCalls, MessageProcessor

The OrderedDict is a sequence of `[id, call]`, oldest first; a call is the number
of the client's request. `Inserted`, `Without`, `Trimmed` and `Evicted` are the
bodies of the critical sections of `_pending_lock`: an action that uses them in
one step models the lock. `starts` and `terminals` are the events: `terminals[c]`
lists every terminal event of call `c`, its cause, the call whose answer caused it
and whether the emitter still took it. `raised` holds the calls whose terminal
event raised after the pop: a listing whose result has no list
(`_emit_end` counts it, the handler logs the exception). `OwnTool` is the kind of
a call to the injected tool: both transports answer it (`AnswerOwnTool`), or
reject it when its arguments are no object, and neither tracks nor forwards it.

### StdioSession

`tin`, `tout` and `main` are program counters with the local variables that
outlive a step. One step is what runs between two points where another thread
may act: a critical section, an event handed over, a line read or written.

| code | actions |
|---|---|
| `_pump_client_to_server`, `handle_client_message`, `_track` | `ReadRequest`, `RejectRequest`, `AnswerOwnTool`, `EmitStart`, `StartFails`, `TrackBadId`, `Track`, `CloseReused`, `Forward`, `ForwardBatch`, `ClientGone` |
| `_pump_server_to_client`, `handle_server_message` | `ReceiveAnswer`, `ReceiveServerRequest`, `ReceiveNonObject`, `CloseAnswered`, `CloseRaises`, `Relay`, `UpstreamOutputEnds` |
| the end of `run_proxy`, `drain_pending` | `JoinServerPump`, `DrainPending`, `CloseOutstanding`, `StopEmitter`, `Exit` |

The join has a timeout and the client pump is a daemon thread that nobody joins,
so either pump may act between and after the steps of the main thread, until
`Exit`. `ReceiveNonObject` is a line that is JSON and no object, an array or a scalar:
the answer to a batch, or any line at all of an upstream that writes such lines
(`StrayLines`). Requests the upstream may still answer stay in `unanswered` when the child
exits: its output is read to the end. An event the emitter gets after `stop` is
counted with `kept = FALSE`.

### HttpBridge

One thread. `BodyArrives` brings any sequence of at most `MaxMessages` messages,
each a response with any id and shape, or a request of the upstream's own under an id of
`ServerIds`; a stream brings them one at a time and ends, falls silent until the socket
timeout, or is kept open by comments. An exception discards what the stream had brought.
`TakenForAnswer` looks at the id alone, as `_run_http_loop` does (`proxy.py:1643`).
`replies` is, for each request, what the client was given under its id, in order.
`ClientGone` is EOF, `drain_pending` and `stop` in one step: there is no second thread.

### Emitter

A producer's `_enqueue` is `Number`, then `Put`, or `PutFindsFull`, `DropOldest`,
`PutAgain`; `LockFree` is `_enqueue_lock`, held over the last three. The drain
thread and `stop` take single queue operations without it. The drain thread hands
an event to the sinks in turn, as `MultiSink.write` does, one of them being the
case without a `MultiSink`: `NextSink` is what remains of the loop, and a write may
succeed, raise (the loop goes on) or never return (so does the thread). `stop`
closes the sink whether or not the drain thread has left it, and then lets go of it:
`CloseSink` waits for a file that is being written, whose buffer has a lock, and for
nothing else; `DropSink` is the assignment after it. A closed file raises on a write, a
closed connection opens a new one. Whether the constant that stands for the queue's `None`
differs from every event is an assumption of the module.

### UpstreamShutdown

The child has *manners*: does it read its stdin, exit on EOF, exit on SIGTERM. It
may also exit by itself at any time, with a code or by somebody else's signal.
A rung is three steps, `Polls`, `Claims` (`signalled`) and `Sends`, because the main
thread may reap, or be back from its wait, between any two of them;
`Reap` and `WaitReturns` are two, because the kernel gives up the pid before
`returncode` is set, and `Result` and `Cancel` follow. Once given up, the pid may become
another process's (`PidRecycled`), and `strangers` are the signals that one gets. The
pump arms the ladder on every way out: at EOF (`PumpEnds`), and when a line of the
client's raises out of its loop with the client still there (`PumpDies`). The pipe holds
`PipeMax` lines and a write to it blocks.

### SurfaceCapture

The upstream's surface says of each tool whether it declares `user_goal` itself,
and changes. It is listed on one page or two. A `seen` listing is the last one
the client was given; the client's calls go by it. `user_goal` stands for the
retired names too, each of which is handled alike. Hashes are the surfaces
themselves. `server_meta` is known from the first answer to an `initialize` on;
`met` says that the client has had one, and each request carries what its client
knew when it asked. An answer is taken for what its result looks like, whatever
its request was: one that names the server, tools, an error, anything else.
The handler changes the message it was given: `tout.added` says of each tool of the
listing at hand whether `user_goal` has been added to it, so that a surface taken after
the injection would be seen to differ from the upstream's.

### Startup

One proxy for each account of a machine. `Launch` is `main` and
`Config.from_env`, `LogWarnings` what is logged of retired settings once there is a
log, `TellAgent` the line about the event file in the instructions,
`Guard` the two guards of `Emitter.start`, and then each sink is a step of its
own (`BuildTmpFile`, `BuildOwnFile`, `BuildStderr`, `BuildRemote`, `BuildBucket`,
`Unsupported`), so that two accounts meet between any two sinks. A leg of `BATON_EVENT_SINK` is told
apart by what the start does with it; of the settings only that they are good,
retired or bad. The default file in `/tmp` has an owner and may be open to others;
`FileSink` creates it for its owner alone, and any file may fail to open (`OpenFails`:
`os.open` is not guarded). Guests set nothing at all, as the quick
start has it. A refusal is every way in which the process ends before the child is
spawned, by a message or a traceback.

### TryKit

An entry is what it launches, whether through the proxy, and its
`BATON_ANNOTATE`. The state file is written in two steps, `OpenState` and
`WriteState`, because it is truncated first; the other files are replaced
atomically. `Crash` is possible between any two writes. Init includes what an
older kit left behind, a wrap without `BATON_ANNOTATE` in either mode. Between
commands other hands may leave any entry, delete or extend `.mcp.json`, delete
the state file; during a command the client may save the rest of its config.
`Uncarried` entries are those that the proxy cannot stand in for (`is_wrappable`). A
receipt reads; what it says of the wrap is in `verdict`, and `Session` is the MCP
client running the wrap, which leaves events for it to count.
An edit that changes nothing but the `BATON_ANNOTATE` of a wrap is the person's
choice and no tampering, as in `is_still_our_wrap`.

## 3. What the runs show

Runs with a clean verdict:

| run | bounds | shows |
|---|---|---|
| `session_table` | 3 calls, 3 ids, table of 2, ids reused | `OneKeeper`: each started call has exactly one party that has to close it. `OneTerminalPerCall`, `AnswersMeetTheirCall`, `AnswerNeverClosesAnOlderCall`, `EvictsTheOldest`, and `ImplementsLedger` |
| `session_messages` | 2 calls, 1 id, table of 1, three kinds, two shapes, a batch, upstream requests, lines that are no object | With every way a message may look and under fairness `EveryStartCloses`, `AnswersReachTheClient`; `CleanExitLeavesNothingOpen` |
| `bridge` | 2 calls, 2 ids, three kinds, two messages for a POST, upstream requests under one id | `LoopClosesEveryCall`, `EveryRequestIsAnswered`, `RepliesAreConsistent`, `EventsAgreeWithReplies`, `ImplementsLedger`, `QuietStreamsEnd` |
| `emitter` | 2 threads, 3 events, queue of 2, 2 sinks, one a file | `NoEventTwice`, `OverflowDropsTheOldest`, `CleanStopFlushes`, `SinksAreIsolated`, `DeliversInOrder`, `ProducersNeverBlock`, `StopReturns` |
| `shutdown` | every manner, 2 lines, pipe of 1, exit codes 0 and 3, signal 11, a pid used again | `VerdictIsTheUpstreams`, `LadderInOrder`, `NoRungAfterTheWait`, `ReadersEndWithTheClient` |
| `surface` | 2 tools, 2 requests (`initialize` or a list), 2 ids, table of 1, one call, change and upstream request | `SnapshotsAreSurfaces`, `NoSurfaceIsMissed`, `SurfacesAreSentOnce`, `GoalsFollowTheListing` |
| `startup` | 2 accounts, one sets nothing; every list of up to 2 of 7 sinks, every combination of settings | `NothingIsSilent`, `PlaceholderStaysHome`, `OnlyMistakesRefuse` |
| `kit` | 2 servers, one uncarried, 4 commands, 2 kills, 2 edits, 1 save | `OriginalIsRecoverable`, `EditsAreRealEdits`, `UninstallRestoresTheOriginal`, `OthersAreKept`, `UnrelatedChangesAreKept` |

Why the bounds are enough for the question: the processor distinguishes calls only
by id and age, so a table of two and three calls give overflow, reuse of the
oldest and of the youngest id, and an answer for each of them at once; the proofs
remove the bound. Three kinds suffice in `session_messages` because
`CauseOf` sorts kinds into three classes; `other` stands for what is only
forwarded and `annotation` for what is only answered. One id there forces every
request of the client and of the upstream to meet. Two
producers and a queue of two are the least in which a drop, a take by the drain
thread and the sentinel can meet between the halves of one drop-oldest; a third
event gives order something to say, and a second sink is the other one that a
failure could hurt; one of the two is a file, the sink that `stop` may wait for. In the
start, two legs put any sink before or after any other, and a second account is what the
shared file needs. In the kit, two kills and two
edits among four commands cover a setup killed, repeated, edited and reversed;
one more of each adds longer histories of the same kind.
In the surface, the second request is an `initialize`, a second page, another first
page for a table of one, or the same id again; the change and the second tool make
the order of two answers matter.
Symmetry is used in `session_table` and `surface` only, over the client's ids, which
no definition tells apart there, and without liveness properties.

Deadlock is checked wherever the system should have a next step until it exits
(`StdioSession`, `HttpBridge`; `UpstreamShutdown` in the run whose child may end).
`CHECK_DEADLOCK FALSE` marks models that really may stop: the emitter behind a
sink that never returns, bounded histories of commands or listings, and the
child of `shutdown_stuck`, which is the finding.

### Disagreements between the code and what it says

Four runs check a sentence of the repository and TLC refutes it.

| run | sentence | what happens |
|---|---|---|
| `session_collision` | `proxy.py:896` "Correlate this response to a pending call (by id)" | `handle_server_message` pops by id whether or not the message is a response: a `ping` or `roots/list` of the upstream's own whose id equals that of a pending call closes it with an `end`. The answer that follows pops nothing. |
| `session_batch` | `proxy.py:22` "Errors anywhere in the proxy MUST NOT propagate to either pipe", `proxy.py:1130` "keeps any JSON-RPC batch intact" | the array that answers a batch is given to code that calls `.get` on it (`proxy.py:1213`); the exception ends the server pump and no later answer reaches the client. |
| `shutdown_stuck` | `proxy.py:1353` "Gets the upstream to exit once the client is gone" | a child that does not read its stdin blocks the client pump in a write; the pump never sees EOF and never arms the ladder, and the main thread waits for the child. |
| `kit_disowned` | `kit.py:2140` "is already wrapped in baton-proxy, but this kit did not do it" | a setup killed after the config and before the state file is told so by the next setup, of its own wrap. |

The batch is not the only way to the second: any line of the upstream that is JSON and
no object ends the pump in the same place, and one that is not UTF-8 ends it earlier.
Of the other three sentences section 5 has a theorem that names a condition under which
it is true: `UniqueIdsAnswerTheirCall`, `SessionsEndUnlessBlocked` with
`ShortSessionsEnd`, and `OnlyALostRecordDisowns`.

Smaller ones, seen while modelling and visible in the models, without a run of
their own:

- `proxy.py:1490` would close every open call, but a client pump that outlives
  the drain (`proxy.py:1491`) may still emit a start and track it: a dangling
  start. `CleanExitLeavesNothingOpen` therefore asks that both pumps be over.
- A listing whose result is malformed is popped, its count raises
  (`proxy.py:238`), and its start is never closed, where the changelog speaks of
  closing every call. `raised` holds these calls.
- Two pumps number under one lock and enqueue under another
  (`emitter.py:825`): events of *different* threads may arrive out of the order of
  their numbers. `OverflowDropsTheOldest` and `DeliversInOrder` claim the order
  for one thread only.
- `emitter.py:11` says that an overflow "drops the oldest event". `stop` puts its
  sentinel without `_enqueue_lock`, and it may go into the slot that a producer has
  just freed: the second put finds the queue full again and the *new* event is
  dropped (`refused`), after the oldest one.
- The bridge takes any message with the id of the request for its answer
  (`proxy.py:1643`). A `ping` or `roots/list` of the upstream's own under that id, on the
  stream of the POST, closes the call with an `end`, and if the stream brings nothing more
  the client waits for ever, where the module promises "never a hang" (`proxy.py:24`).
  `EveryRequestIsAnswered` and `EventsAgreeWithReplies` allow for this case and no other;
  `NoCollisionNoSilence` proves that without such a request every request is answered.
- `stop` gives its put and its join a timeout, and its `sink.close()` none
  (`emitter.py:390`). When the drain thread hangs in the write of a file, the close waits
  for the lock of the file's buffer, and the proxy does not exit. The first half of
  `StopReturns` is what the timeouts achieve, the second what else it takes.
- `config.py:10` promises "install-and-play" and "No env vars required". The
  default file is created 0600 by the first account that starts a proxy, so that
  the same default start fails on `open` for every other account, in the unguarded
  `emitter.start()`; so does any start whose event file cannot be opened, the default
  in a full or read-only `/tmp` among them: `OpenFails`. `sinks.py:98`, "Availability first", speaks of the
  `fchmod` only. `OnlyMistakesRefuse` counts a file that cannot be opened among the ways to be
  refused and cannot tell a guest's default file from another; no property here says
  that a start with nothing set succeeds, because it is not so.
- The guards on placeholders compare prefixes (`emitter.py:342`) and `urlparse`
  lowers the scheme (`sinks.py:313`): `HTTPS://` is a collector to one and not to
  the other. `config.py:17` says that placeholder-tagged events "must never leak to
  a remote collector"; `PlaceholderStaysHome` claims it of lower case.
- `run_http_proxy` (`proxy.py:1515`) "returns [...] 1 if the upstream is unreachable
  at startup": the bridge asks nothing of its upstream at startup and never
  returns 1.
- The poll of a rung is there so that no pid is signalled that is no longer the
  child's (`proxy.py:1392`), and it cannot be: between the poll and the signal the main
  thread may reap, and the pid may go to another process. `NoRungAfterTheWait` says how far
  it goes: a rung that polled in time signals once, be it a stranger; no rung begins later.
  And a SIGTERM or SIGKILL by another hand is reported as 0 once the ladder has begun (`proxy.py:1419`);
  `OwnSignals` of the run leaves these two numbers out.
- Comments on an open stream hold the bridge for ever (`transport_http.py:259`):
  `NeverHangs`, the sentence of the docstring, is only claimed of streams that
  fall quiet. Messages read before a stream fails are lost with it
  (`transport_http.py:233`), so an answer that had arrived may become an error.
- The id of a list request used again, with a cursor the second time, marks a
  partial page as a surface (`proxy.py:964`), and an upstream request with such an
  id makes the proxy forget the first page (`proxy.py:971`). Ids to which either
  may have happened are in `excused`.
- In project mode receipt says of a wrap that is gone that it "was edited or deleted
  by hand" (`kit.py:1683`), and setup says "changed or restored by hand since"
  (`kit.py:2004`), also when an uninstall of the kit's own was killed before it
  could remove the record. `EditsAreRealEdits` allows for it. After a killed setup
  receipt calls a live wrap "a trial that has already been ended" (`kit.py:1700`).
- The bridge keeps the first session id it is given (`transport_http.py:148`), also
  after a 404 for an expired session or a handshake it had to degrade. Such an upstream is
  not reached again until a restart; the client is answered each time, which is
  what `EveryRequestIsAnswered` and `RepliesAreConsistent` say.
- `_handle_injected_call` (`proxy.py:494`) is "the reply to a report the caller has
  already recorded", and is sent as well when recording it raised (`proxy.py:735`).
- A client that saves between the kit's read and write loses that save
  (`kit.py:2624`). `UnrelatedChangesAreKept` claims everything saved before the
  command began.

## 4. Fairness

Safety runs need none. For liveness:

- `StdioSession!FairSpec`: weak fairness of a pump *after* it has read something
  (`ClientStep`, `ServerStep`), and of the main thread. Threads of a running process
  are scheduled; every such step is a lock held briefly by the others or a call that
  returns. Nothing is assumed about the client, and the child need not exit. The write
  to the child is taken to return: when it does not is `UpstreamShutdown`'s
  subject. `UpstreamAnswers(c)`, strong fairness of `Answering(c)` for each call, says
  that the upstream answers what it was asked and that the pump gets to read it; strong,
  because the pump is busy with other messages in between. The conclusions
  (`EveryStartCloses`, `AnswersReachTheClient`) except an upstream that is gone
  and a dead pump.
- `Emitter!FairSpec`: weak fairness of the thread that holds `_enqueue_lock`
  (`HolderGoesOn`), of each thread that waits for it (`LockIsOffered(p)`) and of `stop`
  (`StopIsFair`). The steps of a producer do not block, and the put and the join of
  `stop` have a timeout. Its `sink.close()` has none: `CloseSink` is not enabled while a
  file is written, and nothing is claimed of it as long as that may go on. No fairness
  is assumed of the drain thread, whose sink may never return.
  In the run the other threads run out of events, and weak fairness of the wait is
  enough. For any number of events it is not: the lock is taken and released all the
  time, and Python promises no order among those that wait. `ProducersComeBack`
  therefore adds `LockIsGiven(p)`, strong fairness, in its statement.
- `HttpBridge!FairSpec`: weak fairness of the loop's own steps and of the socket
  timeout, which urllib applies to the connection and to each read. The upstream
  owes nothing.
- `UpstreamShutdown!FairSpec`: timers fire, threads run, a child does what its
  manners say, and SIGKILL kills. A child stuck in the kernel is excluded in the
  code's own comment.

## 5. What is proved

Each theorem but the seven of *Liveness* below is about the specification without
fairness, and each is about every value of its constants: every table size, number of
calls, set of ids, kinds and shapes, number of threads, events and sinks, pipe and
child, tools and requests, list of sinks, number of accounts, runs, kills, edits and
saves, and every schedule.

| module | theorem | states |
|---|---|---|
| `StdioSessionProofs` | `TypeCorrect` | `Spec => []TypeOK`, the bound of the table included |
| | `StartedCallsAreKept` | `Spec => []OneKeeper` |
| | `CallsCloseOnce` | `Spec => []OneTerminalPerCall` |
| | `ResponsesFindTheirCall` | `Spec => []AnswersMeetTheirCall` |
| | `AnswersCloseNoOlderCall` | `Spec => []AnswerNeverClosesAnOlderCall` |
| | `EvictionIsFair` | `Spec => EvictsTheOldest` |
| | `SessionImplementsLedger` | `Spec => ImplementsLedger` |
| | `CleanExitIsComplete` | `Spec => CleanExitLeavesNothingOpen` |
| | `UniqueIdsAnswerTheirCall` | `Spec => []EndsAnswerTheirCall`, if no id is used again and the upstream uses none of the client's |
| | `AnswersAreDelivered`, `StartsAreClosed` | `FairSpec => AnswersReachTheClient`, `FairSpec => EveryStartCloses` |
| `HttpBridgeProofs` | `TypeCorrect` | `Spec => []TypeOK` |
| | `LoopIsClean` | `Spec => []LoopClosesEveryCall` |
| | `RequestsAreAnswered` | `Spec => []EveryRequestIsAnswered` |
| | `NoCollisionNoSilence` | every request with an id is answered by the next line, if the upstream's own requests use none of the client's ids |
| | `RepliesAgree` | `Spec => []RepliesAreConsistent` |
| | `EventsAgree` | `Spec => []EventsAgreeWithReplies` |
| | `BridgeImplementsLedger` | `Spec => ImplementsLedger` |
| `EmitterProofs` | `Invariance`, `TypeCorrect` | `Spec => []IInv`, `Spec => []TypeOK` |
| | `EventsAreNeverTwice` | `Spec => []NoEventTwice` |
| | `OverflowIsOldest` | `Spec => []OverflowDropsTheOldest` |
| | `StopFlushes` | `Spec => []CleanStopFlushes` |
| | `IsolatedSinks` | `Spec => []SinksAreIsolated` |
| | `Refinement` | `Spec => DeliversInOrder` |
| | `EventsStayInOrder` | `Spec => []ThreadsKeepTheirOrder`: a sink sees the events of one thread by their numbers |
| | `StopComesBack`, `ProducersComeBack` | `FairSpec => StopReturns`: to the sink always, past it unless a file is being written; `FairSpec => ProducersNeverBlock` |
| `UpstreamShutdownProofs` | `Invariance`, `TypeCorrect` | `Spec => []IInv`, `Spec => []TypeOK` |
| | `LadderIsClimbedInOrder` | `Spec => []LadderInOrder` |
| | `LateTimersDoNothing` | `Spec => NoRungAfterTheWait`: no rung begins, and one that had begun signals once |
| | `VerdictIsKept` | `Spec => []VerdictIsTheUpstreams`, if no other hand sends SIGTERM or SIGKILL |
| | `ReadersAreOutlived` | `FairSpec => ReadersEndWithTheClient` |
| | `SessionsEndUnlessBlocked` | `FairSpec => ClientGoneEndsTheSession`, unless a child that does not read has filled its pipe |
| | `ShortSessionsEnd` | the same for any child, if the pipe holds all that the client sends |
| `SurfaceCaptureProofs` | `Invariance`, `TypeCorrect` | `Spec => []IInv`, `Spec => []TypeOK` |
| | `SnapshotsAreWhole` | `Spec => []SnapshotsAreSurfaces` |
| | `SurfacesAreCaptured` | `Spec => []NoSurfaceIsMissed` |
| | `SnapshotsAreSentOnce` | `Spec => []SurfacesAreSentOnce` |
| | `GoalsAreFollowed` | `Spec => []GoalsFollowTheListing` |
| `StartupProofs` | `Invariance`, `TypeCorrect` | `Spec => []IInv`, `Spec => []TypeOK` |
| | `NoSilentStart` | `Spec => []NothingIsSilent` |
| | `NoPlaceholderLeaves` | `Spec => []PlaceholderStaysHome`, of schemes in lower case |
| | `OnlyMistakesAreFatal` | `Spec => []OnlyMistakesRefuse`, an event file that cannot be opened counted as a reason |
| `TryKitProofs` | `Invariance`, `TypeCorrect` | `Spec => []IInv`, `Spec => []TypeOK` |
| | `OriginalsSurvive` | `Spec => []OriginalIsRecoverable` |
| | `EditsAreReal` | `Spec => []EditsAreRealEdits` |
| | `UninstallRestores` | `Spec => UninstallRestoresTheOriginal` |
| | `OthersStay` | `Spec => OthersAreKept` |
| | `ChangesStay` | `Spec => UnrelatedChangesAreKept` |
| | `OnlyALostRecordDisowns` | `Spec => []DisownsNoWrapOfItsOwn`, but for the kill of `kit_disowned` and a state file deleted by hand |

Assumptions: the limits are positive (`MaxPendingAssumption`, `EmitterAssumption`,
`SurfaceAssumption`),
the special values differ from the ordinary ones (`ProcessorAssumption`,
`EmitterAssumption`, `StartupAssumption`, that of `TryKit`), kinds, shapes, manners and
sinks are of the known ones. Each is evaluated by TLC in the runs. `VerdictIsKept`
assumes more, in its statement: `result` cannot tell the signals of the ladder
from the same signals sent by somebody else.

### The session

    IInv == TypeOK /\ pending \in Table(Ids, Calls) /\ Control /\ Kept /\ OneTerminalPerCall /\ Order

None of the invariants is inductive alone. That a call closed by `t_out` is not
closed again needs to know that what `t_out` popped is in nobody else's hands.
*Kept* says so: the call between start and `_track`, the table, the displaced
call, the popped call, the drained calls, those raised and those closed partition
the calls started. Each step moves a call from one part to another. *Table* says
that the table holds no id and no call twice and lists calls by age; that popping
an id takes out exactly one call, and that eviction takes the oldest, rest on it.
*Control* ties the program counters to the variables: which pc has a call in hand,
that calls not yet read have no event, that only a forwarded request is
unanswered, and that what the main thread drained is empty elsewhere. *Order* is
for reused ids: what the table holds under an id is the latest call tracked under
it, so that an answer to an earlier call pops that one or a younger one.

Two theorems need more. `CleanExitLeavesNothingOpen` is about a whole run: if both
pumps were over at the drain, nothing is open at the exit. *Settling* carries that from
the drain on: a started call is in the table, among the drained, raised, or closed by an
event that was delivered, and the sink is not closed before the drained calls are. For
`UniqueIdsAnswerTheirCall`, *Named* and *Distinct* say that a call, wherever it is, carries its own id and no other call
does; then *OwnAnswers*: what `t_out` popped is the call that the message answers.

### The bridge

    IInv == Core /\ OneTerminalPerCall /\ Replied /\ RepliesAreConsistent /\ Agreement
    Core == ProcessorInv /\ BridgeTypes /\ Control /\ Kept

One thread, so that *Kept* has fewer parts (in `_track`, in the table, popped,
raised, closed) and *Control* says more: at most the request at hand is in the
table, under its own id, and no longer once a message has answered it. It is why
`_track` never displaces or evicts here, and why the loop comes back with an
empty table. *Replied* counts what the client was given, place by place: nothing
for the request at hand before a message bears its id, and `responded` tells
exactly that; messages of the upstream only while these are handled; something for each
request before it that has an id. `RequestsAreAnswered` then says what that something
may be, an answer or a request of the upstream's own under one of `ServerIds`, and
`NoCollisionNoSilence` is its case without such ids.
*Agreement* is `EventsAgreeWithReplies` at every step and not only at the next line.
It needs what a popped call and the message at hand have to do with each other: the
message bears the id of the call, and one that bears it and pops nothing comes second.

`MessageProcessorProofs` has the lemmas about the sequence (`Without`, `Inserted`,
`Trimmed` keep it a table; what they remove and keep), those about each piece of a
handler, and *Effect*: all that a step of either transport may do to the events.
That no call is closed twice (`OneTerminalLemma`) and that a step is one of the
ledger (`LedgerStepLemma`) follow from *Effect* once, for both. No lemma there
mentions a thread.

### The emitter

    IInv == TypeOK /\ Control /\ Unique /\ Apart /\ Order /\ Overflow /\ Flush /\ FanOut

*Unique* and *Apart* say that a number names one event and that an event is in one
place: in a producer's hands, on its way to a sink, queued, delivered, failed,
dropped or refused, for each sink. *Order* follows the events of one thread from
its hands through the queue to the dropped. *Overflow* counts: what was dropped, and
the room that is being made, never exceed `_drop_count`; and until `stop` puts its
sentinel a freed slot is still free when its producer comes back, which is why
nothing is refused before. *Flush* says that what `stop` waits for is ahead of its
sentinel or already out. *FanOut* says that the sinks differ in the event at hand
only, and there by where the loop has got to.

`EventsStayInOrder` is what somebody who reads a sink may rely on. *InOrder* says that
what a sink got is older than what it has yet to get, thread by thread: the event
at hand, the queue, and what the threads still hold. The queue's part of it is *Order*.

### The surface

    IInv == Types /\ Unique /\ Paged /\ Captured /\ SurfacesAreSentOnce
              /\ SnapshotsAreSurfaces /\ Known /\ Placed /\ Ordered /\ Recorded /\ Calling

*Unique* follows an id: unless it is excused it is in one place, the client pump,
the upstream, the wire or the server pump. *Paged* is what that is for: a first page
under way is remembered and no other page is, whatever the two pumps do to the
table in between. *Captured* says that a whole listing is a surface the upstream had
and that what was hashed was sent, was lost, or is about to be one or the other.
*Known*: as long as the proxy does not know the server, no client has met it and no
list under way was asked by one that had.
*Types* says besides that nothing has been added to a listing before it is injected.
For the goals, each listing carries its *place* in what the upstream has said of a
tool. *Placed* and *Ordered*: places are right, and listings keep their order down
to what the client has seen. *Recorded*: the registry says what was listed at a
place that is neither older than what the client has seen nor younger than any
listing still to come. *Calling* takes that place into the call.

### Shutdown, start, kit

*Rungs* stacks the ladder: armed means that the pump is over and stdin closed,
`signalled` comes before a signal, the second signal only after the first or after
the child's end. *Waited* ties the pid, reaped or another process's by now, and
`returncode` to the main thread's place.

The start's invariant is one conjunct for each question: *Built*, how far the sinks
are; *Told*, what was said by then; *Guarded*, that no sink exists unless the guards
passed; *Reasoned*, what each refusal rests on.

The kit's invariant says of each file what may be in it whoever was killed when.
*Recorded*: the record fits the file it names, or an uninstall was killed, or other
hands were there. *BackedUp*: what the kit took from the config is in a backup.
*SettingUp*, *TurningOn* and *Uninstalling* carry what a command read to the
step that writes it. *Claims* keeps what was said to the person true until the
next command.

`OnlyALostRecordDisowns` adds *Owned*: a wrap in the config has its record in the state
file, in the hands of the command that is about to write it, or cut off by a kill
(`Torn`, which each command reports as unreadable); or the wrap is not the kit's.
One step breaks this, the kill in `open state` when there is no state file yet,
and one removes the record outright, `StateDeleted`; the theorem excludes these two and
no other.

### Liveness

`AnswersAreDelivered`, `StartsAreClosed`, `StopComesBack`, `ProducersComeBack` and the three
theorems about the end of a session are proved from the fairness of section 4, each
leads-to by the steps that may disturb it and the one that ends it:

- An answer is asked for, read into `t_out`'s hands, and written. A started call goes
  from `t_in` (`start`, `track`, `forward`) to the upstream, whose answer is read; or
  a reuse or an overflow has taken it out of the table, and it is in the hands
  of a pump that closes it. *Awaited* says that a call in the table is either on
  its way to the upstream or waits for an answer. *HomeAfterTheChild*: neither the main
  thread nor the server pump leaves while the child runs.
- `stop` goes from its put to its join to the sink, and from there on if no file is
  written for ever; a producer from its wait to the lock to its return. None of these
  steps needs the drain thread.
- The pump comes to the end of what the client sent, if each of its writes comes to an
  end; it arms the ladder. *Armed*: a ladder with a child that runs has a timer, or its
  SIGKILL is on the way. So the child ends and the main thread returns from its wait.

The prover knows nothing of ENABLED. Each of these theorems therefore has a hypothesis,
`ThreadsCanStep` or `StepsCanBeTaken`, which says that an action is enabled in a state in
which its guard is true; it follows from the form of the actions, whose primed variables
are all given values. TLC, which can evaluate ENABLED, has found each of them an invariant of
the bounds of the runs: of `session_messages` (153,678 states) and of `session_table` with
two ids (693,062), of `emitter` (319,157) and of `shutdown` (43,664). So were
*Named*, *Awaited*, *Owned* and the other strengthenings before they were proved.

### What is only model-checked

- `QuietStreamsEnd`: that the bridge leaves a stream which is not kept open by comments
  takes an induction over the messages that may still come, and the induction theorems
  of the library are out of these provers' reach.
- `ProducersNeverBlock` under the weak fairness of `Emitter!FairSpec` alone, for the
  same reason: it would take an induction over the events that the others still have.
- The enabledness facts above.

## 6. What is not modelled

- The sinks that a refused start leaves open until the process ends.
- Headers and protocol version of the HTTP client. Its session id shows in the model
  only by what a stale one leads to: a POST that fails.
- The layout of keys in a bucket, compression and batches of bodies, the text of
  a line: what a sink writes. Whether it succeeds is modelled.
- The report that the injected tool records, and the test that refuses one made
  before the call: the model has its answer, its rejection, and that it goes nowhere.
- The text that is injected, also into the instructions of an `initialize` result; that
  a listing is changed, and when, is modelled.
- `reveal` and the counts of `receipt`, which only read; unreadable configs; several
  definitions of one server; the recognition of the shapes an entry may have, but
  for whether it is one.
- The parsing of arguments, logging, and the environment of the child.
- Identity, scrubber, text extraction of errors, model text: pure functions over
  strings, or constants.

## 7. Plan

Done: every part with state is modelled and checked; its safety is proved, and the
liveness of both ends of the session, of the emitter and of the shutdown. Three of the
four sentences of the code that a run refutes have a theorem with a condition under which
they are true.

Left, in this order:

1. `HttpClient`: session id and the status of each POST as a module of its own,
   composed with the bridge loop.
2. The session composed with the emitter: a start that is delivered has its end
   delivered, or dropped, or behind it in the queue.

## 8. Running

    tlc -config MCStdioSession_table.cfg MCStdioSession.tla
    tlc -config Emitter.cfg Emitter.tla
    tlapm StdioSessionProofs.tla
    tlapm EmitterProofs.tla

and so on for `HttpBridgeProofs`, `UpstreamShutdownProofs`, `SurfaceCaptureProofs`,
`StartupProofs`, `TryKitProofs`, and `MessageProcessorProofs` with its lemmas.

Each `.cfg` says in its first lines what it is for. All runs finish in at most a
few minutes with two workers.
