-------------------------- MODULE UpstreamShutdown --------------------------
(***************************************************************************)
(* How a stdio session ends: the client closes the proxy's stdin, or sends *)
(* a line the client pump dies of, and on its way out the pump closes the  *)
(* child's stdin and arms two timers, SIGTERM then SIGKILL.  The main      *)
(* thread waits for the child all the while.  Only when that wait returns  *)
(* are the pending calls drained and the events flushed, so a wait that    *)
(* never returns loses them.                                               *)
(*                                                                         *)
(* The child is external: it may exit when it likes, with the status it    *)
(* likes, and its manners say what it does with its stdin and with SIGTERM.*)
(* SIGKILL it obeys: a child wedged in the kernel is out of scope, as in   *)
(* the code.  Its pid, once it is reaped, may become another process's.    *)
(***************************************************************************)
EXTENDS Integers

CONSTANTS
  PipeMax,      \* how many lines the pipe to the child's stdin holds
  NLines,       \* how many lines the client sends, at most
  Manners,      \* the manners a child may have, subsets of AllManners
  OwnCodes,     \* the exit codes a child ends with by itself
  OwnSignals    \* the signals it dies of by another hand than the proxy's

\* It reads its stdin; it exits on EOF there; it exits on SIGTERM.
AllManners == {"reads", "eof", "term"}
SIGTERM == 15
SIGKILL == 9

ASSUME ShutdownAssumption ==
  /\ PipeMax \in Nat \ {0}
  /\ NLines \in Nat
  /\ Manners \subseteq SUBSET AllManners
  /\ OwnCodes \subseteq Nat /\ OwnSignals \subseteq Nat \ {0}

VARIABLES
  client,      \* here, or gone: it has closed the proxy's stdin
  lines,       \* lines the client has sent
  tin,         \* the client pump: read, write, done
  pipe,        \* lines in the child's stdin pipe
  stdinOpen,   \* the proxy holds its end of that pipe open
  manners,     \* the manners of this child
  child,       \* running, zombie, reaped, or recycled: its pid is another process's
  status,      \* how the child ended: by itself, or by a signal of ours
  inbox,       \* signals the child was sent
  strangers,   \* signals sent to a process that had got its pid
  timer,       \* none, or where the rung is: it waits, has polled, is about to signal
  signalled,   \* _UpstreamShutdown.signalled
  returncode,  \* Popen.returncode is set
  main,        \* where run_proxy is
  result       \* what run_proxy returns

vars == <<client, lines, tin, pipe, stdinOpen, manners, child, status, inbox, strangers,
          timer, signalled, returncode, main, result>>

clientSide == <<client, lines, tin, pipe, stdinOpen, manners>>
process == <<child, status>>
ladder == <<inbox, strangers, timer, signalled>>
waiter == <<returncode, main, result>>

Init ==
  /\ client = "here"
  /\ lines = 0
  /\ tin = "read"
  /\ pipe = 0
  /\ stdinOpen = TRUE
  /\ manners \in Manners
  /\ child = "running"
  /\ status = [by |-> "itself", rc |-> 0]
  /\ inbox = {}
  /\ strangers = {}
  /\ timer = "none"
  /\ signalled = FALSE
  /\ returncode = FALSE
  /\ main = "wait"
  /\ result = 0

Alive == main # "exited"

-----------------------------------------------------------------------------
(* The client and the client pump.                                         *)

ClientSends ==
  /\ Alive /\ client = "here" /\ tin = "read" /\ lines < NLines
  /\ lines' = lines + 1
  /\ tin' = "write"
  /\ UNCHANGED <<client, pipe, stdinOpen, manners, process, ladder, waiter>>

\* The write blocks on a full pipe; it fails, and is logged, once the child is gone.
PumpWrites ==
  /\ Alive /\ tin = "write"
  /\ IF child = "running" THEN pipe < PipeMax /\ pipe' = pipe + 1 ELSE UNCHANGED pipe
  /\ tin' = "read"
  /\ UNCHANGED <<client, lines, stdinOpen, manners, process, ladder, waiter>>

ClientLeaves ==
  /\ Alive /\ client = "here"
  /\ client' = "gone"
  /\ UNCHANGED <<lines, tin, pipe, stdinOpen, manners, process, ladder, waiter>>

\* Mutants: the ladder is armed and the child's stdin left open, or the other way round.
StopArmsOnly ==
  /\ timer' = "exit grace"
  /\ tin' = "done"
  /\ UNCHANGED <<client, lines, pipe, stdinOpen, manners, process, inbox, strangers, signalled, waiter>>

StopClosesOnly ==
  /\ stdinOpen' = FALSE
  /\ tin' = "done"
  /\ UNCHANGED <<client, lines, pipe, manners, process, ladder, waiter>>

\* The pump on its way out: it closes the child's stdin and arms the ladder.
PumpStops ==
  /\ stdinOpen' = FALSE
  /\ timer' = "exit grace"
  /\ tin' = "done"
  /\ UNCHANGED <<client, lines, pipe, manners, process, inbox, strangers, signalled, waiter>>

\* EOF is the ordinary way out ...
PumpEnds == Alive /\ tin = "read" /\ client = "gone" /\ PumpStops

\* ... and a line that is not UTF-8, or nested too deep, the other one: it raises out
\* of the loop with the client still there.
PumpDies == Alive /\ tin = "read" /\ client = "here" /\ PumpStops

-----------------------------------------------------------------------------
(* The child.                                                              *)

ChildReads ==
  /\ child = "running" /\ "reads" \in manners /\ pipe > 0
  /\ pipe' = pipe - 1
  /\ UNCHANGED <<client, lines, tin, stdinOpen, manners, process, ladder, waiter>>

Ends(by, rc) ==
  /\ child' = "zombie"
  /\ status' = [by |-> by, rc |-> rc]
  /\ UNCHANGED <<clientSide, ladder, waiter>>

ChildExits(rc) == child = "running" /\ Ends("itself", rc)

ChildSeesEof ==
  /\ child = "running" /\ {"reads", "eof"} \subseteq manners
  /\ ~stdinOpen /\ pipe = 0
  /\ Ends("itself", 0)

ChildTermed ==
  /\ child = "running" /\ SIGTERM \in inbox /\ "term" \in manners
  /\ Ends("signal", -SIGTERM)

ChildKilled ==
  /\ child = "running" /\ SIGKILL \in inbox
  /\ Ends("signal", -SIGKILL)

-----------------------------------------------------------------------------
(* The ladder: two timers, each of which polls and then signals.           *)

\* Mutant: the timer signals without a poll.
GoesAhead(waiting, polled) ==
  /\ Alive /\ timer = waiting
  /\ timer' = polled
  /\ UNCHANGED <<clientSide, process, inbox, strangers, signalled, waiter>>

\* poll() is None as long as returncode is not set: wait() holds _waitpid_lock,
\* and poll() does not wait for it.
Polls(waiting, polled) ==
  /\ Alive /\ timer = waiting
  /\ timer' = IF returncode THEN "none" ELSE polled
  /\ UNCHANGED <<clientSide, process, inbox, strangers, signalled, waiter>>

\* What was polled may be over by now: the rung logs, and then says it signalled.
Claims(polled, sending) ==
  /\ Alive /\ timer = polled
  /\ signalled' = TRUE
  /\ timer' = sending
  /\ UNCHANGED <<clientSide, process, inbox, strangers, waiter>>

\* _signal_upstream: the process group of the pid, or the pid, whoever has it now.
Sends(sending, sig, next) ==
  /\ Alive /\ timer = sending
  /\ inbox' = IF child = "running" THEN inbox \cup {sig} ELSE inbox
  /\ strangers' = IF child = "recycled" THEN strangers \cup {sig} ELSE strangers
  /\ timer' = next
  /\ UNCHANGED <<clientSide, process, signalled, waiter>>

Terminate == Polls("exit grace", "may term")
ClaimTerm == Claims("may term", "terminating")
SendTerm == Sends("terminating", SIGTERM, "kill grace")
Kill == Polls("kill grace", "may kill")
ClaimKill == Claims("may kill", "killing")
SendKill == Sends("killing", SIGKILL, "none")

-----------------------------------------------------------------------------
(* The main thread.                                                        *)

\* The kernel gives wait() the status, and the pid to whoever asks for one ...
Reap ==
  /\ main = "wait" /\ child = "zombie"
  /\ child' = "reaped"
  /\ main' = "reaped"
  /\ UNCHANGED <<clientSide, status, ladder, returncode, result>>

PidRecycled ==
  /\ Alive /\ child = "reaped"
  /\ child' = "recycled"
  /\ UNCHANGED <<clientSide, status, ladder, waiter>>

\* ... and then returncode is set ...
WaitReturns ==
  /\ main = "reaped"
  /\ returncode' = TRUE
  /\ main' = "result"
  /\ UNCHANGED <<clientSide, process, ladder, result>>

\* Mutant: the status of the child is the status of the proxy, whatever it is.
ResultRaw ==
  /\ main = "result"
  /\ result' = status.rc
  /\ main' = "cancel"
  /\ UNCHANGED <<clientSide, process, ladder, returncode>>

\* ... and result() hides the signals of the ladder.
Result ==
  /\ main = "result"
  /\ result' = IF signalled /\ -status.rc \in {SIGTERM, SIGKILL} THEN 0 ELSE status.rc
  /\ main' = "cancel"
  /\ UNCHANGED <<clientSide, process, ladder, returncode>>

\* cancel() stops a timer that waits, and not one that has fired: that one arms
\* the next.
Cancel ==
  /\ main = "cancel"
  /\ timer' = IF timer \in {"exit grace", "kill grace"} THEN "none" ELSE timer
  /\ main' = "flush"
  /\ UNCHANGED <<clientSide, process, inbox, strangers, signalled, returncode, result>>

\* t_out.join, drain_pending and emitter.stop: see StdioSession and Emitter.
Flush ==
  /\ main = "flush"
  /\ main' = "exited"
  /\ UNCHANGED <<clientSide, process, ladder, returncode, result>>

Exited == main = "exited" /\ UNCHANGED vars

Child ==
  \/ ChildReads
  \/ \E rc \in OwnCodes \cup {-s : s \in OwnSignals} : ChildExits(rc)
  \/ ChildSeesEof \/ ChildTermed \/ ChildKilled
Pump == ClientSends \/ PumpWrites \/ ClientLeaves \/ PumpEnds \/ PumpDies
Ladder == Terminate \/ ClaimTerm \/ SendTerm \/ Kill \/ ClaimKill \/ SendKill
Main == Reap \/ WaitReturns \/ Result \/ Cancel \/ Flush

Next == Pump \/ Child \/ Ladder \/ Main \/ PidRecycled \/ Exited

Spec == Init /\ [][Next]_vars

\* Threads run, timers expire, and a child does what its manners say.
Fairness ==
  /\ WF_vars(PumpWrites) /\ WF_vars(PumpEnds)
  /\ WF_vars(Ladder) /\ WF_vars(Main)
  /\ WF_vars(ChildReads) /\ WF_vars(ChildSeesEof) /\ WF_vars(ChildTermed) /\ WF_vars(ChildKilled)

FairSpec == Spec /\ Fairness

-----------------------------------------------------------------------------
(* Correctness.                                                            *)

\* A rung that found no returncode, and has yet to signal.
Begun == {"may term", "terminating", "may kill", "killing"}

\* Every variable has its type.
TypeOK ==
  /\ client \in {"here", "gone"}
  /\ lines \in 0 .. NLines
  /\ tin \in {"read", "write", "done"}
  /\ pipe \in 0 .. PipeMax
  /\ stdinOpen \in BOOLEAN
  /\ manners \in Manners
  /\ child \in {"running", "zombie", "reaped", "recycled"}
  /\ status \in [by : {"itself", "signal"}, rc : Int]
  /\ inbox \subseteq {SIGTERM, SIGKILL}
  /\ strangers \subseteq {SIGTERM, SIGKILL}
  /\ timer \in {"none", "exit grace", "may term", "terminating", "kill grace", "may kill", "killing"}
  /\ signalled \in BOOLEAN
  /\ returncode \in BOOLEAN
  /\ main \in {"wait", "reaped", "result", "cancel", "flush", "exited"}
  /\ result \in Int

\* The client is told the upstream's own verdict, and never the signal of the
\* ladder: for a server that ignores EOF the ladder is the ordinary way out.
VerdictIsTheUpstreams ==
  main \in {"cancel", "flush", "exited"} =>
    result = IF status.by = "signal" THEN 0 ELSE status.rc

\* A session that lasts is never disturbed: no timer runs and no signal is sent before
\* the client pump is over, be the client gone or not, and the child has been given its
\* EOF; and no SIGKILL to a child that was not given the chance of a SIGTERM.
LadderInOrder ==
  /\ signalled \/ timer # "none" => tin = "done" /\ ~stdinOpen
  /\ timer \in {"kill grace", "may kill", "killing"} \/ SIGKILL \in inbox =>
       SIGTERM \in inbox \/ child # "running"

\* Once run_proxy has the status, a rung that has not polled yet finds it and does
\* nothing, and then nothing is signalled any more, neither the child nor a process
\* that got its pid.  A rung that had polled before still claims and signals, once,
\* and the pid may be a stranger's by then, which the poll is there to prevent.
NoRungAfterTheWait ==
  [][returncode =>
       /\ timer \notin Begun => timer' \notin Begun /\ UNCHANGED <<signalled, inbox, strangers>>
       /\ UNCHANGED strangers \/ timer' \notin Begun]_vars

\* Once the pump is over, or the client is gone and the child reads its stdin, the wait
\* ends, whatever the child makes of EOF and of SIGTERM, and the events are flushed.
ReadersEndWithTheClient ==
  tin = "done" \/ (client = "gone" /\ "reads" \in manners) ~> main = "exited"

\* The same of every child.  The docstring of _UpstreamShutdown: "Gets the
\* upstream to exit once the client is gone".
ClientGoneEndsTheSession == client = "gone" ~> main = "exited"
=============================================================================
