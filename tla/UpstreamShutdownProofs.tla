----------------------- MODULE UpstreamShutdownProofs -----------------------
(***************************************************************************)
(* The safety of the shutdown ladder for every pipe, every child and every *)
(* schedule of the pump, the timers, the child and the main thread, and    *)
(* its liveness, given that an action is enabled when its guard is true.   *)
(***************************************************************************)
EXTENDS UpstreamShutdown, TLAPS

\* The wait and the child: it is reaped by the wait, and returncode follows.
Waited ==
  /\ child \in {"reaped", "recycled"} <=> main # "wait"
  /\ returncode <=> main \in {"result", "cancel", "flush", "exited"}

\* The ladder is armed by the pump on its way out, and each rung stands on the one
\* below.
Rungs ==
  /\ tin = "done" => ~stdinOpen
  /\ tin # "done" => timer = "none" /\ ~signalled
  /\ inbox # {} \/ timer \in {"terminating", "kill grace", "may kill", "killing"} => signalled
  /\ timer \in {"kill grace", "may kill", "killing"} \/ SIGKILL \in inbox =>
       SIGTERM \in inbox \/ child # "running"

\* A child that the ladder ended was signalled by it.
Signalled ==
  status.by = "signal" => signalled /\ status.rc \in {-SIGTERM, -SIGKILL}

\* A status of the child's own, if no other hand sends the signals of the ladder.
OwnStatus ==
  status.by = "itself" => status.rc \in OwnCodes \cup {-s : s \in OwnSignals} \cup {0}

IInv == TypeOK /\ Waited /\ Rungs /\ Signalled

LEMMA InitLemma == Init => IInv /\ OwnStatus
<1> SUFFICES ASSUME Init PROVE IInv /\ OwnStatus
  OBVIOUS
<1>1. 0 \in 0 .. NLines /\ 0 \in 0 .. PipeMax
  BY ShutdownAssumption
<1>2. status.by = "itself" /\ status.rc = 0
  BY DEF Init
<1>3. TypeOK
  <2>1. status \in [by : {"itself", "signal"}, rc : Int]
    BY DEF Init
  <2>2. inbox \subseteq {SIGTERM, SIGKILL} /\ strangers \subseteq {SIGTERM, SIGKILL} /\ result \in Int
    BY DEF Init
  <2>3. QED
    BY <1>1, <2>1, <2>2 DEF Init, TypeOK
<1>4. Waited /\ Rungs
  BY DEF Init, Waited, Rungs
<1>5. Signalled /\ OwnStatus
  BY <1>2 DEF Signalled, OwnStatus
<1>6. QED
  BY <1>3, <1>4, <1>5 DEF IInv

LEMMA OwnTypes ==
  /\ \A c \in OwnCodes : c \in Int /\ c >= 0
  /\ \A s \in OwnSignals : s \in Int /\ s > 0 /\ -s \in Int
<1>1. OwnCodes \subseteq Nat /\ OwnSignals \subseteq Nat \ {0}
  BY ShutdownAssumption
<1>2. \A c \in Nat : c \in Int /\ c >= 0
  OBVIOUS
<1>3. \A s \in Nat \ {0} : s \in Int /\ s > 0 /\ -s \in Int
  OBVIOUS
<1>4. QED
  BY <1>1, <1>2, <1>3

LEMMA StepLemma == IInv /\ [Next]_vars => IInv'
<1> SUFFICES ASSUME IInv, [Next]_vars PROVE IInv'
  OBVIOUS
<1>a. /\ \A n \in 0 .. PipeMax : (n > 0 => n - 1 \in 0 .. PipeMax) /\ (n < PipeMax => n + 1 \in 0 .. PipeMax)
      /\ \A n \in 0 .. NLines : n < NLines => n + 1 \in 0 .. NLines
      /\ 0 \in Int /\ -SIGTERM \in Int /\ -SIGKILL \in Int
  BY ShutdownAssumption DEF SIGTERM, SIGKILL
<1>b. status.rc \in Int
  BY DEF IInv, TypeOK
<1> USE DEF IInv, TypeOK, Waited, Rungs, Signalled, clientSide, process, ladder, waiter
<1>1. CASE ClientSends
  <2>1. lines' \in 0 .. NLines
    BY <1>1, <1>a DEF ClientSends
  <2>2. QED
    BY <1>1, <2>1 DEF ClientSends
<1>2. CASE PumpWrites
  <2>1. pipe' \in 0 .. PipeMax
    BY <1>2, <1>a DEF PumpWrites
  <2>2. QED
    BY <1>2, <2>1 DEF PumpWrites
<1>3. CASE ClientLeaves
  <2>1. /\ client' = "gone"
        /\ UNCHANGED <<lines, tin, pipe, stdinOpen, manners, process, ladder, waiter>>
    BY <1>3 DEF ClientLeaves
  <2>2. TypeOK'
    BY <2>1
  <2>3. Waited' /\ Rungs' /\ Signalled'
    BY <2>1
  <2>4. QED
    BY <2>2, <2>3
<1>4. CASE PumpEnds \/ PumpDies
  <2>1. tin = "read" /\ PumpStops
    BY <1>4 DEF PumpEnds, PumpDies
  <2>2. QED
    BY <2>1 DEF PumpStops
<1>5. CASE ChildReads
  <2>1. pipe' \in 0 .. PipeMax
    BY <1>5, <1>a DEF ChildReads
  <2>2. QED
    BY <1>5, <2>1 DEF ChildReads
<1>6. ASSUME child = "running", NEW by \in {"itself", "signal"}, NEW rc \in Int, Ends(by, rc),
             by = "signal" => signalled /\ rc \in {-SIGTERM, -SIGKILL}
      PROVE  IInv'
  BY <1>6 DEF Ends
<1>7. ASSUME NEW rc \in OwnCodes \cup {-s : s \in OwnSignals}, ChildExits(rc) PROVE IInv'
  <2>1. rc \in Int
    <3>1. CASE rc \in OwnCodes
      BY <3>1, OwnTypes
    <3>2. CASE rc \in {-s : s \in OwnSignals}
      <4>1. PICK s \in OwnSignals : rc = -s
        BY <3>2
      <4>2. QED
        BY <4>1, OwnTypes
    <3>3. QED
      BY <3>1, <3>2
  <2>2. QED
    BY <1>6, <1>7, <2>1 DEF ChildExits
<1>8. CASE ChildSeesEof
  <2>1. child = "running" /\ Ends("itself", 0) /\ 0 \in Int
    BY <1>8, <1>a DEF ChildSeesEof
  <2>2. QED
    BY <1>6, <2>1
<1>9. CASE ChildTermed
  <2>1. child = "running" /\ Ends("signal", -SIGTERM) /\ -SIGTERM \in Int /\ signalled
    BY <1>9, <1>a DEF ChildTermed
  <2>2. QED
    BY <1>6, <2>1
<1>10. CASE ChildKilled
  <2>1. child = "running" /\ Ends("signal", -SIGKILL) /\ -SIGKILL \in Int /\ signalled
    BY <1>10, <1>a DEF ChildKilled
  <2>2. QED
    BY <1>6, <2>1
<1>11. CASE Terminate \/ Kill
  <2>1. CASE Terminate
    BY <2>1 DEF Terminate, Polls
  <2>2. CASE Kill
    BY <2>2 DEF Kill, Polls
  <2>3. QED
    BY <1>11, <2>1, <2>2
<1>12. CASE ClaimTerm \/ ClaimKill
  <2>1. CASE ClaimTerm
    BY <2>1 DEF ClaimTerm, Claims
  <2>2. CASE ClaimKill
    BY <2>2 DEF ClaimKill, Claims
  <2>3. QED
    BY <1>12, <2>1, <2>2
<1>13. CASE SendTerm
  BY <1>13 DEF SendTerm, Sends
<1>14. CASE SendKill
  BY <1>14 DEF SendKill, Sends
<1>15. CASE Reap
  BY <1>15 DEF Reap
<1>16. CASE PidRecycled
  BY <1>16 DEF PidRecycled
<1>17. CASE WaitReturns
  BY <1>17 DEF WaitReturns
<1>18. CASE Result
  <2>1. result' \in Int
    BY <1>18, <1>a, <1>b DEF Result
  <2>2. QED
    BY <1>18, <2>1 DEF Result
<1>19. CASE Cancel
  BY <1>19 DEF Cancel
<1>20. CASE Flush
  BY <1>20 DEF Flush
<1>21. CASE UNCHANGED vars
  BY <1>21, ZenonT(40) DEF vars
<1>22. QED
  BY <1>1, <1>2, <1>3, <1>4, <1>5, <1>7, <1>8, <1>9, <1>10, <1>11, <1>12, <1>13, <1>14, <1>15,
     <1>16, <1>17, <1>18, <1>19, <1>20, <1>21 DEF Next, Pump, Child, Ladder, Main, Exited

\* Every reachable state satisfies the inductive invariant.
THEOREM Invariance == Spec => []IInv
<1>1. Init => IInv
  BY InitLemma
<1>2. QED
  BY <1>1, StepLemma, PTL DEF Spec

\* Every variable of the shutdown keeps its type; the pipe never overfills.
THEOREM TypeCorrect == Spec => []TypeOK
<1>1. IInv => TypeOK
  BY DEF IInv
<1>2. QED
  BY <1>1, Invariance, PTL

\* No timer and no signal before the pump is over and the child has its EOF, and no
\* SIGKILL to a child that had no SIGTERM.
THEOREM LadderIsClimbedInOrder == Spec => []LadderInOrder
<1>1. IInv => LadderInOrder
  BY DEF IInv, Rungs, LadderInOrder
<1>2. QED
  BY <1>1, Invariance, PTL

\* Once the status is known a rung that has not polled does nothing, and one that has
\* signals once at most, be it the child or a stranger.
THEOREM LateTimersDoNothing == Spec => NoRungAfterTheWait
<1> DEFINE Quiet == /\ timer \notin Begun => timer' \notin Begun /\ UNCHANGED <<signalled, inbox, strangers>>
                    /\ UNCHANGED strangers \/ timer' \notin Begun
<1>1. IInv /\ [Next]_vars => [returncode => Quiet]_vars
  <2> SUFFICES ASSUME IInv, Next, returncode PROVE Quiet
    OBVIOUS
  <2>1. child \in {"reaped", "recycled"} /\ main \in {"result", "cancel", "flush", "exited"}
    BY DEF IInv, Waited
  <2>2. ASSUME UNCHANGED ladder PROVE Quiet
    BY <2>2 DEF ladder
  <2>3. CASE Pump
    <3>1. CASE PumpEnds \/ PumpDies
      BY <3>1 DEF PumpEnds, PumpDies, PumpStops, Begun
    <3>2. CASE ClientSends \/ PumpWrites \/ ClientLeaves
      BY <2>2, <3>2 DEF ClientSends, PumpWrites, ClientLeaves
    <3>3. QED
      BY <2>3, <3>1, <3>2 DEF Pump
  <2>4. CASE Child
    BY <2>1, <2>4 DEF Child, ChildReads, ChildExits, ChildSeesEof, ChildTermed, ChildKilled
  <2>5. CASE Ladder
    <3>1. CASE Terminate \/ Kill
      BY <3>1 DEF Terminate, Kill, Polls, Begun
    <3>2. CASE ClaimTerm \/ ClaimKill
      BY <3>2 DEF ClaimTerm, ClaimKill, Claims, Begun
    <3>3. CASE SendTerm \/ SendKill
      BY <3>3 DEF SendTerm, SendKill, Sends, Begun
    <3>4. QED
      BY <2>5, <3>1, <3>2, <3>3 DEF Ladder
  <2>6. CASE Main
    <3>1. CASE Reap \/ WaitReturns \/ Result \/ Flush
      BY <2>2, <3>1 DEF Reap, WaitReturns, Result, Flush
    <3>2. CASE Cancel
      BY <3>2 DEF Cancel, Begun
    <3>3. QED
      BY <2>6, <3>1, <3>2 DEF Main
  <2>7. CASE PidRecycled \/ Exited
    BY <2>2, <2>7 DEF PidRecycled, Exited, vars, ladder
  <2>8. QED
    BY <2>3, <2>4, <2>5, <2>6, <2>7 DEF Next
<1>2. QED
  BY <1>1, Invariance, PTL DEF Spec, NoRungAfterTheWait

LEMMA OwnStatusLemma == IInv /\ OwnStatus /\ [Next]_vars => OwnStatus'
<1> SUFFICES ASSUME IInv, OwnStatus, [Next]_vars PROVE OwnStatus'
  OBVIOUS
<1>1. ASSUME UNCHANGED status PROVE OwnStatus'
  BY <1>1 DEF OwnStatus
<1>2. CASE Child
  BY <1>1, <1>2 DEF Child, ChildReads, ChildExits, ChildSeesEof, ChildTermed, ChildKilled, Ends, process, OwnStatus
<1>3. CASE Pump
  BY <1>1, <1>3 DEF Pump, ClientSends, PumpWrites, ClientLeaves, PumpEnds, PumpDies, PumpStops, process
<1>4. CASE Ladder
  BY <1>1, <1>4 DEF Ladder, Terminate, ClaimTerm, SendTerm, Kill, ClaimKill, SendKill, Polls, Claims, Sends, process
<1>5. CASE Main
  BY <1>1, <1>5 DEF Main, Reap, WaitReturns, Result, Cancel, Flush, process
<1>6. CASE PidRecycled \/ UNCHANGED vars
  BY <1>1, <1>6 DEF PidRecycled, vars
<1>7. QED
  BY <1>2, <1>3, <1>4, <1>5, <1>6 DEF Next, Exited

LEMMA VerdictLemma ==
  ASSUME OwnSignals \cap {SIGTERM, SIGKILL} = {},
         IInv, OwnStatus, VerdictIsTheUpstreams, [Next]_vars
  PROVE  VerdictIsTheUpstreams'
<1>1. ASSUME UNCHANGED <<status, result>>, main' \in {"cancel", "flush", "exited"} => main \in {"cancel", "flush", "exited"}
      PROVE  VerdictIsTheUpstreams'
  BY <1>1 DEF VerdictIsTheUpstreams
<1>2. CASE Result
  <2>1. status \in [by : {"itself", "signal"}, rc : Int] /\ UNCHANGED status
        /\ result' = IF signalled /\ -status.rc \in {SIGTERM, SIGKILL} THEN 0 ELSE status.rc
    BY <1>2 DEF Result, process, IInv, TypeOK
  <2>2. CASE status.by = "signal"
    BY <2>1, <2>2 DEF IInv, Signalled, VerdictIsTheUpstreams, SIGTERM, SIGKILL
  <2>3. CASE status.by = "itself"
    <3>1. -status.rc \notin {SIGTERM, SIGKILL}
      <4>1. CASE status.rc \in OwnCodes \cup {0}
        <5>1. status.rc \in Int /\ status.rc >= 0
          BY <4>1, OwnTypes
        <5>2. \A n \in Int : n >= 0 => -n # 15 /\ -n # 9
          OBVIOUS
        <5>3. QED
          BY <5>1, <5>2 DEF SIGTERM, SIGKILL
      <4>2. CASE status.rc \in {-s : s \in OwnSignals}
        <5>1. PICK s \in OwnSignals : status.rc = -s
          BY <4>2
        <5>2. s \in Nat /\ s \notin {SIGTERM, SIGKILL}
          BY OwnTypes
        <5>3. -status.rc = s
          BY <5>1, <5>2
        <5>4. QED
          BY <5>2, <5>3
      <4>3. QED
        BY <2>3, <4>1, <4>2 DEF OwnStatus
    <3>2. QED
      BY <2>1, <2>3, <3>1 DEF VerdictIsTheUpstreams
  <2>4. QED
    BY <2>1, <2>2, <2>3
<1>3. CASE Child
  <2>1. main = "wait"
    BY <1>3 DEF Child, ChildReads, ChildExits, ChildSeesEof, ChildTermed, ChildKilled, IInv, Waited, TypeOK
  <2>2. UNCHANGED main
    BY <1>3 DEF Child, ChildReads, ChildExits, ChildSeesEof, ChildTermed, ChildKilled, Ends, waiter
  <2>3. QED
    BY <2>1, <2>2 DEF VerdictIsTheUpstreams
<1>4. CASE Pump
  BY <1>1, <1>4 DEF Pump, ClientSends, PumpWrites, ClientLeaves, PumpEnds, PumpDies, PumpStops, process, waiter
<1>5. CASE Ladder
  BY <1>1, <1>5 DEF Ladder, Terminate, ClaimTerm, SendTerm, Kill, ClaimKill, SendKill, Polls, Claims, Sends, process, waiter
<1>6. CASE Reap \/ WaitReturns \/ Cancel \/ Flush \/ PidRecycled
  BY <1>1, <1>6 DEF Reap, WaitReturns, Cancel, Flush, PidRecycled, process, waiter
<1>7. CASE UNCHANGED vars
  BY <1>1, <1>7 DEF vars
<1>8. QED
  BY <1>2, <1>3, <1>4, <1>5, <1>6, <1>7 DEF Next, Main, PidRecycled, Exited

\* The client is told the upstream's own verdict and never the signal of the ladder,
\* provided that no other hand sends SIGTERM or SIGKILL: result() cannot tell.
THEOREM VerdictIsKept ==
  ASSUME OwnSignals \cap {SIGTERM, SIGKILL} = {}
  PROVE  Spec => []VerdictIsTheUpstreams
<1>1. Init => OwnStatus /\ VerdictIsTheUpstreams
  BY InitLemma DEF Init, VerdictIsTheUpstreams
<1>2. IInv /\ OwnStatus /\ VerdictIsTheUpstreams /\ [Next]_vars => OwnStatus' /\ VerdictIsTheUpstreams'
  BY OwnStatusLemma, VerdictLemma
<1>3. QED
  BY <1>1, <1>2, Invariance, PTL DEF Spec

-----------------------------------------------------------------------------
(* Liveness, given that each action is enabled when its guard is true: the   *)
(* prover cannot reason about ENABLED, and TLC can.                          *)

StepsCanBeTaken ==
  /\ Alive /\ tin = "write" /\ (child # "running" \/ pipe < PipeMax) => ENABLED <<PumpWrites>>_vars
  /\ Alive /\ tin = "read" /\ client = "gone" => ENABLED <<PumpEnds>>_vars
  /\ child = "running" /\ "reads" \in manners /\ pipe > 0 => ENABLED <<ChildReads>>_vars
  /\ Alive /\ timer # "none" => ENABLED <<Ladder>>_vars
  /\ child = "running" /\ SIGKILL \in inbox => ENABLED <<ChildKilled>>_vars
  /\ Alive /\ (main # "wait" \/ child = "zombie") => ENABLED <<Main>>_vars

\* Once armed, the ladder stands until it has sent its last signal, or has nobody to
\* send it to.
Armed == tin = "done" /\ child = "running" => timer # "none" \/ SIGKILL \in inbox

\* A line that the pump cannot write yet.
Blocked == tin = "write" /\ child = "running" /\ pipe = PipeMax

\* Every step keeps the ladder armed.
LEMMA ArmedLemma == IInv /\ Armed /\ [Next]_vars => Armed'
<1> SUFFICES ASSUME IInv, Armed, [Next]_vars PROVE Armed'
  OBVIOUS
<1>0. /\ child = "running" => ~returncode /\ main = "wait"
      /\ child \in {"running", "zombie", "reaped", "recycled"}
  BY DEF IInv, TypeOK, Waited
<1> USE DEF Armed, clientSide, process, ladder, waiter
<1>1. CASE Pump
  BY <1>1 DEF Pump, ClientSends, PumpWrites, ClientLeaves, PumpEnds, PumpDies, PumpStops
<1>2. CASE Child
  BY <1>2 DEF Child, ChildReads, ChildExits, ChildSeesEof, ChildTermed, ChildKilled, Ends
<1>3. CASE Ladder
  BY <1>0, <1>3 DEF Ladder, Terminate, ClaimTerm, SendTerm, Kill, ClaimKill, SendKill, Polls, Claims, Sends
<1>4. CASE Main
  BY <1>0, <1>4 DEF Main, Reap, WaitReturns, Result, Cancel, Flush
<1>5. CASE PidRecycled \/ UNCHANGED vars
  BY <1>5 DEF PidRecycled, vars
<1>6. QED
  BY <1>1, <1>2, <1>3, <1>4, <1>5 DEF Next, Exited

\* After the client has gone the pump only goes on to its end.
LEMMA PumpStepsLemma ==
  ASSUME IInv, client = "gone"
  PROVE  /\ [Next]_vars => /\ client' = "gone" /\ manners' = manners
                           /\ tin = "read" => tin' \in {"read", "done"}
                           /\ tin = "write" => tin' \in {"write", "read"}
                           /\ tin = "done" => tin' = "done"
                           /\ tin = "write" /\ ~Blocked => ~(tin' = "write" /\ Blocked')
         /\ tin \in {"read", "write", "done"}
         /\ tin = "write" /\ PumpWrites => tin' = "read"
         /\ PumpEnds => tin' = "done"
         /\ Blocked /\ ChildReads => ~Blocked'
         /\ tin = "write" /\ ~Blocked => child # "running" \/ pipe < PipeMax
         /\ Blocked => child = "running" /\ pipe > 0
<1>0. /\ pipe \in 0 .. PipeMax /\ PipeMax \in Nat \ {0}
      /\ tin \in {"read", "write", "done"}
      /\ child \in {"running", "zombie", "reaped", "recycled"}
  BY ShutdownAssumption DEF IInv, TypeOK
<1>1. pipe \in Nat /\ pipe <= PipeMax /\ PipeMax > 0
  BY <1>0
<1> USE DEF clientSide, process, ladder, waiter
<1>2. Pump => /\ client' = "gone" /\ manners' = manners
              /\ \/ tin = "write" /\ tin' = "read"
                 \/ tin = "read" /\ tin' = "done"
  <2>1. ~ClientSends /\ ~ClientLeaves /\ ~PumpDies
    BY DEF ClientSends, ClientLeaves, PumpDies
  <2>2. QED
    BY <2>1 DEF Pump, PumpWrites, PumpEnds, PumpStops
<1>3. Child \/ Ladder \/ Main \/ PidRecycled \/ Exited \/ UNCHANGED vars
      => /\ UNCHANGED <<client, manners, tin>>
         /\ child = "running" \/ child' # "running"
         /\ pipe' = pipe \/ pipe' = pipe - 1
  BY <1>0 DEF Child, ChildReads, ChildExits, ChildSeesEof, ChildTermed, ChildKilled, Ends, Ladder,
              Terminate, ClaimTerm, SendTerm, Kill, ClaimKill, SendKill, Polls, Claims, Sends, Main, Reap, WaitReturns, Result, Cancel,
              Flush, PidRecycled, Exited, vars
<1>4. ASSUME pipe' = pipe \/ pipe' = pipe - 1, pipe # PipeMax PROVE pipe' # PipeMax
  BY <1>1, <1>4
<1>5. ChildReads => pipe' # PipeMax
  BY <1>1 DEF ChildReads
<1>6. tin = "write" /\ ~Blocked => child # "running" \/ pipe < PipeMax
  <2>1. pipe # PipeMax => pipe < PipeMax
    BY <1>0
  <2>2. QED
    BY <2>1 DEF Blocked
<1>7. Blocked => child = "running" /\ pipe > 0
  BY <1>1 DEF Blocked
<1>8. [Next]_vars => Pump \/ (Child \/ Ladder \/ Main \/ PidRecycled \/ Exited \/ UNCHANGED vars)
  BY DEF Next
<1>9. Blocked' => child' = "running" /\ pipe' = PipeMax
  BY DEF Blocked
<1>10. tin = "write" /\ ~Blocked => child # "running" \/ pipe # PipeMax
  BY DEF Blocked
<1>11. PumpWrites => tin' = "read"
  BY DEF PumpWrites
<1>12. PumpEnds => tin' = "done"
  BY DEF PumpEnds, PumpStops
<1>13. ASSUME [Next]_vars, tin = "write", ~Blocked PROVE ~(tin' = "write" /\ Blocked')
  <2>1. CASE Pump
    BY <1>2, <1>13, <2>1
  <2>2. CASE ~Pump
    BY <1>3, <1>4, <1>8, <1>9, <1>10, <1>13, <2>2
  <2>3. QED
    BY <2>1, <2>2
<1>14. ASSUME [Next]_vars
       PROVE  /\ client' = "gone" /\ manners' = manners
              /\ tin = "read" => tin' \in {"read", "done"}
              /\ tin = "write" => tin' \in {"write", "read"}
              /\ tin = "done" => tin' = "done"
  BY <1>2, <1>3, <1>8, <1>14
<1>15. QED
  BY <1>0, <1>5, <1>6, <1>7, <1>9, <1>11, <1>12, <1>13, <1>14

\* A pump that is over stays over.
LEMMA OverStaysLemma == tin = "done" /\ [Next]_vars => tin' = "done"
<1> SUFFICES ASSUME tin = "done", [Next]_vars PROVE tin' = "done"
  OBVIOUS
<1> USE DEF clientSide
<1>1. ~Pump \/ UNCHANGED tin
  BY DEF Pump, ClientSends, PumpWrites, ClientLeaves, PumpEnds, PumpDies
<1>2. CASE Child
  BY <1>2 DEF Child, ChildReads, ChildExits, ChildSeesEof, ChildTermed, ChildKilled, Ends
<1>3. CASE Ladder
  BY <1>3 DEF Ladder, Terminate, ClaimTerm, SendTerm, Kill, ClaimKill, SendKill, Polls, Claims, Sends
<1>4. CASE Main \/ PidRecycled
  BY <1>4 DEF Main, Reap, WaitReturns, Result, Cancel, Flush, PidRecycled
<1>5. CASE UNCHANGED vars
  BY <1>5 DEF vars
<1>6. QED
  BY <1>1, <1>2, <1>3, <1>4, <1>5 DEF Next, Exited

\* The rungs of the ladder follow one another for as long as the child runs.
LEMMA RungStepsLemma ==
  ASSUME IInv, Armed, tin = "done", child = "running"
  PROVE  /\ \/ timer \in {"exit grace", "may term", "terminating", "kill grace", "may kill", "killing"}
            \/ SIGKILL \in inbox
         /\ [Next]_vars =>
              /\ timer = "exit grace" => timer' \in {"exit grace", "may term"}
              /\ timer = "may term" => timer' \in {"may term", "terminating"}
              /\ timer = "terminating" => timer' \in {"terminating", "kill grace"}
              /\ timer = "kill grace" => timer' \in {"kill grace", "may kill"}
              /\ timer = "may kill" => timer' \in {"may kill", "killing"}
              /\ timer = "killing" => timer' = "killing" \/ SIGKILL \in inbox' \/ child' # "running"
              /\ SIGKILL \in inbox => SIGKILL \in inbox'
         /\ Ladder =>
              /\ timer = "exit grace" => timer' = "may term"
              /\ timer = "may term" => timer' = "terminating"
              /\ timer = "terminating" => timer' = "kill grace"
              /\ timer = "kill grace" => timer' = "may kill"
              /\ timer = "may kill" => timer' = "killing"
              /\ timer = "killing" => timer' # "killing"
         /\ ChildKilled => child' # "running"
<1>0. ~returncode /\ main = "wait"
  BY DEF IInv, TypeOK, Waited
<1>1. Ladder => \/ timer = "exit grace" /\ timer' = "may term" /\ UNCHANGED inbox
                \/ timer = "may term" /\ timer' = "terminating" /\ UNCHANGED inbox
                \/ timer = "terminating" /\ timer' = "kill grace" /\ inbox' = inbox \cup {SIGTERM}
                \/ timer = "kill grace" /\ timer' = "may kill" /\ UNCHANGED inbox
                \/ timer = "may kill" /\ timer' = "killing" /\ UNCHANGED inbox
                \/ timer = "killing" /\ timer' = "none" /\ inbox' = inbox \cup {SIGKILL}
  BY <1>0 DEF Ladder, Terminate, ClaimTerm, SendTerm, Kill, ClaimKill, SendKill, Polls, Claims, Sends
<1>2. Pump => UNCHANGED <<timer, inbox>>
  BY DEF Pump, ClientSends, PumpWrites, ClientLeaves, PumpEnds, PumpDies, ladder
<1>3. Child => UNCHANGED <<timer, inbox>>
  BY DEF Child, ChildReads, ChildExits, ChildSeesEof, ChildTermed, ChildKilled, Ends, ladder
<1>4. ~Main /\ ~PidRecycled
  BY <1>0 DEF Main, Reap, WaitReturns, Result, Cancel, Flush, PidRecycled
<1>5. UNCHANGED vars \/ Exited => UNCHANGED <<timer, inbox>>
  BY DEF vars, Exited
<1>6. ChildKilled => child' # "running"
  BY DEF ChildKilled, Ends
<1>7. \/ timer \in {"exit grace", "may term", "terminating", "kill grace", "may kill", "killing"}
      \/ SIGKILL \in inbox
  BY DEF Armed, IInv, TypeOK
<1>8. [Next]_vars => Ladder \/ UNCHANGED <<timer, inbox>>
  BY <1>2, <1>3, <1>4, <1>5 DEF Next
<1>9. QED
  BY <1>1, <1>6, <1>7, <1>8

\* Once the child is gone the main thread goes home.
LEMMA MainStepsLemma ==
  ASSUME IInv, child # "running"
  PROVE  /\ main \in {"wait", "reaped", "result", "cancel", "flush", "exited"}
         /\ main = "wait" => child = "zombie"
         /\ [Next]_vars =>
              /\ child' # "running"
              /\ main = "wait" => main' \in {"wait", "reaped"}
              /\ main = "reaped" => main' \in {"reaped", "result"}
              /\ main = "result" => main' \in {"result", "cancel"}
              /\ main = "cancel" => main' \in {"cancel", "flush"}
              /\ main = "flush" => main' \in {"flush", "exited"}
         /\ Main =>
              /\ main = "wait" => main' = "reaped"
              /\ main = "reaped" => main' = "result"
              /\ main = "result" => main' = "cancel"
              /\ main = "cancel" => main' = "flush"
              /\ main = "flush" => main' = "exited"
<1>0. /\ main \in {"wait", "reaped", "result", "cancel", "flush", "exited"}
      /\ child \in {"running", "zombie", "reaped", "recycled"}
      /\ main = "wait" => child \notin {"reaped", "recycled"}
  BY DEF IInv, TypeOK, Waited
<1>1. Main => /\ \/ main = "wait" /\ main' = "reaped"
                 \/ main = "reaped" /\ main' = "result"
                 \/ main = "result" /\ main' = "cancel"
                 \/ main = "cancel" /\ main' = "flush"
                 \/ main = "flush" /\ main' = "exited"
              /\ child' \in {child, "reaped"}
  BY DEF Main, Reap, WaitReturns, Result, Cancel, Flush, process
<1>2. Pump => UNCHANGED <<main, child>>
  BY DEF Pump, ClientSends, PumpWrites, ClientLeaves, PumpEnds, PumpDies, PumpStops, process, waiter
<1>3. ~Child
  BY DEF Child, ChildReads, ChildExits, ChildSeesEof, ChildTermed, ChildKilled
<1>4. Ladder => UNCHANGED <<main, child>>
  BY DEF Ladder, Terminate, ClaimTerm, SendTerm, Kill, ClaimKill, SendKill, Polls, Claims, Sends,
         process, waiter
<1>5. UNCHANGED vars \/ Exited => UNCHANGED <<main, child>>
  BY DEF vars, Exited
<1>6. PidRecycled => main' = main /\ child' = "recycled"
  BY DEF PidRecycled, waiter
<1>7. [Next]_vars => Main \/ UNCHANGED <<main, child>> \/ (main' = main /\ child' = "recycled")
  BY <1>2, <1>3, <1>4, <1>5, <1>6 DEF Next
<1>8. QED
  BY <1>0, <1>1, <1>7

\* Once the pump is over, whatever ended it, the wait for any child ends.
LEMMA PumpOverEndsTheSession ==
  FairSpec /\ []StepsCanBeTaken => (tin = "done" ~> main = "exited")
<1> DEFINE Running == child = "running"
           Over == tin = "done"
           ExitGrace == timer = "exit grace"
           MayTerm == timer = "may term"
           Terminating == timer = "terminating"
           KillGrace == timer = "kill grace"
           MayKill == timer = "may kill"
           Killing == timer = "killing"
           Shot == SIGKILL \in inbox
           Waiting == main = "wait"
           Reaped == main = "reaped"
           Resulting == main = "result"
           Cancelling == main = "cancel"
           Flushing == main = "flush"
           Home == main = "exited"
<1>1. Init => Armed
  BY DEF Init, Armed
<1>2. Over /\ [Next]_vars => Over'
  BY OverStaysLemma
<1>3. IInv /\ Armed /\ Over /\ Running =>
        /\ ExitGrace \/ MayTerm \/ Terminating \/ KillGrace \/ MayKill \/ Killing \/ Shot
        /\ [Next]_vars => /\ ExitGrace => ExitGrace' \/ MayTerm'
                          /\ MayTerm => MayTerm' \/ Terminating'
                          /\ Terminating => Terminating' \/ KillGrace'
                          /\ KillGrace => KillGrace' \/ MayKill'
                          /\ MayKill => MayKill' \/ Killing'
                          /\ Killing => Killing' \/ Shot' \/ ~Running'
                          /\ Shot => Shot'
        /\ <<Ladder>>_vars => /\ ExitGrace => MayTerm'
                              /\ MayTerm => Terminating'
                              /\ Terminating => KillGrace'
                              /\ KillGrace => MayKill'
                              /\ MayKill => Killing'
                              /\ Killing => ~Killing'
        /\ <<ChildKilled>>_vars => ~Running'
  BY RungStepsLemma
<1>4. StepsCanBeTaken /\ ~Home =>
        /\ ExitGrace \/ MayTerm \/ Terminating \/ KillGrace \/ MayKill \/ Killing => ENABLED <<Ladder>>_vars
        /\ Running /\ Shot => ENABLED <<ChildKilled>>_vars
  BY DEF StepsCanBeTaken, Alive
<1>5. IInv /\ ~Running =>
        /\ Waiting \/ Reaped \/ Resulting \/ Cancelling \/ Flushing \/ Home
        /\ [Next]_vars => /\ ~Running'
                          /\ Waiting => Waiting' \/ Reaped'
                          /\ Reaped => Reaped' \/ Resulting'
                          /\ Resulting => Resulting' \/ Cancelling'
                          /\ Cancelling => Cancelling' \/ Flushing'
                          /\ Flushing => Flushing' \/ Home'
        /\ <<Main>>_vars => /\ Waiting => Reaped'
                            /\ Reaped => Resulting'
                            /\ Resulting => Cancelling'
                            /\ Cancelling => Flushing'
                            /\ Flushing => Home'
  BY MainStepsLemma
<1>6. IInv /\ StepsCanBeTaken /\ ~Running /\ ~Home => ENABLED <<Main>>_vars
  BY MainStepsLemma DEF StepsCanBeTaken, Alive
<1>7. (Over ~> Home) => (tin = "done" ~> main = "exited")
  OBVIOUS
<1> HIDE DEF Running, Over, ExitGrace, MayTerm, Terminating, KillGrace, MayKill, Killing, Shot,
             Waiting, Reaped, Resulting, Cancelling, Flushing, Home
<1>8. Spec => []IInv /\ []Armed
  BY <1>1, ArmedLemma, Invariance, PTL DEF Spec
<1>9. Spec /\ WF_vars(Ladder) /\ WF_vars(ChildKilled) /\ []StepsCanBeTaken
      => (Over ~> Home \/ ~Running)
  BY <1>2, <1>3, <1>4, <1>8, PTL DEF Spec
<1>10. Spec /\ WF_vars(Main) /\ []StepsCanBeTaken => (~Running ~> Home)
  BY <1>5, <1>6, <1>8, PTL DEF Spec
<1>11. Spec /\ []StepsCanBeTaken /\ Fairness => (Over ~> Home)
  BY <1>9, <1>10, PTL DEF Fairness
<1>12. QED
  BY <1>7, <1>11 DEF FairSpec

\* Once the client is gone the session ends, unless the pump's write is blocked for good:
\* if every child that fills its pipe reads it.
THEOREM SessionsEndUnlessBlocked ==
  FairSpec /\ []StepsCanBeTaken /\ [](Blocked => "reads" \in manners) => ClientGoneEndsTheSession
<1> DEFINE Reader == "reads" \in manners
           Gone == client = "gone"
           Reading == tin = "read"
           Writing == tin = "write"
           Over == tin = "done"
           Stuck == Blocked
           Home == main = "exited"
<1>1. IInv /\ Gone /\ [Next]_vars =>
        /\ Gone'
        /\ Reading => Reading' \/ Over'
        /\ Writing => Writing' \/ Reading'
        /\ Over => Over'
        /\ Writing /\ ~Stuck => ~(Writing' /\ Stuck')
        /\ Reading \/ Writing \/ Over
  BY PumpStepsLemma
<1>2. IInv /\ Gone =>
        /\ Writing /\ <<PumpWrites>>_vars => Reading'
        /\ <<PumpEnds>>_vars => Over'
        /\ Stuck /\ <<ChildReads>>_vars => ~Stuck'
  BY PumpStepsLemma
<1>3. IInv /\ Gone /\ StepsCanBeTaken /\ ~Home =>
        /\ Writing /\ ~Stuck => ENABLED <<PumpWrites>>_vars
        /\ Reading => ENABLED <<PumpEnds>>_vars
        /\ Stuck /\ Reader => ENABLED <<ChildReads>>_vars
  BY PumpStepsLemma DEF StepsCanBeTaken, Alive
<1>4. FairSpec /\ []StepsCanBeTaken => (Over ~> Home)
  BY PumpOverEndsTheSession
<1>5. /\ (Gone ~> Home) => ClientGoneEndsTheSession
      /\ [](Stuck => Reader) <=> [](Blocked => "reads" \in manners)
  BY DEF ClientGoneEndsTheSession
<1> HIDE DEF Reader, Gone, Reading, Writing, Over, Stuck, Home
<1>6. Spec /\ WF_vars(PumpWrites) /\ WF_vars(PumpEnds) /\ WF_vars(ChildReads) /\ []StepsCanBeTaken
         /\ [](Stuck => Reader)
       => (Gone ~> Home \/ Over)
  BY <1>1, <1>2, <1>3, Invariance, PTL DEF Spec
<1>7. FairSpec /\ []StepsCanBeTaken /\ [](Stuck => Reader) => (Gone ~> Home)
  BY <1>4, <1>6, PTL DEF FairSpec, Fairness
<1>8. QED
  BY <1>5, <1>7

\* A child does not change its manners.
LEMMA MannersLemma == [Next]_vars => manners' = manners
BY DEF Next, Pump, ClientSends, PumpWrites, ClientLeaves, PumpEnds, PumpDies, PumpStops, Child,
       ChildReads, ChildExits, ChildSeesEof, ChildTermed, ChildKilled, Ends, Ladder, Terminate,
       ClaimTerm, SendTerm, Kill, ClaimKill, SendKill, Polls, Claims, Sends, Main, Reap,
       WaitReturns, Result, Cancel, Flush, PidRecycled, Exited, vars, clientSide

\* The wait ends once the pump is over, and once the client is gone if the child reads
\* its stdin, whatever it makes of EOF and of SIGTERM.
THEOREM ReadersAreOutlived == FairSpec /\ []StepsCanBeTaken => ReadersEndWithTheClient
<1> DEFINE Reader == "reads" \in manners
           Gone == client = "gone"
           Over == tin = "done"
           Home == main = "exited"
           Stuck == Blocked
<1>1. [Next]_vars => (Reader <=> Reader')
  BY MannersLemma
<1>2. FairSpec /\ []StepsCanBeTaken /\ [](Stuck => Reader) => (Gone ~> Home)
  BY SessionsEndUnlessBlocked DEF ClientGoneEndsTheSession
<1>3. FairSpec /\ []StepsCanBeTaken => (Over ~> Home)
  BY PumpOverEndsTheSession
<1>4. (Over \/ (Gone /\ Reader) ~> Home) => ReadersEndWithTheClient
  BY DEF ReadersEndWithTheClient
<1> HIDE DEF Reader, Gone, Over, Home, Stuck
<1>5. FairSpec /\ []StepsCanBeTaken => (Gone /\ Reader ~> Home)
  BY <1>1, <1>2, PTL DEF FairSpec, Spec
<1>6. FairSpec /\ []StepsCanBeTaken => (Over \/ (Gone /\ Reader) ~> Home)
  BY <1>3, <1>5, PTL
<1>7. QED
  BY <1>4, <1>6

\* A client that sends no more lines than the pipe holds never blocks the pump, and then
\* the session with any child ends: it takes both a child that does not read and a pipe
\* that overflows for ClientGoneEndsTheSession to fail.
THEOREM ShortSessionsEnd ==
  NLines <= PipeMax => (FairSpec /\ []StepsCanBeTaken => ClientGoneEndsTheSession)
<1> DEFINE Counted == IF tin = "write" THEN pipe < lines ELSE pipe <= lines
<1> SUFFICES ASSUME NLines <= PipeMax
             PROVE  FairSpec /\ []StepsCanBeTaken => ClientGoneEndsTheSession
  OBVIOUS
<1>1. Init => Counted
  BY DEF Init
<1>2. IInv /\ Counted /\ [Next]_vars => Counted'
  <2> SUFFICES ASSUME IInv, Counted, [Next]_vars PROVE Counted'
    OBVIOUS
  <2>1. /\ pipe \in Nat /\ lines \in Nat
        /\ tin \in {"read", "write", "done"}
    <3>1. pipe \in 0 .. PipeMax /\ lines \in 0 .. NLines /\ PipeMax \in Nat /\ NLines \in Nat
      BY ShutdownAssumption DEF IInv, TypeOK
    <3>2. pipe \in Nat /\ lines \in Nat
      BY <3>1
    <3>3. QED
      BY <3>2 DEF IInv, TypeOK
  <2>2. CASE ClientSends
    <3>1. tin = "read" /\ tin' = "write" /\ pipe' = pipe /\ lines' = lines + 1
      BY <2>2 DEF ClientSends
    <3>2. pipe <= lines => pipe < lines + 1
      BY <2>1
    <3>3. QED
      BY <3>1, <3>2
  <2>3. CASE PumpWrites
    <3>1. /\ tin = "write" /\ tin' = "read" /\ lines' = lines
          /\ pipe' = pipe \/ pipe' = pipe + 1
      BY <2>3 DEF PumpWrites
    <3>2. pipe < lines => pipe <= lines /\ pipe + 1 <= lines
      BY <2>1
    <3>3. QED
      BY <3>1, <3>2
  <2>4. CASE ChildReads
    <3>1. tin' = tin /\ pipe' = pipe - 1 /\ lines' = lines
      BY <2>4 DEF ChildReads
    <3>2. (pipe < lines => pipe - 1 < lines) /\ (pipe <= lines => pipe - 1 <= lines)
      BY <2>1
    <3>3. QED
      BY <3>1, <3>2
  <2>5. CASE PumpEnds \/ PumpDies
    BY <2>5 DEF PumpEnds, PumpDies, PumpStops
  <2>6. CASE UNCHANGED <<tin, pipe, lines>>
    BY <2>6
  <2>7. QED
    BY <2>2, <2>3, <2>4, <2>5, <2>6
    DEF Next, Pump, ClientLeaves, Child, ChildExits, ChildSeesEof, ChildTermed, ChildKilled, Ends,
        Ladder, Terminate, ClaimTerm, SendTerm, Kill, ClaimKill, SendKill, Polls, Claims, Sends,
        Main, Reap, WaitReturns, Result, Cancel, Flush, PidRecycled, Exited, vars, clientSide
<1>3. IInv /\ Counted => (Blocked => "reads" \in manners)
  <2>1. IInv => pipe \in 0 .. PipeMax /\ lines \in 0 .. NLines
    BY DEF IInv, TypeOK
  <2>2. ASSUME IInv, pipe = PipeMax PROVE ~(pipe < lines)
    BY <2>1, <2>2, ShutdownAssumption
  <2>3. QED
    BY <2>2 DEF Blocked
<1> HIDE DEF Counted
<1>4. FairSpec => [](Blocked => "reads" \in manners)
  BY <1>1, <1>2, <1>3, Invariance, PTL DEF FairSpec, Spec
<1>5. QED
  BY <1>4, SessionsEndUnlessBlocked
=============================================================================
