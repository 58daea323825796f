----------------------------- MODULE CallLedger -----------------------------
(***************************************************************************)
(* What the proxy promises about the events of a call, whatever carries    *)
(* it: a call is opened by one *_start event and closed by at most one     *)
(* *_end or *_error event, never before its start and never twice.  It is  *)
(* the contract of MessageProcessor's correlation ("both transports        *)
(* capture identically"); StdioSession and HttpBridge implement it.        *)
(***************************************************************************)
CONSTANT Calls

VARIABLE ledger     \* [Calls -> {"absent", "open", "closed"}]

Init == ledger = [c \in Calls |-> "absent"]

Open(c) ==
  /\ ledger[c] = "absent"
  /\ ledger' = [ledger EXCEPT ![c] = "open"]

\* One step may close several calls: evicting from the full table does.
Close(S) ==
  /\ S # {}
  /\ \A c \in S : ledger[c] = "open"
  /\ ledger' = [c \in Calls |-> IF c \in S THEN "closed" ELSE ledger[c]]

Next ==
  \/ \E c \in Calls : Open(c)
  \/ \E S \in SUBSET Calls : Close(S)

Spec == Init /\ [][Next]_ledger
=============================================================================
