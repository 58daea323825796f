---------------------------- MODULE PendingCalls ----------------------------
(***************************************************************************)
(* MessageProcessor._pending: the OrderedDict that pairs the upstream's    *)
(* responses with the requests the proxy has announced.  The table is the  *)
(* sequence of its entries, oldest first; an entry maps a JSON-RPC request *)
(* id to the number of the call that holds it.                             *)
(*                                                                         *)
(* Every operator is the body of one critical section of _pending_lock, so *)
(* a module that uses one in a single step models the lock.                *)
(***************************************************************************)
EXTENDS Naturals, Sequences

CONSTANT MaxPending    \* MAX_PENDING

ASSUME MaxPendingAssumption == MaxPending \in Nat \ {0}

\* The number no call has: what a pop returns when the id is not in the table.
NoCall == 0

Entry(id, call) == [id |-> id, call |-> call]

HasId(table, id) == \E i \in DOMAIN table : table[i].id = id

SlotOf(table, id) == CHOOSE i \in DOMAIN table : table[i].id = id

CallsIn(table) == {table[i].call : i \in DOMAIN table}

\* What dict.pop(id, None) returns ...
CallAt(table, id) ==
  IF HasId(table, id) THEN table[SlotOf(table, id)].call ELSE NoCall

DropSlot(table, slot) ==
  [i \in 1 .. Len(table) - 1 |-> IF i < slot THEN table[i] ELSE table[i + 1]]

\* ... and what it leaves: the others keep their order.
Without(table, id) ==
  IF HasId(table, id) THEN DropSlot(table, SlotOf(table, id)) ELSE table

\* Mutant: the old entry of a reused id wins, as with dict.setdefault.
InsertedUnlessHeld(table, id, call) ==
  IF HasId(table, id) THEN table ELSE Append(table, Entry(id, call))

\* _track under the lock: a reused id is popped first, so that its new call is
\* the newest entry and not the next one evicted.
Inserted(table, id, call) == Append(Without(table, id), Entry(id, call))

\* Mutants: the comparison with MAX_PENDING is off by one, either way.
ExcessEarly(table) == IF Len(table) >= MaxPending THEN Len(table) - MaxPending + 1 ELSE 0
ExcessLate(table) == IF Len(table) > MaxPending + 1 THEN Len(table) - MaxPending ELSE 0

\* _evict_overflow: popitem(last=False) until the table fits.
Excess(table) == IF Len(table) > MaxPending THEN Len(table) - MaxPending ELSE 0

Evicted(table) == {table[i].call : i \in 1 .. Excess(table)}

Trimmed(table) == SubSeq(table, Excess(table) + 1, Len(table))
=============================================================================
