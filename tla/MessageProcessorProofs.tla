----------------------- MODULE MessageProcessorProofs -----------------------
(***************************************************************************)
(* What each operation does to the table of pending calls, and each action *)
(* of the shared message layer to the sets of calls a transport reasons    *)
(* about: those started, those in the table, those closed.  A transport's  *)
(* proof cites these instead of the definitions.                           *)
(***************************************************************************)
EXTENDS MessageProcessor, SequenceTheorems, TLAPS

(* The table of pending calls: what its operations return, whatever it holds. *)

\* One entry per id, and the oldest call first: the two properties of the
\* OrderedDict the proxy relies on.
Ordered(table) ==
  /\ \A i, j \in DOMAIN table : table[i].id = table[j].id => i = j
  /\ \A i, j \in DOMAIN table : i < j => table[i].call < table[j].call

Table(I, C) == {t \in Seq([id : I, call : C]) : Ordered(t)}

\* The slot of an id the table holds is one of its slots, and holds that id.
LEMMA SlotLemma ==
  ASSUME NEW table, NEW id, HasId(table, id)
  PROVE  SlotOf(table, id) \in DOMAIN table /\ table[SlotOf(table, id)].id = id
BY DEF HasId, SlotOf

\* Taking out one slot keeps every other entry, and the order.
LEMMA DropSlotLemma ==
  ASSUME NEW I, NEW C \in SUBSET Nat, NEW table \in Table(I, C),
         NEW slot \in DOMAIN table
  PROVE  /\ DropSlot(table, slot) \in Table(I, C)
         /\ Len(DropSlot(table, slot)) = Len(table) - 1
         /\ CallsIn(DropSlot(table, slot)) = CallsIn(table) \ {table[slot].call}
         /\ ~ HasId(DropSlot(table, slot), table[slot].id)
<1> DEFINE T == DropSlot(table, slot)
<1>1. /\ table \in Seq([id : I, call : C]) /\ Ordered(table)
      /\ DOMAIN table = 1 .. Len(table) /\ Len(table) \in Nat
      /\ slot \in 1 .. Len(table)
  BY DEF Table
<1>2. \A i \in 1 .. Len(table) : table[i] \in [id : I, call : C]
  BY <1>1, ElementOfSeq
<1>3. T = [i \in 1 .. Len(table) - 1 |-> IF i < slot THEN table[i] ELSE table[i + 1]]
  BY DEF DropSlot
<1>4. \A i \in 1 .. Len(table) - 1 : T[i] \in [id : I, call : C]
  BY <1>1, <1>2, <1>3
<1>5. T \in Seq([id : I, call : C]) /\ Len(T) = Len(table) - 1 /\ DOMAIN T = 1 .. Len(table) - 1
  BY <1>1, <1>3, <1>4
<1>6. \A i, j \in DOMAIN T : T[i].id = T[j].id => i = j
  BY <1>1, <1>3, <1>5 DEF Ordered
<1>7. \A i, j \in DOMAIN T : i < j => T[i].call < T[j].call
  BY <1>1, <1>3, <1>5 DEF Ordered
<1>8. CallsIn(T) = CallsIn(table) \ {table[slot].call}
  <2>1. ASSUME NEW i \in DOMAIN T
        PROVE  T[i].call \in CallsIn(table) \ {table[slot].call}
    <3>1. PICK j \in DOMAIN table : j # slot /\ T[i] = table[j]
      BY <1>1, <1>3, <1>5
    <3>2. table[j].call # table[slot].call
      <4>1. table[j].call \in Nat /\ table[slot].call \in Nat
        BY <1>1, <1>2
      <4>2. j < slot \/ slot < j
        BY <3>1, <1>1
      <4>3. QED
        BY <4>1, <4>2, <1>1, <3>1 DEF Ordered
    <3>3. QED
      BY <3>1, <3>2 DEF CallsIn
  <2>2. ASSUME NEW j \in DOMAIN table, j # slot
        PROVE  \E i \in DOMAIN T : T[i] = table[j]
    <3>1. CASE j < slot
      BY <3>1, <1>1, <1>3, <1>5
    <3>2. CASE j > slot
      <4>1. j - 1 \in DOMAIN T /\ T[j - 1] = table[j]
        BY <3>2, <1>1, <1>3, <1>5
      <4>2. QED
        BY <4>1
    <3>3. QED
      BY <2>2, <3>1, <3>2, <1>1
  <2>3. QED
    BY <2>1, <2>2 DEF CallsIn
<1>9. ~ HasId(T, table[slot].id)
  BY <1>1, <1>3, <1>5 DEF HasId, Ordered
<1>10. QED
  BY <1>5, <1>6, <1>7, <1>8, <1>9 DEF Table, Ordered

\* pop(id, None): the id is gone, its call is what the pop returned, and the
\* rest of the table is as it was.
LEMMA WithoutLemma ==
  ASSUME NEW I, NEW C \in SUBSET (Nat \ {NoCall}), NEW table \in Table(I, C), NEW id
  PROVE  /\ Without(table, id) \in Table(I, C)
         /\ Len(Without(table, id)) <= Len(table)
         /\ CallsIn(Without(table, id)) = CallsIn(table) \ {CallAt(table, id)}
         /\ ~ HasId(Without(table, id), id)
         /\ CallAt(table, id) \in CallsIn(table) \cup {NoCall}
         /\ CallsIn(table) \subseteq C
<1>1. table \in Seq([id : I, call : C]) /\ Len(table) \in Nat
  BY DEF Table
<1>2. CallsIn(table) \subseteq C
  <2>1. \A i \in 1 .. Len(table) : table[i] \in [id : I, call : C]
    BY <1>1, ElementOfSeq
  <2>2. \A i \in DOMAIN table : table[i].call \in C
    BY <1>1, <2>1
  <2>3. QED
    BY <2>2 DEF CallsIn
<1>3. CASE HasId(table, id)
  <2>1. SlotOf(table, id) \in DOMAIN table /\ table[SlotOf(table, id)].id = id
    BY <1>3, SlotLemma
  <2>2. C \in SUBSET Nat
    OBVIOUS
  <2>3. /\ DropSlot(table, SlotOf(table, id)) \in Table(I, C)
        /\ Len(DropSlot(table, SlotOf(table, id))) = Len(table) - 1
        /\ CallsIn(DropSlot(table, SlotOf(table, id))) =
             CallsIn(table) \ {table[SlotOf(table, id)].call}
        /\ ~ HasId(DropSlot(table, SlotOf(table, id)), id)
    BY <2>1, <2>2, DropSlotLemma
  <2>4. table[SlotOf(table, id)].call \in CallsIn(table)
    BY <2>1 DEF CallsIn
  <2>5. QED
    BY <1>1, <1>2, <1>3, <2>3, <2>4 DEF Without, CallAt
<1>4. CASE ~ HasId(table, id)
  BY <1>1, <1>2, <1>4 DEF Without, CallAt, NoCall
<1>5. QED
  BY <1>3, <1>4

\* The insertion of a call younger than all of the table makes it the newest.
LEMMA InsertedLemma ==
  ASSUME NEW I, NEW C \in SUBSET (Nat \ {NoCall}), NEW table \in Table(I, C),
         NEW id \in I, NEW call \in C, \A c \in CallsIn(table) : c < call
  PROVE  /\ Inserted(table, id, call) \in Table(I, C)
         /\ Len(Inserted(table, id, call)) \in 1 .. Len(table) + 1
         /\ CallsIn(Inserted(table, id, call)) =
              (CallsIn(table) \ {CallAt(table, id)}) \cup {call}
         /\ Inserted(table, id, call)[Len(Inserted(table, id, call))] = Entry(id, call)
<1> DEFINE W == Without(table, id)
           T == Inserted(table, id, call)
<1>1. /\ W \in Table(I, C)
      /\ Len(W) <= Len(table)
      /\ CallsIn(W) = CallsIn(table) \ {CallAt(table, id)}
      /\ ~ HasId(W, id)
  BY WithoutLemma
<1>2. W \in Seq([id : I, call : C]) /\ Ordered(W) /\ Len(W) \in Nat /\ DOMAIN W = 1 .. Len(W)
  BY <1>1 DEF Table
<1>3. Entry(id, call) \in [id : I, call : C] /\ Entry(id, call).id = id /\ Entry(id, call).call = call
  BY DEF Entry
<1>4. T = Append(W, Entry(id, call))
  BY DEF Inserted
<1> HIDE DEF W, T
<1>5. /\ T \in Seq([id : I, call : C])
      /\ Len(T) = Len(W) + 1
      /\ DOMAIN T = 1 .. Len(W) + 1
      /\ T[Len(W) + 1] = Entry(id, call)
      /\ \A i \in 1 .. Len(W) : T[i] = W[i]
  BY <1>2, <1>3, <1>4
<1>6. \A i \in 1 .. Len(W) : W[i].id # id /\ W[i].call < call /\ W[i].call \in CallsIn(W)
  BY <1>1, <1>2 DEF HasId, CallsIn
<1>7. Ordered(T)
  <2>1. ASSUME NEW i \in DOMAIN T, NEW j \in DOMAIN T, T[i].id = T[j].id
        PROVE  i = j
    <3>1. CASE i \in 1 .. Len(W) /\ j \in 1 .. Len(W)
      BY <2>1, <3>1, <1>2, <1>5 DEF Ordered
    <3>2. CASE i = Len(W) + 1 \/ j = Len(W) + 1
      <4>1. i \in 1 .. Len(W) => T[i].id # id
        BY <1>5, <1>6
      <4>2. j \in 1 .. Len(W) => T[j].id # id
        BY <1>5, <1>6
      <4>3. T[Len(W) + 1].id = id
        BY <1>3, <1>5
      <4>4. QED
        BY <2>1, <3>2, <4>1, <4>2, <4>3, <1>2, <1>5
    <3>3. QED
      BY <3>1, <3>2, <1>2, <1>5
  <2>2. ASSUME NEW i \in DOMAIN T, NEW j \in DOMAIN T, i < j
        PROVE  T[i].call < T[j].call
    <3>1. i \in 1 .. Len(W) /\ (j \in 1 .. Len(W) \/ j = Len(W) + 1)
      BY <2>2, <1>2, <1>5
    <3>2. CASE j \in 1 .. Len(W)
      <4>1. W[i].call < W[j].call
        BY <2>2, <3>1, <3>2, <1>2 DEF Ordered
      <4>2. QED
        BY <3>1, <3>2, <4>1, <1>5
    <3>3. CASE j = Len(W) + 1
      <4>1. T[i].call < call
        BY <3>1, <1>5, <1>6
      <4>2. QED
        BY <3>3, <4>1, <1>3, <1>5
    <3>4. QED
      BY <3>1, <3>2, <3>3
  <2>3. QED
    BY <2>1, <2>2 DEF Ordered
<1>8. CallsIn(T) = CallsIn(W) \cup {call}
  BY <1>2, <1>3, <1>5, SMTT(30) DEF CallsIn
<1>9. Len(table) \in Nat
  BY DEF Table
<1>10. QED
  BY <1>1, <1>2, <1>5, <1>7, <1>8, <1>9 DEF Table, T

\* The eviction leaves a table that fits, without the oldest calls and without
\* any other change; what it evicts is older than all that stays.
LEMMA TrimmedLemma ==
  ASSUME NEW I, NEW C \in SUBSET Nat, NEW table \in Table(I, C)
  PROVE  /\ Trimmed(table) \in Table(I, C)
         /\ Len(Trimmed(table)) <= MaxPending
         /\ Evicted(table) \subseteq CallsIn(table)
         /\ CallsIn(Trimmed(table)) = CallsIn(table) \ Evicted(table)
         /\ \A c \in Evicted(table), d \in CallsIn(Trimmed(table)) : c < d
         /\ Evicted(table) # {} => Len(Trimmed(table)) = MaxPending
<1> DEFINE e == Excess(table)
           T == Trimmed(table)
           n == Len(table)
<1>1. table \in Seq([id : I, call : C]) /\ Ordered(table) /\ n \in Nat /\ DOMAIN table = 1 .. n
  BY DEF Table
<1>2. MaxPending \in Nat /\ MaxPending > 0
  BY MaxPendingAssumption
<1>3. e \in 0 .. n /\ n - e <= MaxPending /\ (e > 0 => n - e = MaxPending)
  BY <1>1, <1>2 DEF Excess
<1>4. T = SubSeq(table, e + 1, n)
  BY DEF Trimmed
<1>5. \A i \in 1 .. n : table[i] \in [id : I, call : C]
  BY <1>1, ElementOfSeq
<1> HIDE DEF e, T, n
<1>6. /\ T \in Seq([id : I, call : C])
      /\ Len(T) = n - e
      /\ DOMAIN T = 1 .. n - e
      /\ \A i \in 1 .. n - e : T[i] = table[e + i]
  <2>1. \A i \in e + 1 .. n : i \in 1 .. n
    BY <1>1, <1>3
  <2>2. /\ Len(T) = IF e + 1 <= n THEN n - (e + 1) + 1 ELSE 0
        /\ \A i \in 1 .. n - (e + 1) + 1 : T[i] = table[e + 1 + i - 1]
    BY <1>1, <1>3, <1>4, <2>1, SubSeqProperties DEF n
  <2>3. T \in Seq([id : I, call : C])
    <3>1. \A i \in e + 1 .. n : table[i] \in [id : I, call : C]
      BY <1>5, <2>1
    <3>2. e + 1 \in Int /\ n \in Int
      BY <1>1, <1>3
    <3>3. QED
      BY <3>1, <3>2, <1>4, SubSeqProperties
  <2>4. Len(T) = n - e /\ n - (e + 1) + 1 = n - e
    BY <1>1, <1>3, <2>2
  <2>5. ASSUME NEW i \in 1 .. n - e
        PROVE  T[i] = table[e + i]
    <3>1. e + 1 + i - 1 = e + i
      BY <1>1, <1>3
    <3>2. QED
      BY <2>2, <2>4, <3>1
  <2>6. QED
    BY <2>3, <2>4, <2>5
<1>7. Ordered(T)
  <2>1. \A i \in 1 .. n - e : e + i \in 1 .. n
    BY <1>1, <1>3
  <2>2. ASSUME NEW i \in DOMAIN T, NEW j \in DOMAIN T, T[i].id = T[j].id
        PROVE  i = j
    <3>1. e + i = e + j
      BY <1>1, <1>6, <2>1, <2>2 DEF Ordered
    <3>2. QED
      BY <3>1, <1>1, <1>3, <1>6
  <2>3. ASSUME NEW i \in DOMAIN T, NEW j \in DOMAIN T, i < j
        PROVE  T[i].call < T[j].call
    <3>1. e + i < e + j
      BY <1>1, <1>3, <1>6, <2>3
    <3>2. QED
      BY <3>1, <1>1, <1>6, <2>1 DEF Ordered
  <2>4. QED
    BY <2>2, <2>3 DEF Ordered
<1>8. Evicted(table) = {table[i].call : i \in 1 .. e}
  BY DEF Evicted, e
<1>9. /\ \A i \in 1 .. n : i <= e \/ i - e \in 1 .. n - e
      /\ \A i \in 1 .. n - e : e + i \in 1 .. n
  BY <1>1, <1>3
<1>10. CallsIn(T) = {table[e + i].call : i \in 1 .. n - e}
  BY <1>6 DEF CallsIn
<1>11. \A c \in Evicted(table), d \in CallsIn(T) : c < d
  BY <1>1, <1>3, <1>8, <1>10 DEF Ordered
<1>12. Evicted(table) \subseteq CallsIn(table)
  BY <1>1, <1>3, <1>8 DEF CallsIn
<1>13. CallsIn(T) = CallsIn(table) \ Evicted(table)
  <2>1. CallsIn(T) \subseteq CallsIn(table)
    BY <1>1, <1>9, <1>10 DEF CallsIn
  <2>2. \A d \in CallsIn(T) : d \notin Evicted(table)
    <3>1. CallsIn(T) \subseteq Nat
      <4>1. \A i \in 1 .. n - e : table[e + i].call \in C
        BY <1>5, <1>9
      <4>2. QED
        BY <4>1, <1>10
    <3>2. QED
      BY <1>11, <3>1
  <2>3. ASSUME NEW i \in 1 .. n, table[i].call \notin Evicted(table)
        PROVE  table[i].call \in CallsIn(T)
    <3>1. i - e \in 1 .. n - e
      BY <2>3, <1>3, <1>8, <1>9
    <3>2. table[i] = table[e + (i - e)]
      BY <1>1, <1>3
    <3>3. QED
      BY <3>1, <3>2, <1>10
  <2>4. QED
    BY <2>1, <2>2, <2>3, <1>1 DEF CallsIn
<1>14. Evicted(table) # {} => Len(T) = MaxPending
  BY <1>3, <1>6, <1>8
<1>15. QED
  BY <1>3, <1>6, <1>7, <1>11, <1>12, <1>13, <1>14, <1>2, <1>1 DEF Table, T

-----------------------------------------------------------------------------
(* The handlers.                                                           *)

TerminalEvents == [cause : Causes, by : Calls \cup {NoCall}, kept : BOOLEAN]

\* The type invariant, and the order of the table.
ProcessorInv == ProcessorTypeOK /\ pending \in Table(Ids, Calls)

\* The calls of S get the terminal event t, and no other call gets one.
ClosesWith(S, t) ==
  terminals' = [d \in Calls |-> IF d \in S THEN Append(terminals[d], t) ELSE terminals[d]]

\* The numbers of the calls are positive: none of them is NoCall.
LEMMA CallsLemma == Calls \in SUBSET (Nat \ {NoCall}) /\ Calls \in SUBSET Nat
BY ProcessorAssumption DEF Calls, NoCall

\* A terminal event has the type of one.
LEMMA TerminalLemma ==
  ASSUME ProcessorInv, NEW cause \in Causes, NEW by \in Calls \cup {NoCall}
  PROVE  Terminal(cause, by) \in TerminalEvents
BY DEF Terminal, TerminalEvents, ProcessorInv, ProcessorTypeOK

\* Closing the calls of S makes them closed and leaves the others as they are.
LEMMA ClosesWithLemma ==
  ASSUME ProcessorInv, NEW S \in SUBSET Calls, NEW t \in TerminalEvents, ClosesWith(S, t)
  PROVE  /\ terminals' \in [Calls -> Seq(TerminalEvents)]
         /\ Closed' = Closed \cup S
         /\ \A c \in Calls : terminals'[c] = IF c \in S THEN Append(terminals[c], t)
                                             ELSE terminals[c]
<1>1. terminals \in [Calls -> Seq(TerminalEvents)]
  BY DEF ProcessorInv, ProcessorTypeOK, TerminalEvents
<1>2. \A c \in Calls : /\ Append(terminals[c], t) \in Seq(TerminalEvents)
                       /\ Append(terminals[c], t) # <<>>
  <2>1. TAKE c \in Calls
  <2>2. terminals[c] \in Seq(TerminalEvents)
    BY <1>1
  <2>3. QED
    BY <2>2, AppendProperties
<1>3. \A c \in Calls : terminals'[c] = IF c \in S THEN Append(terminals[c], t) ELSE terminals[c]
  BY DEF ClosesWith
<1>4. terminals' \in [Calls -> Seq(TerminalEvents)]
  BY <1>1, <1>2 DEF ClosesWith
<1>5. \A c \in Calls : terminals'[c] # <<>> <=> (terminals[c] # <<>> \/ c \in S)
  BY <1>2, <1>3
<1>6. Closed' = Closed \cup S
  BY <1>5 DEF Closed
<1>7. QED
  BY <1>3, <1>4, <1>6

\* CloseCall closes one call.
LEMMA CloseCallLemma ==
  ASSUME ProcessorInv, NEW c \in Calls, NEW cause, NEW by, CloseCall(c, cause, by)
  PROVE  ClosesWith({c}, Terminal(cause, by))
<1>1. DOMAIN terminals = Calls
  BY DEF ProcessorInv, ProcessorTypeOK
<1>2. QED
  BY <1>1 DEF CloseCall, ClosesWith

\* The actions that emit one terminal event and change nothing else.
LEMMA OneEventLemma ==
  ASSUME ProcessorInv, NEW c \in Calls, NEW cause \in Causes, NEW by \in Calls \cup {NoCall},
         CloseCall(c, cause, by), UNCHANGED <<request, starts, raised, pending, emitterOn>>
  PROVE  /\ ProcessorInv'
         /\ ClosesWith({c}, Terminal(cause, by))
         /\ Closed' = Closed \cup {c}
         /\ Started' = Started
         /\ CallsIn(pending)' = CallsIn(pending)
<1>1. ClosesWith({c}, Terminal(cause, by)) /\ Terminal(cause, by) \in TerminalEvents
  BY CloseCallLemma, TerminalLemma
<1>2. /\ terminals' \in [Calls -> Seq(TerminalEvents)]
      /\ Closed' = Closed \cup {c}
  BY <1>1, ClosesWithLemma
<1>3. ProcessorInv'
  BY <1>2 DEF ProcessorInv, ProcessorTypeOK, TerminalEvents
<1>4. Started' = Started /\ CallsIn(pending)' = CallsIn(pending)
  BY DEF Started
<1>5. QED
  BY <1>1, <1>2, <1>3, <1>4

\* A step that leaves the processor alone.
LEMMA ProcessorUnchangedLemma ==
  ASSUME ProcessorInv, UNCHANGED processor
  PROVE  /\ ProcessorInv'
         /\ UNCHANGED <<request, starts, terminals, raised, pending, emitterOn>>
BY DEF ProcessorInv, ProcessorTypeOK, processor

\* The start event of a call starts that call.
LEMMA StartEventLemma ==
  ASSUME ProcessorInv, NEW c \in Calls, StartEvent(c)
  PROVE  /\ ProcessorInv'
         /\ Started' = Started \cup {c}
         /\ Closed' = Closed /\ raised' = raised /\ CallsIn(pending)' = CallsIn(pending)
         /\ \A d \in Calls : d # c => starts'[d] = starts[d]
<1>1. starts \in [Calls -> {"none", "kept", "late"}]
  BY DEF ProcessorInv, ProcessorTypeOK
<1>2. /\ starts' \in [Calls -> {"none", "kept", "late"}]
      /\ starts'[c] # "none"
      /\ \A d \in Calls : d # c => starts'[d] = starts[d]
  BY <1>1 DEF StartEvent
<1>3. ProcessorInv'
  BY <1>2 DEF StartEvent, ProcessorInv, ProcessorTypeOK
<1>4. Started' = Started \cup {c}
  BY <1>1, <1>2 DEF Started
<1>5. QED
  BY <1>2, <1>3, <1>4 DEF StartEvent, Closed, events

\* _track moves the call into the table, takes out the one it displaces and
\* closes those it evicts, which are the oldest.
LEMMA TrackValidLemma ==
  ASSUME ProcessorInv, NEW c \in Calls, TrackValid(c), \A d \in CallsIn(pending) : d < c
  PROVE  \E S \in SUBSET Calls :
           /\ ProcessorInv'
           /\ ClosesWith(S, Terminal("evicted", NoCall))
           /\ Closed' = Closed \cup S
           /\ Started' = Started
           /\ S \subseteq (CallsIn(pending) \ {DisplacedBy(c)}) \cup {c}
           /\ CallsIn(pending)' = ((CallsIn(pending) \ {DisplacedBy(c)}) \cup {c}) \ S
           /\ DisplacedBy(c) \in CallsIn(pending) \cup {NoCall}
           /\ S # {} => /\ Len(pending') = MaxPending
                        /\ \A d \in S, e \in CallsIn(pending') : d < e
<1> DEFINE table == Inserted(pending, request[c].id, c)
           S == Evicted(table)
<1>1. request[c].id \in Ids
  BY DEF TrackValid, IsRequestId
<1>2. pending \in Table(Ids, Calls)
  BY DEF ProcessorInv
<1>3. Calls \in SUBSET (Nat \ {NoCall}) /\ Calls \in SUBSET Nat
  BY CallsLemma
<1>4. /\ table \in Table(Ids, Calls)
      /\ CallsIn(table) = (CallsIn(pending) \ {DisplacedBy(c)}) \cup {c}
  BY <1>1, <1>2, <1>3, InsertedLemma DEF DisplacedBy
<1>5. /\ CallsIn(pending) \subseteq Calls
      /\ DisplacedBy(c) \in CallsIn(pending) \cup {NoCall}
  BY <1>2, <1>3, WithoutLemma DEF DisplacedBy
<1>6. /\ Trimmed(table) \in Table(Ids, Calls)
      /\ Len(Trimmed(table)) <= MaxPending
      /\ S \subseteq CallsIn(table)
      /\ CallsIn(Trimmed(table)) = CallsIn(table) \ S
      /\ \A d \in S, e \in CallsIn(Trimmed(table)) : d < e
      /\ S # {} => Len(Trimmed(table)) = MaxPending
  BY <1>3, <1>4, TrimmedLemma
<1>7. S \in SUBSET Calls
  BY <1>4, <1>5, <1>6
<1>8. /\ pending' = Trimmed(table)
      /\ ClosesWith(S, Terminal("evicted", NoCall))
      /\ UNCHANGED <<request, starts, raised, emitterOn>>
  BY DEF TrackValid, ClosesWith
<1>9. Terminal("evicted", NoCall) \in TerminalEvents
  BY TerminalLemma DEF Causes
<1> HIDE DEF S, table
<1>10. /\ terminals' \in [Calls -> Seq(TerminalEvents)]
       /\ Closed' = Closed \cup S
  BY <1>7, <1>8, <1>9, ClosesWithLemma
<1>11. ProcessorInv'
  <2>1. pending' \in Seq([id : Ids, call : Calls])
    BY <1>6, <1>8 DEF Table
  <2>2. QED
    BY <1>6, <1>8, <1>10, <2>1 DEF ProcessorInv, ProcessorTypeOK, TerminalEvents
<1>12. Started' = Started
  BY <1>8 DEF Started
<1>13. CallsIn(pending)' = CallsIn(Trimmed(table)) /\ CallsIn(pending') = CallsIn(Trimmed(table))
  BY <1>8
<1>14. QED
  BY <1>4, <1>5, <1>6, <1>7, <1>8, <1>10, <1>11, <1>12, <1>13

\* A pop takes the call it returns out of the table and changes nothing else.
LEMMA PopLemma ==
  ASSUME ProcessorInv, NEW id, Pop(id)
  PROVE  /\ ProcessorInv'
         /\ CallsIn(pending)' = CallsIn(pending) \ {CallAt(pending, id)}
         /\ CallAt(pending, id) \in CallsIn(pending) \cup {NoCall}
         /\ CallsIn(pending) \subseteq Calls
         /\ UNCHANGED events /\ Started' = Started /\ Closed' = Closed
<1>1. pending \in Table(Ids, Calls) /\ Calls \in SUBSET (Nat \ {NoCall})
  BY CallsLemma DEF ProcessorInv
<1>2. /\ Without(pending, id) \in Table(Ids, Calls)
      /\ Len(Without(pending, id)) <= Len(pending)
      /\ CallsIn(Without(pending, id)) = CallsIn(pending) \ {CallAt(pending, id)}
      /\ CallAt(pending, id) \in CallsIn(pending) \cup {NoCall}
      /\ CallsIn(pending) \subseteq Calls
  BY <1>1, WithoutLemma
<1>3. pending' = Without(pending, id) /\ UNCHANGED <<request, events, emitterOn>>
  BY DEF Pop
<1>4. ProcessorInv'
  <2>1. Len(pending') <= MaxPending
    <3>1. Len(pending) \in Nat /\ Len(pending) <= MaxPending
      BY DEF ProcessorInv, ProcessorTypeOK
    <3>2. Len(Without(pending, id)) \in Nat /\ MaxPending \in Nat
      BY <1>2, MaxPendingAssumption DEF Table
    <3>3. QED
      BY <1>2, <1>3, <3>1, <3>2
  <2>2. pending' \in Seq([id : Ids, call : Calls])
    BY <1>2, <1>3 DEF Table
  <2>3. QED
    BY <1>2, <1>3, <2>1, <2>2 DEF ProcessorInv, ProcessorTypeOK, events
<1>5. Started' = Started /\ Closed' = Closed
  BY <1>3 DEF Started, Closed, events
<1>6. QED
  BY <1>2, <1>3, <1>4, <1>5

\* drain_pending leaves an empty table.
LEMMA EmptyTableLemma ==
  ASSUME ProcessorInv, EmptyTable
  PROVE  /\ ProcessorInv'
         /\ CallsIn(pending)' = {} /\ CallsIn(pending) \subseteq Calls
         /\ UNCHANGED events /\ Started' = Started /\ Closed' = Closed
<1>1. pending' = <<>> /\ UNCHANGED <<request, events, emitterOn>>
  BY DEF EmptyTable
<1>2. CallsIn(pending)' = {}
  BY <1>1 DEF CallsIn
<1>3. <<>> \in Table(Ids, Calls)
  BY DEF Table, Ordered
<1>4. Len(<<>>) <= MaxPending
  BY MaxPendingAssumption
<1>5. ProcessorInv'
  <2>1. <<>> \in Seq([id : Ids, call : Calls])
    BY <1>3 DEF Table
  <2>2. UNCHANGED <<request, starts, terminals, raised, emitterOn>>
    BY <1>1 DEF events
  <2>3. QED
    BY <1>1, <1>3, <1>4, <2>1, <2>2 DEF ProcessorInv, ProcessorTypeOK
<1>6. CallsIn(pending) \subseteq Calls
  <2>1. pending \in Table(Ids, Calls) /\ Calls \in SUBSET (Nat \ {NoCall})
    BY CallsLemma DEF ProcessorInv
  <2>2. QED
    BY <2>1, WithoutLemma
<1>7. Started' = Started /\ Closed' = Closed
  BY <1>1 DEF Started, Closed, events
<1>8. QED
  BY <1>1, <1>2, <1>5, <1>6, <1>7

\* The processor starts with no call started, closed or pending.
LEMMA ProcessorInitLemma ==
  ASSUME ProcessorInit
  PROVE  ProcessorInv /\ Started = {} /\ Closed = {} /\ CallsIn(pending) = {}
<1>1. <<>> \in Table(Ids, Calls)
  BY DEF Table, Ordered
<1>2. Len(<<>>) <= MaxPending
  BY MaxPendingAssumption
<1>3. <<>> \in Seq(TerminalEvents)
  OBVIOUS
<1>4. ProcessorInv
  BY <1>1, <1>2, <1>3
  DEF ProcessorInit, ProcessorInv, ProcessorTypeOK, TerminalEvents, AnyId, AllKinds, TrackedKinds, OwnTool
<1>5. Started = {} /\ Closed = {} /\ CallsIn(pending) = {}
  BY DEF ProcessorInit, Started, Closed, CallsIn
<1>6. QED
  BY <1>4, <1>5
-----------------------------------------------------------------------------
(* The events of a step.  Effect is all that a step of either transport may  *)
(* do to them; that no call is closed twice, and that the events are those   *)
(* of the ledger, follows from it.                                           *)

Opens(c) ==
  /\ starts[c] = "none" /\ starts'[c] # "none"
  /\ \A d \in Calls : d # c => starts'[d] = starts[d]
  /\ UNCHANGED terminals

Closes(S, t) ==
  /\ S \subseteq Started \ Closed
  /\ ClosesWith(S, t)
  /\ t.kept = emitterOn
  /\ UNCHANGED starts
  /\ t.cause = "evicted" /\ S # {} => /\ Len(pending') = MaxPending
                                     /\ \A c \in S, d \in CallsIn(pending') : c < d

Effect ==
  \/ UNCHANGED <<starts, terminals>>
  \/ \E c \in Calls : Opens(c)
  \/ \E S \in SUBSET Calls, t \in TerminalEvents : Closes(S, t)

\* What a step that closes calls makes of their events.
LEMMA ClosesLemma ==
  ASSUME ProcessorInv, NEW S \in SUBSET Calls, NEW t \in TerminalEvents, Closes(S, t)
  PROVE  /\ \A c \in S : terminals[c] = <<>> /\ terminals'[c] = Append(<<>>, t)
         /\ \A c \in Calls \ S : terminals'[c] = terminals[c]
<1>1. \A c \in Calls : terminals'[c] = IF c \in S THEN Append(terminals[c], t) ELSE terminals[c]
  BY ClosesWithLemma DEF Closes
<1>2. \A c \in S : terminals[c] = <<>>
  BY DEF Closes, Closed
<1>3. QED
  BY <1>1, <1>2

\* No step gives a call a second terminal event.
LEMMA OneTerminalLemma ==
  ASSUME ProcessorInv, OneTerminalPerCall, Effect, Closed' \subseteq Started'
  PROVE  OneTerminalPerCall'
<1>1. \A c \in Calls : Len(terminals'[c]) <= 1
  <2>1. CASE \E S \in SUBSET Calls, t \in TerminalEvents : Closes(S, t)
    <3>1. PICK S \in SUBSET Calls, t \in TerminalEvents : Closes(S, t)
      BY <2>1
    <3>2. Len(Append(<<>>, t)) = 1
      BY AppendProperties
    <3>3. /\ \A c \in S : terminals'[c] = Append(<<>>, t)
          /\ \A c \in Calls \ S : terminals'[c] = terminals[c]
      BY <3>1, ClosesLemma, ZenonT(40)
    <3>4. TAKE c \in Calls
    <3>5. CASE c \in S
      <4>1. terminals'[c] = Append(<<>>, t)
        BY <3>3, <3>5
      <4>2. QED
        BY <3>2, <4>1
    <3>6. CASE c \notin S
      BY <3>3, <3>6 DEF OneTerminalPerCall
    <3>7. QED
      BY <3>5, <3>6
  <2>2. CASE UNCHANGED terminals
    BY <2>2 DEF OneTerminalPerCall
  <2>3. QED
    BY <2>1, <2>2 DEF Effect, Opens
<1>2. QED
  BY <1>1 DEF OneTerminalPerCall

\* Up to stop() the emitter keeps every event.
AllKept == emitterOn => \A c \in Calls : \A i \in DOMAIN terminals[c] : terminals[c][i].kept

\* No step emits, while the emitter runs, an event that is not kept.
LEMMA AllKeptLemma ==
  ASSUME ProcessorInv, AllKept, Effect, emitterOn' => emitterOn
  PROVE  AllKept'
<1> SUFFICES ASSUME emitterOn', NEW c \in Calls, NEW i \in DOMAIN terminals'[c]
             PROVE  terminals'[c][i].kept
  BY DEF AllKept
<1>1. CASE UNCHANGED terminals
  BY <1>1 DEF AllKept
<1>2. CASE \E S \in SUBSET Calls, t \in TerminalEvents : Closes(S, t)
  <2>1. PICK S \in SUBSET Calls, t \in TerminalEvents : Closes(S, t)
    BY <1>2
  <2>2. /\ \A d \in S : terminals'[d] = Append(<<>>, t)
        /\ \A d \in Calls \ S : terminals'[d] = terminals[d]
    BY <2>1, ClosesLemma, ZenonT(40)
  <2>3. CASE c \in S
    <3>1. DOMAIN Append(<<>>, t) = {1} /\ Append(<<>>, t)[1] = t
      OBVIOUS
    <3>2. terminals'[c][i] = t
      BY <2>2, <2>3, <3>1
    <3>3. t.kept = emitterOn
      BY <2>1 DEF Closes
    <3>4. QED
      BY <3>2, <3>3
  <2>4. CASE c \notin S
    BY <2>2, <2>4 DEF AllKept
  <2>5. QED
    BY <2>3, <2>4
<1>3. QED
  BY <1>1, <1>2 DEF Effect, Opens

\* What the ledger makes of one call, and of all.
LedgerOf(c) ==
  IF terminals[c] # <<>> THEN IF Len(terminals[c]) = 1 THEN "closed" ELSE "closed twice"
  ELSE IF starts[c] # "none" THEN "open" ELSE "absent"

LedgerState == [c \in Calls |-> LedgerOf(c)]

\* The ledger starts empty.
LEMMA LedgerInitLemma ==
  ASSUME ProcessorInit
  PROVE  Ledger!Init
<1>1. \A c \in Calls : terminals[c] = <<>> /\ starts[c] = "none"
  BY DEF ProcessorInit
<1>2. QED
  BY <1>1 DEF Ledger!Init

\* A step of a transport is one of the ledger, or leaves it as it is.
LEMMA LedgerStepLemma ==
  ASSUME ProcessorInv, OneTerminalPerCall, Effect
  PROVE  [Ledger!Next]_LedgerState
<1>1. CASE UNCHANGED <<starts, terminals>>
  BY <1>1 DEF LedgerState, LedgerOf
<1>2. CASE \E c \in Calls : Opens(c)
  <2>1. PICK c \in Calls : Opens(c)
    BY <1>2
  <2>2. c \notin Closed
    BY <2>1 DEF Opens, Started, OneTerminalPerCall
  <2>3. /\ LedgerOf(c) = "absent" /\ LedgerOf(c)' = "open"
        /\ \A d \in Calls : d # c => LedgerOf(d)' = LedgerOf(d)
    BY <2>1, <2>2 DEF Opens, LedgerOf, Closed
  <2>4. /\ LedgerState[c] = "absent"
        /\ LedgerState' = [LedgerState EXCEPT ![c] = "open"]
    BY <2>3 DEF LedgerState
  <2>5. Ledger!Open(c)
    BY <2>4 DEF Ledger!Open, LedgerState, LedgerOf
  <2>6. QED
    BY <2>5 DEF Ledger!Next
<1>3. CASE \E S \in SUBSET Calls, t \in TerminalEvents : Closes(S, t)
  <2>1. PICK S \in SUBSET Calls, t \in TerminalEvents : Closes(S, t)
    BY <1>3
  <2>2. /\ \A c \in S : terminals[c] = <<>> /\ terminals'[c] = Append(<<>>, t)
        /\ \A c \in Calls \ S : terminals'[c] = terminals[c]
    BY <2>1, ClosesLemma
  <2>3. \A c \in S : starts[c] # "none"
    BY <2>1 DEF Closes, Started
  <2>4. Append(<<>>, t) # <<>> /\ Len(Append(<<>>, t)) = 1
    BY AppendProperties
  <2>5. \A c \in S : LedgerOf(c) = "open" /\ LedgerOf(c)' = "closed"
    BY <2>2, <2>3, <2>4 DEF LedgerOf
  <2>6. \A c \in Calls \ S : LedgerOf(c)' = LedgerOf(c)
    BY <2>1, <2>2 DEF LedgerOf, Closes
  <2>7. CASE S = {}
    BY <2>6, <2>7 DEF LedgerState
  <2>8. CASE S # {}
    <3>1. /\ \A c \in S : LedgerState[c] = "open"
          /\ LedgerState' = [c \in Calls |-> IF c \in S THEN "closed" ELSE LedgerState[c]]
      BY <2>5, <2>6 DEF LedgerState
    <3>2. Ledger!Close(S)
      BY <2>8, <3>1 DEF Ledger!Close, LedgerState, LedgerOf
    <3>3. QED
      BY <3>2 DEF Ledger!Next
  <2>9. QED
    BY <2>7, <2>8
<1>4. QED
  BY <1>1, <1>2, <1>3 DEF Effect
=============================================================================
