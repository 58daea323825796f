------------------------ MODULE SurfaceCaptureProofs ------------------------
(***************************************************************************)
(* The safety of the surface capture for any tools, ids, number of         *)
(* requests, and every order in which the upstream answers them.           *)
(***************************************************************************)
EXTENDS SurfaceCapture, SequenceTheorems, TLAPS

Requests == [id : Ids, asks : {"server", "first page", "next page"}, met : BOOLEAN]
Pages == UNION {[S -> Declarations] : S \in SUBSET Tools}
Places == UNION {[S -> Nat] : S \in SUBSET Tools}
Listing == [id : Ids, shape : {"tools"}, tools : Pages, place : Places, first : BOOLEAN,
            nextCursor : BOOLEAN, met : BOOLEAN]
Message == Listing \cup [id : Ids, shape : {"server", "error", "other", "request"}]
Surfaces == [server : {"unknown", "known"}, tools : Pages]

Usage == [ids : SUBSET Ids, requests : Nat, calls : Nat, changes : Nat, pings : Nat]

TinType == {Reading} \cup [pc : {"track", "forward"}, request : Requests]
             \cup [pc : {"extract"}, tool : Tools, seen : Nat]
             \cup [pc : {"forward call"}, tool : Tools, seen : Nat, upTo : Nat, kept : BOOLEAN]
ToutType == {Reading} \cup [pc : {"capture", "digest", "emit", "inject", "relay"}, msg : Message,
                            added : SUBSET Tools]

\* Every variable has its type.
Types ==
  /\ now \in [tools : Surface, paged : BOOLEAN] /\ had \subseteq Surface
  /\ listed \in [Tools -> Seq(Declarations)]
  /\ requests \subseteq Requests
  /\ wire \in Seq(Message)
  /\ tin \in TinType /\ tout \in ToutType
  /\ server_meta \in {"unknown", "known"}
  /\ toollist_first_page_ids \in Seq(Ids) /\ Len(toollist_first_page_ids) <= MaxToollists
  /\ snapshots \in Seq([surface : Surfaces, id : Ids, met : BOOLEAN])
  /\ param_registry \in [Tools -> {"unlisted", "native", "injected"}]
  /\ seen \in [Tools -> Nat] /\ turnsPage \in BOOLEAN /\ met \in BOOLEAN
  /\ excused \subseteq Ids
  /\ used \in Usage
  /\ tin.pc = "track" => tin.request.asks = "first page"
  /\ tout.pc \in {"digest", "emit", "inject"} => tout.msg.shape = "tools"
  /\ tout.pc \in {"capture", "digest", "emit", "inject"} => tout.added = {}

-----------------------------------------------------------------------------
(* Ids.  Where they are, and who asks for, or answers, a first page or a    *)
(* next one.                                                                *)

AtTin == IF tin.pc \in {"track", "forward"} THEN {tin.request} ELSE {}
AtTout == IF tout.pc = "read" THEN {} ELSE {tout.msg}
OnWire == {wire[i] : i \in DOMAIN wire}
Remembers == ToSet(toollist_first_page_ids)

Asked == {r \in requests \cup (IF tin.pc = "forward" THEN {tin.request} ELSE {}) : r.asks = "first page"}
AskedNext == {r \in requests \cup AtTin : r.asks = "next page"}
Listings == {m \in OnWire \cup (IF tout.pc = "capture" THEN {tout.msg} ELSE {}) : m.shape = "tools"}

\* An id that was used once is in one place, and is no stranger.
Unique ==
  /\ \A i, j \in DOMAIN wire : wire[i].id = wire[j].id => i = j \/ wire[i].id \in excused
  /\ \A r, q \in requests : r.id = q.id => r = q \/ r.id \in excused
  /\ \A r \in AtTin, x \in requests \cup OnWire \cup AtTout : r.id = x.id => r.id \in excused
  /\ \A r \in requests, m \in OnWire \cup AtTout : r.id = m.id => r.id \in excused
  /\ \A m \in OnWire, n \in AtTout : m.id = n.id => m.id \in excused
  /\ \A x \in AtTin \cup requests \cup OnWire \cup AtTout : x.id \in used.ids \cup excused
  /\ Remembers \subseteq used.ids \cup excused
  /\ \A m \in OnWire \cup AtTout : m.shape = "request" => m.id \in excused

\* A first page that is under way is remembered, and no other page is.
Paged ==
  /\ \A r \in Asked : r.id \in Remembers \cup excused
  /\ \A r \in AskedNext : r.id \in Remembers => r.id \in excused
  /\ \A m \in Listings : IF m.first THEN m.id \in Remembers \cup excused
                         ELSE m.id \in Remembers => m.id \in excused

-----------------------------------------------------------------------------
(* Surfaces.                                                               *)

Sent == {snapshots[n].surface : n \in DOMAIN snapshots}
IsWhole(m) == m.shape = "tools" /\ m.first /\ ~m.nextCursor

\* A whole listing is a surface the upstream had, and what was hashed was sent or lost.
Captured ==
  /\ now.tools \in had
  /\ \A m \in OnWire \cup AtTout : IsWhole(m) => m.tools \in had
  /\ tout.pc \in {"digest", "emit"} => tout.msg.tools \in had \/ tout.msg.id \in excused
  /\ emitted_surface_hashes = Sent \cup lost \cup (IF tout.pc = "emit" THEN {SurfaceOf(tout.msg.tools)} ELSE {})
  /\ tout.pc = "emit" => SurfaceOf(tout.msg.tools) \notin Sent
  /\ tout.pc \in {"inject", "relay"} /\ IsWhole(tout.msg) /\ tout.msg.id \notin excused =>
       SurfaceOf(tout.msg.tools) \in Sent \cup lost

\* Who has met the server asked after the proxy knew it.
Known ==
  \/ server_meta = "known"
  \/ /\ ~met
     /\ \A r \in requests \cup AtTin : ~r.met
     /\ \A m \in OnWire \cup AtTout : m.shape = "tools" => ~m.met
     /\ tout.pc = "relay" => tout.msg.shape # "server"

-----------------------------------------------------------------------------
(* Goals.                                                                  *)

Lists(m, t) == m.shape = "tools" /\ t \in DOMAIN m.place
Said(t, n) == n # 0 /\ listed[t][n] = "native"

\* A listing says what the upstream said at its place.
Placed ==
  \A m \in OnWire \cup AtTout : m.shape = "tools" =>
    /\ DOMAIN m.place = DOMAIN m.tools
    /\ \A t \in DOMAIN m.place :
         /\ m.place[t] \in 1 .. Len(listed[t])
         /\ listed[t][m.place[t]] = m.tools[t]

\* Listings keep their order, and none is older than what the client has seen.
Ordered ==
  \A t \in Tools :
    /\ \A i, j \in DOMAIN wire : i < j /\ Lists(wire[i], t) /\ Lists(wire[j], t) =>
         wire[i].place[t] <= wire[j].place[t]
    /\ \A m \in AtTout, i \in DOMAIN wire : Lists(m, t) /\ Lists(wire[i], t) =>
         m.place[t] <= wire[i].place[t]
    /\ \A m \in OnWire \cup AtTout : Lists(m, t) => seen[t] <= m.place[t]

\* The record of a tool is a listing that the client has seen or is about to.
Current(t, n) ==
  /\ seen[t] <= n /\ n <= Len(listed[t])
  /\ param_registry[t] = "native" <=> Said(t, n)
  /\ \A m \in OnWire \cup AtTout : Lists(m, t) => n <= m.place[t]
  /\ tout.pc = "relay" /\ Lists(tout.msg, t) => n = tout.msg.place[t]

Recorded == \A t \in Tools : \E n \in Nat : Current(t, n)

Calling ==
  /\ tin.pc = "extract" => tin.seen <= seen[tin.tool]
  /\ tin.pc = "forward call" => tin.upTo <= Len(listed[tin.tool]) /\ GoalsFollowTheListing

\* The inductive invariant.
IInv ==
  /\ Types
  /\ Unique /\ Paged
  /\ Captured /\ SurfacesAreSentOnce /\ SnapshotsAreSurfaces /\ Known
  /\ Placed /\ Ordered /\ Recorded /\ Calling

-----------------------------------------------------------------------------
(* Records and sequences.                                                  *)

LEMMA TinFacts ==
  ASSUME tin \in TinType
  PROVE  /\ tin.pc \in {"read", "track", "forward", "extract", "forward call"}
         /\ tin.pc \in {"track", "forward"} => tin \in [pc : {"track", "forward"}, request : Requests]
         /\ tin.pc = "extract" => tin \in [pc : {"extract"}, tool : Tools, seen : Nat]
         /\ tin.pc = "forward call" =>
              tin \in [pc : {"forward call"}, tool : Tools, seen : Nat, upTo : Nat, kept : BOOLEAN]
<1>1. CASE tin = Reading
  <2>1. tin.pc = "read"
    BY <1>1 DEF Reading
  <2>2. QED
    BY <2>1
<1>2. CASE tin \in [pc : {"track", "forward"}, request : Requests]
  BY <1>2
<1>3. CASE tin \in [pc : {"extract"}, tool : Tools, seen : Nat]
  BY <1>3
<1>4. CASE tin \in [pc : {"forward call"}, tool : Tools, seen : Nat, upTo : Nat, kept : BOOLEAN]
  BY <1>4
<1>5. QED
  BY <1>1, <1>2, <1>3, <1>4 DEF TinType

LEMMA ToutFacts ==
  ASSUME tout \in ToutType
  PROVE  /\ tout.pc \in {"read", "capture", "digest", "emit", "inject", "relay"}
         /\ tout.pc # "read" =>
              /\ tout \in [pc : {"capture", "digest", "emit", "inject", "relay"}, msg : Message,
                          added : SUBSET Tools]
              /\ tout.msg \in Message
BY DEF ToutType, Reading

LEMMA MessageFacts ==
  ASSUME NEW m \in Message
  PROVE  /\ m.id \in Ids
         /\ m.shape \in {"tools", "server", "error", "other", "request"}
         /\ m.shape = "tools" => m \in Listing /\ m.tools \in Pages /\ m.place \in Places
                                 /\ m.first \in BOOLEAN /\ m.nextCursor \in BOOLEAN /\ m.met \in BOOLEAN
BY DEF Message, Listing

\* A dict keeps the new key, and forgets no more than it was asked to or has no room for.
LEMMA RememberedLemma ==
  ASSUME NEW ids \in Seq(Ids), Len(ids) <= MaxToollists, NEW id \in Ids
  PROVE  /\ Remembered(ids, id) \in Seq(Ids)
         /\ Len(Remembered(ids, id)) <= MaxToollists
         /\ id \in ToSet(Remembered(ids, id))
         /\ ToSet(Remembered(ids, id)) \subseteq ToSet(ids) \cup {id}
<1>1. Len(ids) \in Nat /\ DOMAIN ids = 1 .. Len(ids) /\ MaxToollists \in Nat \ {0}
  BY SurfaceAssumption
<1>2. CASE id \in ToSet(ids)
  <2>1. ~(Len(ids) > MaxToollists)
    BY <1>1
  <2>2. Remembered(ids, id) = ids
    BY <1>2, <2>1 DEF Remembered
  <2>3. QED
    BY <1>2, <2>2
<1>3. CASE id \notin ToSet(ids)
  <2>1. /\ Append(ids, id) \in Seq(Ids) /\ Len(Append(ids, id)) = Len(ids) + 1
        /\ \A i \in 1 .. Len(ids) : Append(ids, id)[i] = ids[i]
        /\ Append(ids, id)[Len(ids) + 1] = id
        /\ DOMAIN Append(ids, id) = 1 .. Len(ids) + 1
    BY <1>1
  <2>2. CASE Len(Append(ids, id)) > MaxToollists
    <3> DEFINE t == Tail(Append(ids, id))
    <3>1. Remembered(ids, id) = t
      BY <1>3, <2>2 DEF Remembered
    <3>2. /\ t \in Seq(Ids) /\ Len(t) = Len(ids) /\ DOMAIN t = 1 .. Len(ids)
          /\ \A i \in 1 .. Len(ids) : t[i] = Append(ids, id)[i + 1]
      BY <1>1, <2>1
    <3>3. Len(ids) >= 1
      BY <1>1, <2>1, <2>2
    <3>4. id \in ToSet(t)
      <4>1. Len(ids) \in DOMAIN t /\ t[Len(ids)] = id
        BY <1>1, <2>1, <3>2, <3>3
      <4>2. QED
        BY <4>1 DEF ToSet
    <3>5. ToSet(t) \subseteq ToSet(ids) \cup {id}
      BY <1>1, <2>1, <3>2 DEF ToSet
    <3>6. QED
      BY <3>1, <3>2, <3>4, <3>5
  <2>3. CASE ~(Len(Append(ids, id)) > MaxToollists)
    <3>1. Remembered(ids, id) = Append(ids, id)
      BY <1>3, <2>3 DEF Remembered
    <3>2. id \in ToSet(Append(ids, id)) /\ ToSet(Append(ids, id)) \subseteq ToSet(ids) \cup {id}
      BY <1>1, <2>1 DEF ToSet
    <3>3. QED
      BY <1>1, <2>1, <2>3, <3>1, <3>2
  <2>4. QED
    BY <2>2, <2>3
<1>4. QED
  BY <1>2, <1>3

LEMMA ForgottenLemma ==
  ASSUME NEW ids \in Seq(Ids), NEW id
  PROVE  /\ Forgotten(ids, id) \in Seq(Ids)
         /\ Len(Forgotten(ids, id)) <= Len(ids)
         /\ ToSet(Forgotten(ids, id)) \subseteq ToSet(ids)
         /\ ToSet(ids) \ {id} \subseteq ToSet(Forgotten(ids, id))
<1>1. Len(ids) \in Nat /\ DOMAIN ids = 1 .. Len(ids)
  OBVIOUS
<1>2. CASE id \notin ToSet(ids)
  BY <1>1, <1>2 DEF Forgotten
<1>3. CASE id \in ToSet(ids)
  <2> DEFINE k == CHOOSE i \in DOMAIN ids : ids[i] = id
             r == RemoveAt(ids, k)
  <2>1. k \in 1 .. Len(ids) /\ ids[k] = id
    BY <1>1, <1>3 DEF ToSet
  <2> HIDE DEF k
  <2> DEFINE a == SubSeq(ids, 1, k - 1)
             b == SubSeq(ids, k + 1, Len(ids))
  <2>2. a \in Seq(Ids) /\ Len(a) = k - 1 /\ \A i \in 1 .. k - 1 : a[i] = ids[i]
    <3>1. 1 \in Int /\ k - 1 \in Int /\ \A i \in 1 .. k - 1 : ids[i] \in Ids
      BY <1>1, <2>1
    <3>2. /\ a \in Seq(Ids)
          /\ Len(a) = IF 1 <= k - 1 THEN k - 1 - 1 + 1 ELSE 0
          /\ \A i \in 1 .. k - 1 - 1 + 1 : a[i] = ids[1 + i - 1]
      BY <3>1, SubSeqProperties
    <3>3. QED
      BY <2>1, <3>2
  <2>3. /\ b \in Seq(Ids) /\ Len(b) = Len(ids) - k
        /\ \A i \in 1 .. Len(ids) - k : b[i] = ids[k + i]
    <3>1. k + 1 \in Int /\ Len(ids) \in Int /\ \A i \in k + 1 .. Len(ids) : ids[i] \in Ids
      BY <1>1, <2>1
    <3>2. /\ b \in Seq(Ids)
          /\ Len(b) = IF k + 1 <= Len(ids) THEN Len(ids) - (k + 1) + 1 ELSE 0
          /\ \A i \in 1 .. Len(ids) - (k + 1) + 1 : b[i] = ids[k + 1 + i - 1]
      BY <3>1, SubSeqProperties
    <3>3. Len(b) = Len(ids) - k
      <4>1. k \in Int /\ Len(ids) \in Int /\ k <= Len(ids)
        BY <1>1, <2>1
      <4>2. CASE k + 1 <= Len(ids)
        BY <3>2, <4>1, <4>2
      <4>3. CASE ~(k + 1 <= Len(ids))
        BY <3>2, <4>1, <4>3
      <4>4. QED
        BY <4>2, <4>3
    <3>4. ASSUME NEW i \in 1 .. Len(ids) - k PROVE b[i] = ids[k + i]
      <4>1. i \in 1 .. Len(ids) - (k + 1) + 1 /\ k + 1 + i - 1 = k + i
        BY <1>1, <2>1
      <4>2. QED
        BY <3>2, <4>1
    <3>5. QED
      BY <3>2, <3>3, <3>4
  <2> HIDE DEF a, b
  <2>4. /\ r \in Seq(Ids) /\ Len(r) = Len(ids) - 1 /\ DOMAIN r = 1 .. Len(ids) - 1
        /\ \A i \in 1 .. Len(ids) - 1 : r[i] = IF i < k THEN ids[i] ELSE ids[i + 1]
    <3>1. r = a \o b
      BY DEF RemoveAt, a, b
    <3>2. /\ r \in Seq(Ids) /\ Len(r) = Len(a) + Len(b)
          /\ \A i \in 1 .. Len(a) + Len(b) : r[i] = IF i <= Len(a) THEN a[i] ELSE b[i - Len(a)]
      <4>1. a \in Seq(Ids) /\ b \in Seq(Ids)
        BY <2>2, <2>3
      <4>2. /\ a \o b \in Seq(Ids) /\ Len(a \o b) = Len(a) + Len(b)
            /\ \A i \in 1 .. Len(a) + Len(b) :
                 (a \o b)[i] = IF i <= Len(a) THEN a[i] ELSE b[i - Len(a)]
        BY <4>1, ConcatProperties
      <4>3. QED
        BY <3>1, <4>2
    <3> HIDE DEF r
    <3>3. Len(r) = Len(ids) - 1 /\ DOMAIN r = 1 .. Len(ids) - 1
      BY <1>1, <2>1, <2>2, <2>3, <3>2
    <3>4. ASSUME NEW i \in 1 .. Len(ids) - 1
          PROVE  r[i] = IF i < k THEN ids[i] ELSE ids[i + 1]
      <4>1. r[i] = IF i <= k - 1 THEN a[i] ELSE b[i - (k - 1)]
        BY <1>1, <2>1, <2>2, <2>3, <3>2
      <4>2. CASE i < k
        BY <1>1, <2>1, <2>2, <4>1, <4>2
      <4>3. CASE i >= k
        <5>1. i - (k - 1) \in 1 .. Len(ids) - k /\ k + (i - (k - 1)) = i + 1
          BY <1>1, <2>1, <4>3
        <5>2. QED
          BY <1>1, <2>1, <2>3, <4>1, <4>3, <5>1
      <4>4. QED
        BY <2>1, <4>2, <4>3
    <3>5. QED
      BY <3>2, <3>3, <3>4
  <2>5. ToSet(r) \subseteq ToSet(ids)
    BY <1>1, <2>1, <2>4 DEF ToSet
  <2>6. ASSUME NEW i \in 1 .. Len(ids), ids[i] # id PROVE ids[i] \in ToSet(r)
    <3>1. CASE i < k
      BY <1>1, <2>1, <2>4, <3>1 DEF ToSet
    <3>2. CASE i > k
      <4>1. i - 1 \in DOMAIN r /\ r[i - 1] = ids[i]
        BY <1>1, <2>1, <2>4, <3>2
      <4>2. QED
        BY <4>1 DEF ToSet
    <3>3. QED
      BY <2>1, <2>6, <3>1, <3>2
  <2>7. ToSet(ids) \ {id} \subseteq ToSet(r)
    BY <1>1, <2>6 DEF ToSet
  <2>8. Forgotten(ids, id) = r
    BY <1>3 DEF Forgotten, k
  <2>9. QED
    BY <1>1, <2>4, <2>5, <2>7, <2>8
<1>4. QED
  BY <1>2, <1>3

\* A message joins the wire, or leaves it.
LEMMA JoinLemma ==
  ASSUME NEW m \in Message, wire \in Seq(Message), wire' = Append(wire, m)
  PROVE  /\ wire' \in Seq(Message) /\ Len(wire) \in Nat /\ Len(wire') = Len(wire) + 1
         /\ DOMAIN wire = 1 .. Len(wire) /\ DOMAIN wire' = 1 .. Len(wire) + 1
         /\ \A i \in DOMAIN wire : wire'[i] = wire[i]
         /\ wire'[Len(wire) + 1] = m
         /\ OnWire' = OnWire \cup {m}
<1>1. /\ wire' \in Seq(Message) /\ Len(wire) \in Nat /\ Len(wire') = Len(wire) + 1
      /\ DOMAIN wire = 1 .. Len(wire) /\ DOMAIN wire' = 1 .. Len(wire) + 1
      /\ \A i \in DOMAIN wire : wire'[i] = wire[i]
      /\ wire'[Len(wire) + 1] = m
  OBVIOUS
<1>2. OnWire' = OnWire \cup {m}
  BY <1>1 DEF OnWire
<1>3. QED
  BY <1>1, <1>2

LEMMA LeaveLemma ==
  ASSUME wire \in Seq(Message), wire # <<>>, wire' = Tail(wire)
  PROVE  /\ wire' \in Seq(Message) /\ Len(wire) \in Nat \ {0}
         /\ DOMAIN wire = 1 .. Len(wire) /\ DOMAIN wire' = 1 .. Len(wire) - 1
         /\ \A i \in DOMAIN wire' : wire'[i] = wire[i + 1]
         /\ Head(wire) = wire[1] /\ Head(wire) \in Message
         /\ OnWire = OnWire' \cup {Head(wire)}
<1>1. /\ wire' \in Seq(Message) /\ Len(wire) \in Nat \ {0}
      /\ DOMAIN wire = 1 .. Len(wire) /\ DOMAIN wire' = 1 .. Len(wire) - 1
      /\ \A i \in DOMAIN wire' : wire'[i] = wire[i + 1]
      /\ Head(wire) = wire[1] /\ Head(wire) \in Message
  OBVIOUS
<1>2. ASSUME NEW i \in DOMAIN wire PROVE wire[i] \in OnWire' \cup {Head(wire)}
  <2>1. CASE i = 1
    BY <1>1, <2>1
  <2>2. CASE i # 1
    <3>1. i - 1 \in DOMAIN wire' /\ wire'[i - 1] = wire[i]
      BY <1>1, <2>2
    <3>2. QED
      BY <3>1 DEF OnWire
  <2>3. QED
    BY <2>1, <2>2
<1>3. ASSUME NEW i \in DOMAIN wire' PROVE wire'[i] \in OnWire
  BY <1>1 DEF OnWire
<1>4. Head(wire) \in OnWire
  <2>1. 1 \in DOMAIN wire
    BY <1>1
  <2>2. QED
    BY <1>1, <2>1 DEF OnWire
<1>5. OnWire \subseteq OnWire' \cup {Head(wire)}
  BY <1>2 DEF OnWire
<1>6. OnWire' \subseteq OnWire
  BY <1>3 DEF OnWire
<1>7. OnWire = OnWire' \cup {Head(wire)}
  BY <1>4, <1>5, <1>6
<1>8. QED
  BY <1>1, <1>7

-----------------------------------------------------------------------------
(* Types.                                                                  *)

LEMMA InitLemma == Init => IInv
<1> SUFFICES ASSUME Init PROVE IInv
  OBVIOUS
<1>1. /\ tin = Reading /\ tout = Reading /\ tin.pc = "read" /\ tout.pc = "read"
  BY DEF Init, Reading
<1>2. /\ wire = <<>> /\ DOMAIN wire = {} /\ snapshots = <<>> /\ DOMAIN snapshots = {}
      /\ toollist_first_page_ids = <<>> /\ DOMAIN toollist_first_page_ids = {}
  BY DEF Init
<1>3. Types
  <2>1. wire \in Seq(Message) /\ toollist_first_page_ids \in Seq(Ids) /\ Len(toollist_first_page_ids) = 0
        /\ snapshots \in Seq([surface : Surfaces, id : Ids, met : BOOLEAN])
    BY <1>2
  <2>2. listed \in [Tools -> Seq(Declarations)]
    BY DEF Init
  <2>3. now \in [tools : Surface, paged : BOOLEAN] /\ had \subseteq Surface
    BY DEF Init
  <2>4. param_registry \in [Tools -> {"unlisted", "native", "injected"}] /\ seen \in [Tools -> Nat]
    BY DEF Init
  <2>5. tin \in TinType /\ tout \in ToutType
    BY <1>1 DEF TinType, ToutType
  <2>6. requests \subseteq Requests /\ excused \subseteq Ids
        /\ used \in Usage
    BY DEF Init, Usage
  <2>7. turnsPage \in BOOLEAN /\ met \in BOOLEAN /\ server_meta \in {"unknown", "known"}
    BY DEF Init
  <2>8. QED
    BY <1>1, <2>1, <2>2, <2>3, <2>4, <2>5, <2>6, <2>7, SurfaceAssumption DEF Types
<1>4. /\ AtTin = {} /\ AtTout = {} /\ OnWire = {} /\ Remembers = {} /\ Asked = {} /\ AskedNext = {}
      /\ Listings = {} /\ requests = {} /\ Sent = {}
  BY <1>1, <1>2 DEF Init, AtTin, AtTout, OnWire, Remembers, ToSet, Asked, AskedNext, Listings, Sent
<1>5. Unique /\ Paged
  BY <1>2, <1>4 DEF Unique, Paged
<1>6. Captured /\ SurfacesAreSentOnce /\ SnapshotsAreSurfaces
  BY <1>1, <1>2, <1>4 DEF Init, Captured, SurfacesAreSentOnce, SnapshotsAreSurfaces
<1>7. Known
  BY <1>1, <1>4 DEF Init, Known
<1>8. Placed /\ Ordered /\ Calling
  BY <1>1, <1>2, <1>4 DEF Placed, Ordered, Calling
<1>9. Recorded
  <2>1. ASSUME NEW t \in Tools PROVE Current(t, 0)
    <3>1. seen[t] = 0 /\ Len(listed[t]) = 0 /\ param_registry[t] # "native"
      BY DEF Init
    <3>2. QED
      BY <1>1, <1>4, <3>1 DEF Current, Said
  <2>2. QED
    BY <2>1 DEF Recorded
<1>10. QED
  BY <1>3, <1>5, <1>6, <1>7, <1>8, <1>9 DEF IInv

\* A listing the upstream makes.
NewListing(request) ==
  [id    |-> request.id,
   shape |-> "tools",
   tools |-> [t \in PageOf(request) |-> now.tools[t]],
   place |-> [t \in PageOf(request) |-> Len(listed[t]) + 1],
   first |-> request.asks = "first page",
   nextCursor |-> now.paged /\ request.asks = "first page",
   met   |-> request.met]

LEMMA NewListingType ==
  ASSUME Types, NEW request \in requests
  PROVE  NewListing(request) \in Listing /\ NewListing(request) \in Message
<1>1. request \in Requests
  BY DEF Types
<1>2. PageOf(request) \in SUBSET Tools
  BY SurfaceAssumption DEF PageOf
<1>3. [t \in PageOf(request) |-> now.tools[t]] \in [PageOf(request) -> Declarations]
  BY <1>2 DEF Types, Surface
<1>4. [t \in PageOf(request) |-> Len(listed[t]) + 1] \in [PageOf(request) -> Nat]
  <2>1. \A t \in Tools : listed[t] \in Seq(Declarations)
    BY DEF Types
  <2>2. \A t \in Tools : Len(listed[t]) \in Nat
    BY <2>1, LenProperties
  <2>3. QED
    BY <1>2, <2>2
<1>5. [t \in PageOf(request) |-> now.tools[t]] \in Pages
  BY <1>2, <1>3 DEF Pages
<1>6. [t \in PageOf(request) |-> Len(listed[t]) + 1] \in Places
  BY <1>2, <1>4 DEF Places
<1>7. request.id \in Ids /\ request.met \in BOOLEAN
  BY <1>1 DEF Requests
<1>8. NewListing(request) \in Listing
  BY <1>5, <1>6, <1>7 DEF NewListing, Listing
<1>9. QED
  BY <1>8 DEF Message

\* The pump goes on with the message it has.
LEMMA GotoLemma ==
  ASSUME Types, tout.pc # "read", NEW pc \in {"digest", "emit", "inject", "relay"}, Goto(pc)
  PROVE  /\ tout' \in ToutType /\ tout'.pc = pc /\ tout'.msg = tout.msg
         /\ tout'.added = tout.added
         /\ tout.msg \in Message /\ AtTout = {tout.msg} /\ AtTout' = {tout.msg}
<1>1. tout \in [pc : {"capture", "digest", "emit", "inject", "relay"}, msg : Message,
                added : SUBSET Tools]
  BY ToutFacts DEF Types
<1>2. tout' = [tout EXCEPT !.pc = pc]
  BY DEF Goto
<1>3. tout' \in [pc : {"capture", "digest", "emit", "inject", "relay"}, msg : Message,
                 added : SUBSET Tools]
      /\ tout'.pc = pc /\ tout'.msg = tout.msg /\ tout'.added = tout.added
  BY <1>1, <1>2
<1>4. QED
  BY <1>1, <1>3 DEF ToutType, AtTout

\* The pump adds the parameters, to a message that had none.
LEMMA InjectLemma ==
  ASSUME Types, InjectIntentParams
  PROVE  /\ tout.pc = "inject" /\ tout' \in ToutType /\ tout'.pc = "relay" /\ tout'.msg = tout.msg
         /\ tout.msg \in Message /\ AtTout = {tout.msg} /\ AtTout' = {tout.msg}
<1>1. tout.pc = "inject" /\ tout.msg \in Message
      /\ tout \in [pc : {"capture", "digest", "emit", "inject", "relay"}, msg : Message,
                   added : SUBSET Tools]
  BY ToutFacts DEF Types, InjectIntentParams, At
<1>2. Plain(tout.msg) \in SUBSET Tools
  <2>1. CASE tout.msg.shape = "tools"
    BY <1>1, <2>1, MessageFacts DEF Plain, Pages
  <2>2. CASE tout.msg.shape # "tools"
    BY <2>2 DEF Plain
  <2>3. QED
    BY <2>1, <2>2
<1>3. tout' = [tout EXCEPT !.pc = "relay", !.added = Plain(tout.msg)]
  BY DEF InjectIntentParams
<1>4. tout' \in [pc : {"capture", "digest", "emit", "inject", "relay"}, msg : Message,
                 added : SUBSET Tools]
      /\ tout'.pc = "relay" /\ tout'.msg = tout.msg
  BY <1>1, <1>2, <1>3
<1>5. QED
  BY <1>1, <1>4 DEF ToutType, AtTout

\* What is hashed and sent is the vendor's own.
LEMMA NothingAdded ==
  ASSUME Types, tout.pc \in {"digest", "emit"}
  PROVE  ToolsNow = tout.msg.tools /\ SurfaceOf(ToolsNow) = SurfaceOf(tout.msg.tools)
<1>1. tout.added = {} /\ tout.msg.shape = "tools" /\ tout.msg \in Message
  BY ToutFacts DEF Types
<1>2. tout.msg.tools \in Pages
  BY <1>1, MessageFacts
<1>3. ToolsNow = [t \in DOMAIN tout.msg.tools |-> tout.msg.tools[t]]
  BY <1>1 DEF ToolsNow
<1>4. ToolsNow = tout.msg.tools
  BY <1>2, <1>3 DEF Pages
<1>5. QED
  BY <1>4

\* Where the server pump is when it takes one of its steps.
LEMMA PumpStepLemma ==
  ASSUME Types,
         ForgetFirstPage \/ CaptureNothing \/ LearnServer \/ CaptureSurface \/ Digest
           \/ EmitSnapshot \/ EmitFails \/ InjectIntentParams
  PROVE  /\ tout.pc # "read" /\ tout'.pc \in {"digest", "emit", "inject", "relay"}
         /\ tout' \in ToutType /\ tout'.msg = tout.msg
         /\ tout.msg \in Message /\ AtTout = {tout.msg} /\ AtTout' = {tout.msg}
         /\ tout'.pc # "relay" => tout'.added = {}
         /\ UNCHANGED <<upstream, requests, wire, tin, client, excused, used>>
<1>1. CASE InjectIntentParams
  BY <1>1, InjectLemma DEF InjectIntentParams
<1>2. CASE ~InjectIntentParams
  <2>1. PICK pc \in {"digest", "emit", "inject", "relay"} : Goto(pc)
    BY <1>2 DEF ForgetFirstPage, CaptureNothing, LearnServer, CaptureSurface, Digest, EmitSnapshot,
           EmitFails
  <2>2. /\ tout.pc \in {"capture", "digest", "emit"}
        /\ UNCHANGED <<upstream, requests, wire, tin, client, excused, used>>
    BY <1>2 DEF ForgetFirstPage, CaptureNothing, LearnServer, CaptureSurface, Digest, EmitSnapshot,
           EmitFails, At
  <2>3. tout' \in ToutType /\ tout'.msg = tout.msg /\ tout.msg \in Message
        /\ AtTout = {tout.msg} /\ AtTout' = {tout.msg} /\ tout'.added = tout.added
        /\ tout'.pc = pc
    BY <2>1, <2>2, GotoLemma
  <2>4. tout.added = {}
    BY <2>2 DEF Types
  <2>5. QED
    BY <2>2, <2>3, <2>4
<1>3. QED
  BY <1>1, <1>2

LEMMA NextNumber == \A n \in Nat : n + 1 \in Nat
OBVIOUS

LEMMA SpendLemma ==
  ASSUME Types, NEW what \in {"requests", "calls", "changes", "pings"}, NEW max, Spend(what, max)
  PROVE  used' \in Usage /\ used'.ids = used.ids
<1>1. used \in Usage
  BY DEF Types
<1>2. used[what] \in Nat
  BY <1>1 DEF Usage
<1>3. used' = [used EXCEPT ![what] = @ + 1]
  BY DEF Spend
<1>4. QED
  BY <1>1, <1>2, <1>3 DEF Usage

LEMMA TypesLemma == ASSUME Types, [Next]_vars PROVE Types'
<1>1. ASSUME NEW id \in Ids, NEW asks \in {"server", "first page", "next page"}, ReadRequest(id, asks)
      PROVE  Types'
  <2> DEFINE pc == IF asks = "first page" THEN "track" ELSE "forward"
             request == [id |-> id, asks |-> asks, met |-> met]
  <2>1. request \in Requests /\ pc \in {"track", "forward"}
    BY DEF Types, Requests
  <2>2. tin' = [pc |-> pc, request |-> request]
    BY <1>1 DEF ReadRequest
  <2>3. tin' \in TinType
    BY <2>1, <2>2 DEF TinType
  <2>4. tin'.pc = "track" => tin'.request.asks = "first page"
    BY <2>2
  <2>5. used' \in Usage
    <3>1. used \in Usage
      BY DEF Types
    <3>2. used.ids \in SUBSET Ids
      BY <3>1 DEF Usage
    <3>3. used.ids \cup {id} \in SUBSET Ids
      BY <3>2
    <3>4. used.requests + 1 \in Nat
      <4>1. used.requests \in Nat
        BY <3>1 DEF Usage
      <4>2. QED
        BY <4>1, NextNumber, Zenon
    <3>5. used' = [used EXCEPT !.requests = @ + 1, !.ids = @ \cup {id}]
      BY <1>1 DEF ReadRequest
    <3>6. QED
      BY <3>1, <3>3, <3>4, <3>5 DEF Usage
  <2>6. excused' \subseteq Ids
    BY <1>1 DEF ReadRequest, Types
  <2>7. QED
    BY <1>1, <2>3, <2>4, <2>5, <2>6 DEF ReadRequest, Types, upstream, processor, client
<1>2. CASE TrackFirstPage
  <2>1. tin \in [pc : {"track", "forward"}, request : Requests] /\ tin.request.id \in Ids
    BY <1>2, TinFacts DEF TrackFirstPage, Types, Requests
  <2>2. tin' \in [pc : {"track", "forward"}, request : Requests] /\ tin'.pc = "forward"
    BY <1>2, <2>1 DEF TrackFirstPage
  <2>3. /\ toollist_first_page_ids' \in Seq(Ids)
        /\ Len(toollist_first_page_ids') <= MaxToollists
    BY <1>2, <2>1, RememberedLemma DEF TrackFirstPage, Types
  <2>4. excused' \subseteq Ids
    <3>1. toollist_first_page_ids \in Seq(Ids)
      BY DEF Types
    <3>2. ToSet(toollist_first_page_ids) \subseteq Ids
      BY <3>1 DEF ToSet
    <3>3. QED
      BY <1>2, <3>2 DEF TrackFirstPage, Types
  <2>5. tin' \in TinType
    BY <2>2 DEF TinType
  <2>6. QED
    BY <1>2, <2>2, <2>3, <2>4, <2>5 DEF TrackFirstPage, Types, upstream, client
<1>3. CASE Forward
  <2>1. tin.request \in Requests
    BY <1>3, TinFacts DEF Forward, Types
  <2>2. tin' \in TinType /\ tin'.pc = "read"
    BY <1>3 DEF Forward, TinType, Reading
  <2>3. requests' \subseteq Requests
    BY <1>3, <2>1 DEF Forward, Types
  <2>4. QED
    BY <1>3, <2>2, <2>3 DEF Forward, Types, upstream, processor, client
<1>4. ASSUME NEW tool \in Tools, ReadCall(tool) PROVE Types'
  <2>1. tin' = [pc |-> "extract", tool |-> tool, seen |-> seen[tool]] /\ seen[tool] \in Nat
    BY <1>4 DEF ReadCall, Types
  <2>2. tin' \in [pc : {"extract"}, tool : Tools, seen : Nat]
    BY <2>1
  <2>3. tin' \in TinType /\ tin'.pc = "extract"
    BY <2>1, <2>2 DEF TinType
  <2>4. used' \in Usage
    BY <1>4, SpendLemma DEF ReadCall, Types
  <2>5. QED
    BY <1>4, <2>3, <2>4 DEF ReadCall, Types, upstream, processor, client
<1>5. CASE ExtractGoalParams
  <2>1. tin \in [pc : {"extract"}, tool : Tools, seen : Nat]
    BY <1>5, TinFacts DEF ExtractGoalParams, Types
  <2>2. Len(listed[tin.tool]) \in Nat
    <3>1. listed[tin.tool] \in Seq(Declarations)
      BY <2>1 DEF Types
    <3>2. QED
      BY <3>1, LenProperties
  <2>3. tin' \in [pc : {"forward call"}, tool : Tools, seen : Nat, upTo : Nat, kept : BOOLEAN]
    BY <1>5, <2>1, <2>2 DEF ExtractGoalParams, Keeps
  <2>4. tin' \in TinType /\ tin'.pc = "forward call"
    BY <2>3 DEF TinType
  <2>5. QED
    BY <1>5, <2>4 DEF ExtractGoalParams, Types, upstream, processor, client
<1>6. CASE ForwardCall
  <2>1. tin' \in TinType /\ tin'.pc = "read"
    BY <1>6 DEF ForwardCall, TinType, Reading
  <2>2. QED
    BY <1>6, <2>1 DEF ForwardCall, Types, upstream, processor, client
<1>7. ASSUME NEW tools \in Surface, NEW paged \in BOOLEAN, Changes(tools, paged) PROVE Types'
  <2>1. used' \in Usage /\ now' \in [tools : Surface, paged : BOOLEAN] /\ had' \subseteq Surface
    BY <1>7, SpendLemma DEF Changes, Types
  <2>2. QED
    BY <1>7, <2>1 DEF Changes, Types, processor, client
<1>8. ASSUME NEW request \in requests, Answers(request) PROVE Types'
  <2>1. wire' \in Seq(Message)
    <3>1. wire' = Append(wire, NewListing(request))
      BY <1>8 DEF Answers, NewListing
    <3>2. NewListing(request) \in Message /\ wire \in Seq(Message)
      BY NewListingType DEF Types
    <3>3. QED
      BY <3>1, <3>2, JoinLemma
  <2>2. listed' \in [Tools -> Seq(Declarations)]
    <3>1. \A t \in Tools : listed[t] \in Seq(Declarations) /\ now.tools[t] \in Declarations
      BY DEF Types, Surface
    <3>2. \A t \in Tools : Append(listed[t], now.tools[t]) \in Seq(Declarations)
      BY <3>1, AppendProperties
    <3>3. QED
      BY <1>8, <3>1, <3>2 DEF Answers
  <2>3. requests' \subseteq Requests
    BY <1>8 DEF Answers, Types
  <2>4. QED
    BY <1>8, <2>1, <2>2, <2>3 DEF Answers, Types, processor, client
<1>9. ASSUME NEW request \in requests, NEW shape \in {"server", "error", "other"},
             AnswersOtherwise(request, shape)
      PROVE  Types'
  <2>1. [id |-> request.id, shape |-> shape] \in Message
    BY DEF Types, Requests, Message
  <2>2. wire' \in Seq(Message)
    BY <1>9, <2>1, JoinLemma DEF AnswersOtherwise, Types
  <2>3. requests' \subseteq Requests
    BY <1>9 DEF AnswersOtherwise, Types
  <2>4. QED
    BY <1>9, <2>2, <2>3 DEF AnswersOtherwise, Types, upstream, processor, client
<1>10. ASSUME NEW id \in Ids, Pings(id) PROVE Types'
  <2>1. [id |-> id, shape |-> "request"] \in Message
    BY DEF Message
  <2>2. wire' \in Seq(Message)
    BY <1>10, <2>1, JoinLemma DEF Pings, Types
  <2>3. used' \in Usage /\ excused' \subseteq Ids
    BY <1>10, SpendLemma DEF Pings, Types
  <2>4. QED
    BY <1>10, <2>2, <2>3 DEF Pings, Types, upstream, processor, client
<1>11. CASE Receive
  <2>1. wire' \in Seq(Message) /\ Head(wire) \in Message
    BY <1>11, LeaveLemma DEF Receive, Types
  <2>2. tout' \in ToutType /\ tout'.pc = "capture"
    BY <1>11, <2>1 DEF Receive, ToutType
  <2>3. QED
    BY <1>11, <2>1, <2>2 DEF Receive, Types, upstream, processor, client
<1>12. CASE ForgetFirstPage \/ CaptureSurface
  <2>1. /\ toollist_first_page_ids' \in Seq(Ids)
        /\ Len(toollist_first_page_ids') <= MaxToollists
    <3>1. /\ Forgotten(toollist_first_page_ids, tout.msg.id) \in Seq(Ids)
          /\ Len(Forgotten(toollist_first_page_ids, tout.msg.id)) <= Len(toollist_first_page_ids)
      BY ForgottenLemma DEF Types
    <3>2. /\ Len(Forgotten(toollist_first_page_ids, tout.msg.id)) \in Nat
          /\ Len(toollist_first_page_ids) \in Nat /\ MaxToollists \in Nat
      BY <3>1, LenProperties, SurfaceAssumption DEF Types
    <3>3. Len(toollist_first_page_ids) <= MaxToollists
      BY DEF Types
    <3>4. toollist_first_page_ids' = Forgotten(toollist_first_page_ids, tout.msg.id)
      BY <1>12 DEF ForgetFirstPage, CaptureSurface
    <3>5. QED
      BY <3>1, <3>2, <3>3, <3>4
  <2>2. tout'.pc \in {"digest", "emit", "inject"} => tout'.msg.shape = "tools"
    <3>1. CASE ForgetFirstPage
      BY <3>1, GotoLemma DEF ForgetFirstPage, At
    <3>2. CASE CaptureSurface
      BY <3>2, PumpStepLemma DEF CaptureSurface, At
    <3>3. QED
      BY <1>12, <3>1, <3>2
  <2>3. QED
    BY <1>12, <2>1, <2>2, PumpStepLemma
    DEF ForgetFirstPage, CaptureSurface, Types, upstream, client
<1>13. CASE CaptureNothing \/ LearnServer
  <2>1. tout'.pc = "relay" /\ server_meta' \in {"unknown", "known"}
    BY <1>13, GotoLemma DEF CaptureNothing, LearnServer, At, Types, processor
  <2>2. QED
    BY <1>13, <2>1, PumpStepLemma
    DEF CaptureNothing, LearnServer, Types, upstream, processor, client
<1>14. CASE Digest \/ EmitSnapshot \/ EmitFails \/ InjectIntentParams
  <2>1. tout.msg.shape = "tools" /\ tout.msg \in Message
    BY <1>14, PumpStepLemma
    DEF Digest, EmitSnapshot, EmitFails, InjectIntentParams, At, Types
  <2>2. tout.msg.id \in Ids /\ tout.msg.met \in BOOLEAN /\ tout.msg.tools \in Pages
        /\ tout.msg \in Listing
    BY <2>1, MessageFacts
  <2>3. snapshots' \in Seq([surface : Surfaces, id : Ids, met : BOOLEAN])
    <3>1. CASE EmitSnapshot
      <4>1. SurfaceOf(tout.msg.tools) \in Surfaces
        BY <2>2 DEF Types, SurfaceOf, Surfaces
      <4>2. [surface |-> SurfaceOf(tout.msg.tools), id |-> tout.msg.id, met |-> tout.msg.met]
              \in [surface : Surfaces, id : Ids, met : BOOLEAN]
        BY <2>2, <4>1
      <4>3. QED
        BY <3>1, <4>2, NothingAdded, AppendProperties DEF EmitSnapshot, At, Types
    <3>2. CASE Digest \/ EmitFails \/ InjectIntentParams
      BY <3>2 DEF Digest, EmitFails, InjectIntentParams, Types
    <3>3. QED
      BY <1>14, <3>1, <3>2
  <2>4. param_registry' \in [Tools -> {"unlisted", "native", "injected"}]
    BY <1>14 DEF Digest, EmitSnapshot, EmitFails, InjectIntentParams, Upserted, Types
  <2>5. UNCHANGED <<server_meta, toollist_first_page_ids>>
    BY <1>14 DEF Digest, EmitSnapshot, EmitFails, InjectIntentParams
  <2>6. QED
    BY <1>14, <2>1, <2>3, <2>4, <2>5, PumpStepLemma DEF Types, upstream, client
<1>15. CASE Relay
  <2>1. tout.msg \in Message
    BY <1>15, ToutFacts DEF Relay, At, Types
  <2>2. seen' \in [Tools -> Nat] /\ turnsPage' \in BOOLEAN /\ met' \in BOOLEAN
    <3>1. CASE tout.msg.shape = "tools"
      <4>1. /\ tout.msg.place \in Places /\ tout.msg.nextCursor \in BOOLEAN
        BY <2>1, <3>1, MessageFacts
      <4>2. \A t \in DOMAIN tout.msg.place : tout.msg.place[t] \in Nat
        BY <4>1 DEF Places
      <4>3. QED
        BY <1>15, <3>1, <4>1, <4>2 DEF Relay, Types
    <3>2. CASE tout.msg.shape # "tools"
      BY <1>15, <3>2 DEF Relay, Types
    <3>3. QED
      BY <3>1, <3>2
  <2>3. tout' \in ToutType /\ tout'.pc = "read"
    BY <1>15 DEF Relay, ToutType, Reading
  <2>4. QED
    BY <1>15, <2>2, <2>3 DEF Relay, Types, upstream, processor
<1>16. CASE UNCHANGED vars
  BY <1>16 DEF vars, upstream, processor, client, Types
<1>17. QED
  BY <1>1, <1>2, <1>3, <1>4, <1>5, <1>6, <1>7, <1>8, <1>9, <1>10, <1>11, <1>12, <1>13, <1>14,
     <1>15, <1>16 DEF Next, ClientPump, Upstream, ServerPump

-----------------------------------------------------------------------------
(* Ids.                                                                     *)

\* What stands in the places.
LEMMA PlaceFacts ==
  ASSUME Types
  PROVE  /\ AtTin \subseteq Requests /\ requests \subseteq Requests
         /\ OnWire \subseteq Message /\ AtTout \subseteq Message
<1>1. AtTin \subseteq Requests
  BY TinFacts DEF AtTin, Types
<1>2. OnWire \subseteq Message
  <2>1. wire \in Seq(Message)
    BY DEF Types
  <2>2. \A i \in DOMAIN wire : wire[i] \in Message
    BY <2>1
  <2>3. QED
    BY <2>2 DEF OnWire
<1>3. AtTout \subseteq Message
  BY ToutFacts DEF AtTout, Types
<1>4. QED
  BY <1>1, <1>2, <1>3 DEF Types

\* Nothing moves but what leaves the server pump.
LEMMA IdsFrame ==
  ASSUME Unique, Paged, UNCHANGED <<requests, wire, excused, toollist_first_page_ids>>,
         used'.ids = used.ids, AtTin' = AtTin, Asked' = Asked, AtTout' \subseteq AtTout,
         Listings' \subseteq Listings
  PROVE  Unique' /\ Paged'
<1>1. Remembers' = Remembers /\ OnWire' = OnWire /\ AskedNext' = AskedNext
  BY DEF Remembers, OnWire, AskedNext
<1>2. Unique'
  BY <1>1 DEF Unique
<1>3. Paged'
  BY <1>1 DEF Paged
<1>4. QED
  BY <1>2, <1>3

LEMMA IdsLemma == ASSUME IInv, [Next]_vars PROVE Unique' /\ Paged'
<1> USE DEF IInv
<1>1. ASSUME NEW id \in Ids, NEW asks \in {"server", "first page", "next page"}, ReadRequest(id, asks)
      PROVE  Unique' /\ Paged'
  <2> DEFINE request == [id |-> id, asks |-> asks, met |-> met]
  <2>1. /\ tin.pc = "read" /\ AtTin = {} /\ AtTin' = {request} /\ request.id = id
        /\ UNCHANGED <<requests, wire, tout, toollist_first_page_ids>>
        /\ used'.ids = used.ids \cup {id}
        /\ excused' = IF id \in used.ids THEN excused \cup {id} ELSE excused
    <3>1. used' = [used EXCEPT !.requests = @ + 1, !.ids = @ \cup {id}] /\ used \in Usage
      BY <1>1 DEF ReadRequest, Types
    <3>2. used'.ids = used.ids \cup {id}
      BY <3>1 DEF Usage
    <3>3. tin' = [pc |-> IF asks = "first page" THEN "track" ELSE "forward", request |-> request]
      BY <1>1 DEF ReadRequest
    <3>4. AtTin' = {request}
      BY <3>3 DEF AtTin
    <3>5. QED
      BY <1>1, <3>2, <3>4 DEF ReadRequest, AtTin, processor
  <2>2. OnWire' = OnWire /\ AtTout' = AtTout /\ Listings' = Listings /\ Remembers' = Remembers
    BY <2>1 DEF OnWire, AtTout, Listings, Remembers
  <2>3. Asked' = Asked
    <3>1. tin'.pc = "forward" => tin'.request.asks # "first page"
      BY <1>1 DEF ReadRequest
    <3>2. QED
      BY <2>1, <3>1 DEF Asked
  <2>4. AskedNext' \subseteq AskedNext \cup {request}
    BY <2>1 DEF AskedNext
  <2>5. id \in excused' \/ id \notin used.ids \cup excused
    BY <2>1
  <2>6. Unique'
    BY <2>1, <2>2, <2>5, ZenonT(40) DEF Unique
  <2>7. Paged'
    BY <2>1, <2>2, <2>3, <2>4, <2>5 DEF Paged, Unique
  <2>8. QED
    BY <2>6, <2>7
<1>2. CASE TrackFirstPage
  <2> DEFINE id == tin.request.id
  <2>1. /\ tin.pc = "track" /\ tin \in [pc : {"track", "forward"}, request : Requests]
        /\ tin.request.asks = "first page" /\ tin.request \in Requests /\ id \in Ids
    BY <1>2, TinFacts DEF TrackFirstPage, Types, Requests
  <2>2. /\ id \in Remembers' /\ Remembers' \subseteq Remembers \cup {id}
        /\ excused' = excused \cup (Remembers \ Remembers')
    <3>1. toollist_first_page_ids \in Seq(Ids) /\ Len(toollist_first_page_ids) <= MaxToollists
      BY DEF Types
    <3>2. toollist_first_page_ids' = Remembered(toollist_first_page_ids, id)
      BY <1>2 DEF TrackFirstPage
    <3>3. QED
      BY <1>2, <2>1, <3>1, <3>2, RememberedLemma, ZenonT(40) DEF TrackFirstPage, Remembers
  <2>3. tin' = [tin EXCEPT !.pc = "forward"] /\ UNCHANGED <<requests, wire, tout, used>>
    BY <1>2 DEF TrackFirstPage
  <2>4. tin'.pc = "forward" /\ tin'.request = tin.request
    BY <2>1, <2>3
  <2>5. /\ AtTin = {tin.request} /\ AtTin' = AtTin /\ Asked' = Asked \cup {tin.request}
        /\ AskedNext' = AskedNext /\ AskedNext \subseteq requests
    BY <2>1, <2>3, <2>4 DEF AtTin, Asked, AskedNext
  <2>6. /\ OnWire' = OnWire /\ AtTout' = AtTout /\ Listings' = Listings
        /\ Listings \subseteq OnWire \cup AtTout
    BY <2>3 DEF OnWire, AtTout, Listings
  <2>7. Unique'
    BY <2>2, <2>3, <2>5, <2>6 DEF Unique
  <2>8. \A x \in AskedNext \cup Listings : x.id = id => x.id \in excused
    BY <2>5, <2>6 DEF Unique
  <2>9. Paged'
    BY <2>2, <2>5, <2>6, <2>8 DEF Paged
  <2>10. QED
    BY <2>7, <2>9
<1>3. CASE Forward
  <2>1. /\ tin.pc = "forward" /\ tin'.pc = "read" /\ requests' = requests \cup {tin.request}
        /\ UNCHANGED <<wire, tout, toollist_first_page_ids, excused, used>>
    BY <1>3 DEF Forward, Reading, processor
  <2>2. AtTin = {tin.request} /\ AtTin' = {} /\ Asked' = Asked /\ AskedNext' = AskedNext
    BY <2>1 DEF AtTin, Asked, AskedNext
  <2>3. OnWire' = OnWire /\ AtTout' = AtTout /\ Listings' = Listings /\ Remembers' = Remembers
    BY <2>1 DEF OnWire, AtTout, Listings, Remembers
  <2>4. Unique'
    BY <2>1, <2>2, <2>3 DEF Unique
  <2>5. Paged'
    BY <2>1, <2>2, <2>3 DEF Paged
  <2>6. QED
    BY <2>4, <2>5
<1>4. CASE \/ \E tool \in Tools : ReadCall(tool)
           \/ ExtractGoalParams \/ ForwardCall
           \/ \E tools \in Surface, paged \in BOOLEAN : Changes(tools, paged)
  <2>1. /\ UNCHANGED <<requests, wire, tout, toollist_first_page_ids, excused>>
        /\ (AtTin = {} /\ AtTin' = {}) \/ UNCHANGED tin
    <3>1. ASSUME NEW tool \in Tools, ReadCall(tool) PROVE AtTin = {} /\ AtTin' = {}
      BY <3>1 DEF ReadCall, AtTin
    <3>2. ASSUME ExtractGoalParams \/ ForwardCall PROVE AtTin = {} /\ AtTin' = {}
      <4>1. tin.pc \in {"extract", "forward call"}
        BY <3>2 DEF ExtractGoalParams, ForwardCall
      <4>2. tin'.pc \in {"forward call", "read"}
        <5>1. CASE ExtractGoalParams
          BY <5>1 DEF ExtractGoalParams
        <5>2. CASE ForwardCall
          BY <5>2 DEF ForwardCall, Reading
        <5>3. QED
          BY <3>2, <5>1, <5>2
      <4>3. QED
        BY <4>1, <4>2 DEF AtTin
    <3>3. UNCHANGED <<requests, wire, tout, toollist_first_page_ids, excused>>
      BY <1>4 DEF ReadCall, ExtractGoalParams, ForwardCall, Changes, processor
    <3>4. QED
      BY <1>4, <3>1, <3>2, <3>3 DEF Changes
  <2>2. used'.ids = used.ids
    BY <1>4, SpendLemma DEF ReadCall, ExtractGoalParams, ForwardCall, Changes
  <2>3. AtTin' = AtTin
    BY <2>1 DEF AtTin
  <2>4. Asked' = Asked
    <3>1. CASE AtTin = {} /\ AtTin' = {}
      BY <2>1, <3>1 DEF AtTin, Asked
    <3>2. CASE UNCHANGED tin
      BY <2>1, <3>2 DEF Asked
    <3>3. QED
      BY <2>1, <3>1, <3>2
  <2>5. AtTout' = AtTout /\ Listings' = Listings
    BY <2>1 DEF AtTout, Listings, OnWire
  <2>6. QED
    BY <2>1, <2>2, <2>3, <2>4, <2>5, IdsFrame
\* What answers a request has its id.
<1>5. ASSUME NEW request \in requests, NEW m \in Message, m.id = request.id,
             m.shape = "tools" => (m.first <=> request.asks = "first page") /\ request.asks # "server",
             m.shape # "request", requests' = requests \ {request}, wire' = Append(wire, m),
             UNCHANGED <<tin, tout, toollist_first_page_ids, excused, used>>
      PROVE  Unique' /\ Paged'
  <2>1. /\ OnWire' = OnWire \cup {m} /\ DOMAIN wire' = 1 .. Len(wire) + 1 /\ Len(wire) \in Nat
        /\ DOMAIN wire = 1 .. Len(wire)
        /\ \A i \in DOMAIN wire : wire'[i] = wire[i]
        /\ wire'[Len(wire) + 1] = m
    BY <1>5, JoinLemma DEF Types
  <2>2. AtTin' = AtTin /\ AtTout' = AtTout /\ Remembers' = Remembers
    BY <1>5 DEF AtTin, AtTout, Remembers
  <2>3. /\ Asked' \subseteq Asked /\ AskedNext' \subseteq AskedNext
        /\ request.asks = "first page" => request \in Asked
        /\ request.asks = "next page" => request \in AskedNext
    BY <1>5, <2>2 DEF Asked, AskedNext
  <2>4. Listings' \subseteq Listings \cup {m}
    BY <1>5, <2>1 DEF Listings
  <2>5. request.asks \in {"server", "first page", "next page"}
    BY PlaceFacts DEF Requests
  <2>6. \A i, j \in DOMAIN wire' : wire'[i].id = wire'[j].id => i = j \/ wire'[i].id \in excused
    <3>1. \A i \in DOMAIN wire : wire[i] \in OnWire
      BY DEF OnWire
    <3>2. \A i \in DOMAIN wire : wire[i].id = m.id => m.id \in excused
      BY <1>5, <3>1 DEF Unique
    <3>3. ASSUME NEW i \in DOMAIN wire', NEW j \in DOMAIN wire', wire'[i].id = wire'[j].id
          PROVE  i = j \/ wire'[i].id \in excused
      <4>1. CASE i \in DOMAIN wire /\ j \in DOMAIN wire
        BY <2>1, <3>3, <4>1 DEF Unique
      <4>2. CASE i \in DOMAIN wire /\ j \notin DOMAIN wire
        BY <2>1, <3>2, <3>3, <4>2
      <4>3. CASE i \notin DOMAIN wire /\ j \in DOMAIN wire
        BY <2>1, <3>2, <3>3, <4>3
      <4>4. CASE i \notin DOMAIN wire /\ j \notin DOMAIN wire
        BY <2>1, <4>4
      <4>5. QED
        BY <4>1, <4>2, <4>3, <4>4
    <3>4. QED
      BY <3>3
  <2>7. \A x \in AtTin \cup requests \cup AtTout :
          x.id = m.id => x = request \/ x.id \in excused
    BY <1>5 DEF Unique
  <2>8. request \notin requests' /\ requests' \subseteq requests
    BY <1>5
  <2>9. m.id \in used.ids \cup excused
    BY <1>5 DEF Unique
  <2>10. /\ \A r \in AtTin, x \in requests' \cup OnWire' \cup AtTout :
              r.id = x.id => r.id \in excused
         /\ \A r \in requests', n \in OnWire' \cup AtTout : r.id = n.id => r.id \in excused
         /\ \A n \in OnWire', x \in AtTout : n.id = x.id => n.id \in excused
    <3>1. \A r \in AtTin : r.id = m.id => r.id \in excused
      BY <1>5 DEF Unique
    <3>2. \A r \in requests' : r.id = m.id => r.id \in excused
      BY <2>7, <2>8
    <3>3. \A x \in AtTout : m.id = x.id => m.id \in excused
      BY <1>5 DEF Unique
    <3>4. QED
      BY <2>1, <2>8, <3>1, <3>2, <3>3 DEF Unique
  <2>11. Unique'
    <3>1. \A x \in AtTin \cup requests' \cup OnWire' \cup AtTout : x.id \in used.ids \cup excused
      BY <2>1, <2>8, <2>9 DEF Unique
    <3>2. \A n \in OnWire' \cup AtTout : n.shape = "request" => n.id \in excused
      BY <1>5, <2>1 DEF Unique
    <3>3. \A r, q \in requests' : r.id = q.id => r = q \/ r.id \in excused
      BY <2>8 DEF Unique
    <3>4. Remembers \subseteq used.ids \cup excused
      BY DEF Unique
    <3>5. QED
      BY <1>5, <2>2, <2>6, <2>10, <3>1, <3>2, <3>3, <3>4 DEF Unique
  <2>12. Paged'
    BY <1>5, <2>2, <2>3, <2>4, <2>5 DEF Paged, Listings
  <2>13. QED
    BY <2>11, <2>12
<1>6. ASSUME NEW request \in requests, Answers(request) PROVE Unique' /\ Paged'
  <2>1. wire' = Append(wire, NewListing(request)) /\ NewListing(request) \in Message
    BY <1>6, NewListingType DEF Answers, NewListing
  <2>2. /\ NewListing(request).id = request.id /\ NewListing(request).shape = "tools"
        /\ NewListing(request).first <=> request.asks = "first page"
    BY DEF NewListing
  <2>3. QED
    BY <1>5, <1>6, <2>1, <2>2 DEF Answers, processor
<1>7. ASSUME NEW request \in requests, NEW shape \in {"server", "error", "other"},
             AnswersOtherwise(request, shape)
      PROVE  Unique' /\ Paged'
  <2> DEFINE m == [id |-> request.id, shape |-> shape]
  <2>1. m \in Message /\ m.id = request.id /\ m.shape \notin {"tools", "request"}
    BY PlaceFacts DEF Requests, Message
  <2> HIDE DEF m
  <2>2. wire' = Append(wire, m)
    BY <1>7 DEF AnswersOtherwise, m
  <2>3. QED
    BY <1>5, <1>7, <2>1, <2>2 DEF AnswersOtherwise, processor
<1>8. ASSUME NEW id \in Ids, Pings(id) PROVE Unique' /\ Paged'
  <2> DEFINE m == [id |-> id, shape |-> "request"]
  <2>1. m \in Message /\ m.id = id /\ m.shape = "request"
    BY DEF Message
  <2> HIDE DEF m
  <2>2. /\ wire' = Append(wire, m) /\ excused' = excused \cup {id} /\ used'.ids = used.ids
        /\ UNCHANGED <<requests, tin, tout, toollist_first_page_ids>>
    BY <1>8, SpendLemma DEF Pings, processor, m
  <2>3. /\ OnWire' = OnWire \cup {m} /\ DOMAIN wire' = 1 .. Len(wire) + 1 /\ Len(wire) \in Nat
        /\ DOMAIN wire = 1 .. Len(wire)
        /\ \A i \in DOMAIN wire : wire'[i] = wire[i]
        /\ wire'[Len(wire) + 1] = m
    BY <2>1, <2>2, JoinLemma DEF Types
  <2>4. /\ AtTin' = AtTin /\ AtTout' = AtTout /\ Remembers' = Remembers /\ Asked' = Asked
        /\ AskedNext' = AskedNext /\ Listings' = Listings
    BY <2>1, <2>2, <2>3 DEF AtTin, AtTout, Remembers, Asked, AskedNext, Listings
  <2>5. Unique'
    BY <2>1, <2>2, <2>3, <2>4 DEF Unique
  <2>6. Paged'
    BY <2>2, <2>4 DEF Paged
  <2>7. QED
    BY <2>5, <2>6
<1>9. CASE Receive
  <2>1. /\ tout.pc = "read" /\ tout' = [pc |-> "capture", msg |-> Head(wire), added |-> {}]
        /\ UNCHANGED <<requests, tin, toollist_first_page_ids, excused, used>>
    BY <1>9 DEF Receive, processor
  <2>2. /\ Len(wire) \in Nat \ {0} /\ DOMAIN wire = 1 .. Len(wire) /\ DOMAIN wire' = 1 .. Len(wire) - 1
        /\ \A i \in DOMAIN wire' : wire'[i] = wire[i + 1]
        /\ Head(wire) = wire[1] /\ OnWire = OnWire' \cup {Head(wire)}
    BY <1>9, LeaveLemma DEF Receive, Types
  <2>3. /\ AtTout = {} /\ AtTout' = {Head(wire)} /\ AtTin' = AtTin /\ Remembers' = Remembers
        /\ Asked' = Asked /\ AskedNext' = AskedNext /\ Listings' = Listings
    BY <2>1, <2>2 DEF AtTout, AtTin, Remembers, Asked, AskedNext, Listings
  <2>4. \A m \in OnWire', n \in AtTout' : m.id = n.id => m.id \in excused
    <3>1. ASSUME NEW i \in DOMAIN wire', wire'[i].id = wire[1].id PROVE wire'[i].id \in excused
      <4>1. i + 1 \in DOMAIN wire /\ 1 \in DOMAIN wire /\ i + 1 # 1
        BY <2>2
      <4>2. QED
        BY <2>2, <3>1, <4>1 DEF Unique
    <3>2. QED
      BY <2>2, <2>3, <3>1 DEF OnWire
  <2>5. \A i, j \in DOMAIN wire' : wire'[i].id = wire'[j].id => i = j \/ wire'[i].id \in excused
    <3>1. ASSUME NEW i \in DOMAIN wire', NEW j \in DOMAIN wire', wire'[i].id = wire'[j].id
          PROVE  i = j \/ wire'[i].id \in excused
      <4>1. i + 1 \in DOMAIN wire /\ j + 1 \in DOMAIN wire /\ (i + 1 = j + 1 => i = j)
        BY <2>2
      <4>2. QED
        BY <2>2, <3>1, <4>1 DEF Unique
    <3>2. QED
      BY <3>1
  <2>6. Unique'
    BY <2>1, <2>2, <2>3, <2>4, <2>5 DEF Unique
  <2>7. Paged'
    BY <2>1, <2>3 DEF Paged
  <2>8. QED
    BY <2>6, <2>7
<1>10. CASE ForgetFirstPage \/ CaptureSurface
  <2>1. /\ tout.pc = "capture" /\ tout'.pc # "capture" /\ AtTout = {tout.msg} /\ AtTout' = {tout.msg}
        /\ UNCHANGED <<requests, wire, tin, excused, used>>
    BY <1>10, PumpStepLemma, GotoLemma DEF ForgetFirstPage, CaptureSurface, At
  <2>2. Remembers' \subseteq Remembers /\ Remembers \ {tout.msg.id} \subseteq Remembers'
    <3>1. toollist_first_page_ids \in Seq(Ids)
      BY DEF Types
    <3>2. toollist_first_page_ids' = Forgotten(toollist_first_page_ids, tout.msg.id)
      BY <1>10 DEF ForgetFirstPage, CaptureSurface
    <3>3. QED
      BY <3>1, <3>2, ForgottenLemma DEF Remembers
  <2>3. AtTin' = AtTin /\ OnWire' = OnWire /\ Asked' = Asked /\ AskedNext' = AskedNext
    BY <2>1 DEF AtTin, OnWire, Asked, AskedNext
  <2>4. Listings' \subseteq Listings /\ Listings' \subseteq OnWire
    BY <2>1 DEF Listings, OnWire
  <2>5. Asked \subseteq requests \cup AtTin
    BY DEF Asked, AtTin
  <2>6. \A x \in Asked \cup Listings' : x.id = tout.msg.id => x.id \in excused
    BY <2>1, <2>4, <2>5 DEF Unique
  <2>7. Unique'
    BY <2>1, <2>2, <2>3 DEF Unique
  <2>8. Paged'
    BY <2>1, <2>2, <2>3, <2>4, <2>6 DEF Paged
  <2>9. QED
    BY <2>7, <2>8
<1>11. CASE CaptureNothing \/ LearnServer \/ Digest \/ EmitSnapshot \/ EmitFails \/ InjectIntentParams
  <2>1. /\ UNCHANGED <<requests, wire, tin, excused, used, toollist_first_page_ids>>
        /\ AtTout' = AtTout /\ tout'.pc # "capture"
    BY <1>11, PumpStepLemma
    DEF CaptureNothing, LearnServer, Digest, EmitSnapshot, EmitFails, InjectIntentParams, processor
  <2>2. AtTin' = AtTin /\ Asked' = Asked /\ Listings' \subseteq Listings
    BY <2>1 DEF AtTin, Asked, Listings, OnWire
  <2>3. QED
    BY <2>1, <2>2, IdsFrame
<1>12. CASE Relay
  <2>1. /\ UNCHANGED <<requests, wire, tin, excused, used, toollist_first_page_ids>>
        /\ tout'.pc = "read"
    BY <1>12 DEF Relay, Reading, processor
  <2>2. /\ AtTin' = AtTin /\ Asked' = Asked /\ AtTout' \subseteq AtTout /\ Listings' \subseteq Listings
    BY <2>1 DEF AtTin, Asked, AtTout, Listings, OnWire
  <2>3. QED
    BY <2>1, <2>2, IdsFrame
<1>13. CASE UNCHANGED vars
  <2>1. UNCHANGED <<requests, wire, tin, tout, excused, used, toollist_first_page_ids>>
    BY <1>13 DEF vars, processor
  <2>2. /\ AtTin' = AtTin /\ Asked' = Asked /\ AtTout' = AtTout /\ Listings' = Listings
    BY <2>1 DEF AtTin, Asked, AtTout, Listings, OnWire
  <2>3. QED
    BY <2>1, <2>2, IdsFrame
<1>14. QED
  BY <1>1, <1>2, <1>3, <1>4, <1>6, <1>7, <1>8, <1>9, <1>10, <1>11, <1>12, <1>13
  DEF Next, ClientPump, Upstream, ServerPump

-----------------------------------------------------------------------------
(* Surfaces.                                                                *)

Surfacing == Captured /\ SurfacesAreSentOnce /\ SnapshotsAreSurfaces

\* The processor does nothing.
LEMMA SurfacingFrame ==
  ASSUME Surfacing, UNCHANGED <<tout, snapshots, lost, emitted_surface_hashes, server_meta>>,
         had \subseteq had', excused \subseteq excused', now'.tools \in had',
         \A m \in OnWire' : IsWhole(m) => m \in OnWire \/ m.tools \in had'
  PROVE  Surfacing'
<1>1. AtTout' = AtTout /\ Sent' = Sent
  BY DEF AtTout, Sent
<1>2. \A m : SurfaceOf(m)' = SurfaceOf(m)
  BY DEF SurfaceOf
<1>3. Captured'
  BY <1>1, <1>2 DEF Surfacing, Captured, IsWhole
<1>4. SurfacesAreSentOnce' /\ SnapshotsAreSurfaces'
  BY DEF Surfacing, SurfacesAreSentOnce, SnapshotsAreSurfaces
<1>5. QED
  BY <1>3, <1>4 DEF Surfacing

\* Nothing is sent.
LEMMA SentFrame ==
  ASSUME SurfacesAreSentOnce, SnapshotsAreSurfaces, UNCHANGED <<snapshots, had, excused>>
  PROVE  SurfacesAreSentOnce' /\ SnapshotsAreSurfaces' /\ Sent' = Sent
BY DEF SurfacesAreSentOnce, SnapshotsAreSurfaces, Sent

\* A listing that is whole is the surface of its moment.
LEMMA WholeLemma ==
  ASSUME Types, NEW request \in requests, IsWhole(NewListing(request))
  PROVE  NewListing(request).tools = now.tools
<1>1. ~now.paged
  BY DEF IsWhole, NewListing
<1>2. PageOf(request) = Tools
  BY <1>1 DEF PageOf
<1>3. now.tools \in [Tools -> Declarations]
  BY DEF Types, Surface
<1>4. QED
  BY <1>2, <1>3 DEF NewListing

LEMMA SurfacingLemma == ASSUME IInv, [Next]_vars PROVE Surfacing'
<1>0. Types /\ Unique /\ Paged /\ Surfacing /\ Known
  BY DEF IInv, Surfacing
<1>1. CASE ClientPump \/ (\E tools \in Surface, paged \in BOOLEAN : Changes(tools, paged))
             \/ UNCHANGED vars
  <2>1. /\ UNCHANGED <<tout, snapshots, lost, emitted_surface_hashes, server_meta, wire>>
        /\ had \subseteq had' /\ excused \subseteq excused'
    BY <1>1 DEF ClientPump, ReadRequest, TrackFirstPage, Forward, ReadCall, ExtractGoalParams,
                ForwardCall, Changes, vars, upstream, processor
  <2>2. now'.tools \in had'
    <3>1. CASE UNCHANGED <<now, had>>
      BY <1>0, <3>1 DEF Surfacing, Captured
    <3>2. ASSUME NEW tools \in Surface, NEW paged \in BOOLEAN, Changes(tools, paged)
          PROVE  now'.tools \in had'
      BY <3>2 DEF Changes
    <3>3. QED
      BY <1>1, <3>1, <3>2 DEF ClientPump, ReadRequest, TrackFirstPage, Forward, ReadCall,
         ExtractGoalParams, ForwardCall, vars, upstream
  <2>3. OnWire' = OnWire
    BY <2>1 DEF OnWire
  <2>4. QED
    BY <1>0, <2>1, <2>2, <2>3, SurfacingFrame
<1>2. ASSUME NEW request \in requests, Answers(request) PROVE Surfacing'
  <2>1. wire' = Append(wire, NewListing(request)) /\ NewListing(request) \in Message
    BY <1>0, <1>2, NewListingType DEF Answers, NewListing
  <2>2. OnWire' = OnWire \cup {NewListing(request)}
    BY <1>0, <2>1, JoinLemma DEF Types
  <2>3. UNCHANGED <<tout, snapshots, lost, emitted_surface_hashes, server_meta, had, now, excused>>
    BY <1>2 DEF Answers, processor
  <2>4. IsWhole(NewListing(request)) => NewListing(request).tools \in had
    BY <1>0, WholeLemma DEF Surfacing, Captured
  <2>5. now'.tools \in had'
    BY <1>0, <2>3 DEF Surfacing, Captured
  <2>6. QED
    BY <1>0, <2>2, <2>3, <2>4, <2>5, SurfacingFrame
<1>3. ASSUME NEW id \in Ids, NEW shape \in {"server", "error", "other", "request"},
             wire' = Append(wire, [id |-> id, shape |-> shape]), excused \subseteq excused',
             UNCHANGED <<tout, snapshots, lost, emitted_surface_hashes, server_meta, had, now>>
      PROVE  Surfacing'
  <2> DEFINE m == [id |-> id, shape |-> shape]
  <2>1. m \in Message /\ m.shape # "tools"
    BY DEF Message
  <2>2. OnWire' = OnWire \cup {m}
    BY <1>0, <1>3, <2>1, JoinLemma DEF Types
  <2>3. ~IsWhole(m)
    BY <2>1 DEF IsWhole
  <2>4. now'.tools \in had'
    BY <1>0, <1>3 DEF Surfacing, Captured
  <2> HIDE DEF m
  <2>5. QED
    BY <1>0, <1>3, <2>2, <2>3, <2>4, SurfacingFrame
<1>4. ASSUME NEW request \in requests, NEW shape \in {"server", "error", "other"},
             AnswersOtherwise(request, shape)
      PROVE  Surfacing'
  <2>1. request.id \in Ids
    BY <1>0 DEF Types, Requests
  <2>2. QED
    BY <1>3, <1>4, <2>1 DEF AnswersOtherwise, upstream, processor
<1>5. ASSUME NEW id \in Ids, Pings(id) PROVE Surfacing'
  BY <1>3, <1>5 DEF Pings, upstream, processor
<1>6. CASE Receive
  <2>1. /\ tout.pc = "read" /\ tout'.pc = "capture" /\ tout'.msg = Head(wire)
        /\ UNCHANGED <<now, had, excused, snapshots, lost, emitted_surface_hashes>>
    BY <1>6 DEF Receive, upstream, processor
  <2>2. OnWire = OnWire' \cup AtTout'
    BY <1>0, <1>6, <2>1, LeaveLemma DEF Receive, Types, AtTout
  <2>3. SurfacesAreSentOnce' /\ SnapshotsAreSurfaces' /\ Sent' = Sent
    BY <1>0, <2>1, SentFrame DEF Surfacing
  <2>4. Captured'
    BY <1>0, <2>1, <2>2, <2>3 DEF Surfacing, Captured, IsWhole
  <2>5. QED
    BY <2>3, <2>4 DEF Surfacing
\* The steps of the server pump with one message.
<1>7. ASSUME ForgetFirstPage \/ CaptureNothing \/ LearnServer \/ CaptureSurface \/ Digest
               \/ EmitSnapshot \/ EmitFails \/ InjectIntentParams
      PROVE  /\ tout'.msg = tout.msg /\ tout.msg \in Message /\ tout.msg \in AtTout
             /\ UNCHANGED <<now, had, excused>>
             /\ now'.tools \in had'
             /\ \A m \in OnWire' \cup AtTout' : IsWhole(m) => m.tools \in had'
  <2>1. /\ tout'.msg = tout.msg /\ tout.msg \in Message /\ AtTout = {tout.msg} /\ AtTout' = AtTout
        /\ UNCHANGED <<now, had, excused, wire>>
    BY <1>0, <1>7, PumpStepLemma DEF upstream
  <2>2. OnWire' = OnWire
    BY <2>1 DEF OnWire
  <2>3. QED
    BY <1>0, <2>1, <2>2 DEF Surfacing, Captured
<1>8. CASE ForgetFirstPage \/ CaptureNothing \/ LearnServer
  <2>1. /\ tout.pc = "capture" /\ tout'.pc = "relay" /\ tout.msg.shape # "tools"
        /\ UNCHANGED <<snapshots, lost, emitted_surface_hashes>>
    <3>1. CASE ForgetFirstPage
      BY <1>0, <3>1, GotoLemma DEF ForgetFirstPage, At
    <3>2. CASE CaptureNothing
      BY <1>0, <3>2, GotoLemma DEF CaptureNothing, At, processor
    <3>3. CASE LearnServer
      BY <1>0, <3>3, GotoLemma DEF LearnServer, At
    <3>4. QED
      BY <1>8, <3>1, <3>2, <3>3
  <2>2. SurfacesAreSentOnce' /\ SnapshotsAreSurfaces' /\ Sent' = Sent
    BY <1>0, <1>7, <1>8, <2>1, SentFrame DEF Surfacing
  <2>3. ~IsWhole(tout'.msg)
    BY <1>7, <1>8, <2>1 DEF IsWhole
  <2>4. Captured'
    BY <1>0, <1>7, <1>8, <2>1, <2>2, <2>3 DEF Surfacing, Captured
  <2>5. QED
    BY <2>2, <2>4 DEF Surfacing
<1>9. CASE CaptureSurface
  <2> DEFINE msg == tout.msg
  <2>1. /\ tout.pc = "capture" /\ msg.shape = "tools"
        /\ tout'.pc = IF IsSurface(msg) THEN "digest" ELSE "inject"
        /\ UNCHANGED <<snapshots, lost, emitted_surface_hashes, server_meta>>
    <3>1. Goto(IF IsSurface(msg) THEN "digest" ELSE "inject")
      BY <1>9 DEF CaptureSurface
    <3>2. QED
      BY <1>0, <1>9, <3>1, GotoLemma DEF CaptureSurface, At
  <2>2. msg \in Listings /\ msg.first \in BOOLEAN /\ msg.nextCursor \in BOOLEAN
    BY <1>7, <1>9, <2>1, MessageFacts DEF Listings
  <2>3. IsSurface(msg) => msg.tools \in had \/ msg.id \in excused
    <3>1. CASE msg.first
      BY <1>0, <1>7, <1>9, <2>1, <3>1 DEF IsSurface, IsWhole, Surfacing, Captured
    <3>2. CASE ~msg.first
      BY <1>0, <2>2, <3>2 DEF IsSurface, Paged, Remembers
    <3>3. QED
      BY <2>2, <3>1, <3>2
  <2>4. ~IsSurface(msg) /\ IsWhole(msg) => msg.id \in excused
    BY <1>0, <2>2 DEF IsSurface, IsWhole, Paged, Remembers
  <2>5. SurfacesAreSentOnce' /\ SnapshotsAreSurfaces' /\ Sent' = Sent
    BY <1>0, <1>7, <1>9, <2>1, SentFrame DEF Surfacing
  <2>6. Captured'
    BY <1>0, <1>7, <1>9, <2>1, <2>3, <2>4, <2>5 DEF Surfacing, Captured, IsWhole
  <2>7. QED
    BY <2>5, <2>6 DEF Surfacing
<1>10. CASE Digest
  <2> DEFINE S == SurfaceOf(tout.msg.tools)
  <2>1. /\ tout.pc = "digest" /\ tout'.pc = IF S \in emitted_surface_hashes THEN "inject" ELSE "emit"
        /\ emitted_surface_hashes' = emitted_surface_hashes \cup {S}
        /\ UNCHANGED <<snapshots, lost, server_meta>>
    <3>1. tout.pc = "digest" /\ SurfaceOf(ToolsNow) = S
      BY <1>0, <1>10, NothingAdded DEF Digest, At
    <3>2. Goto(IF S \in emitted_surface_hashes THEN "inject" ELSE "emit")
      BY <1>10, <3>1 DEF Digest
    <3>3. QED
      BY <1>0, <1>10, <3>1, <3>2, GotoLemma DEF Digest
  <2>2. SurfacesAreSentOnce' /\ SnapshotsAreSurfaces' /\ Sent' = Sent
    BY <1>0, <1>7, <1>10, <2>1, SentFrame DEF Surfacing
  <2>3. SurfaceOf(tout.msg.tools)' = S
    BY <1>7, <1>10, <2>1 DEF SurfaceOf
  <2>4. emitted_surface_hashes = Sent \cup lost
    BY <1>0, <2>1 DEF Surfacing, Captured
  <2> HIDE DEF S
  <2>5. Captured'
    BY <1>0, <1>7, <1>10, <2>1, <2>2, <2>3, <2>4 DEF Surfacing, Captured
  <2>6. QED
    BY <2>2, <2>5 DEF Surfacing
<1>11. CASE EmitSnapshot
  <2> DEFINE S == SurfaceOf(tout.msg.tools)
             s == [surface |-> S, id |-> tout.msg.id, met |-> tout.msg.met]
  <2>1. /\ tout.pc = "emit" /\ tout'.pc = "inject" /\ snapshots' = Append(snapshots, s)
        /\ UNCHANGED <<emitted_surface_hashes, lost, server_meta>>
    BY <1>0, <1>11, GotoLemma, NothingAdded DEF EmitSnapshot, At
  <2>2. SurfaceOf(tout.msg.tools)' = S /\ S \notin Sent /\ emitted_surface_hashes = Sent \cup lost \cup {S}
    BY <1>0, <1>7, <1>11, <2>1 DEF SurfaceOf, Surfacing, Captured
  <2>3. /\ Len(snapshots) \in Nat /\ DOMAIN snapshots = 1 .. Len(snapshots)
        /\ DOMAIN snapshots' = 1 .. Len(snapshots) + 1
        /\ \A i \in DOMAIN snapshots : snapshots'[i] = snapshots[i]
        /\ snapshots'[Len(snapshots) + 1] = s
    <3>1. snapshots \in Seq([surface : Surfaces, id : Ids, met : BOOLEAN])
      BY <1>0 DEF Types
    <3> HIDE DEF s
    <3>2. QED
      BY <2>1, <3>1
  <2>4. s.surface = S /\ s.id = tout.msg.id /\ s.met = tout.msg.met
    OBVIOUS
  <2>5. Sent' = Sent \cup {S}
    <3> HIDE DEF s
    <3>1. QED
      BY <2>3, <2>4 DEF Sent
  <2>6. SurfacesAreSentOnce'
    <3>1. \A n \in DOMAIN snapshots : snapshots[n].surface # S
      BY <2>2 DEF Sent
    <3> HIDE DEF s, S
    <3>2. ASSUME NEW m \in DOMAIN snapshots', NEW n \in DOMAIN snapshots',
                 snapshots'[m].surface = snapshots'[n].surface
          PROVE  m = n
      <4>1. CASE m \in DOMAIN snapshots /\ n \in DOMAIN snapshots
        BY <1>0, <2>3, <3>2, <4>1 DEF Surfacing, SurfacesAreSentOnce
      <4>2. CASE m \in DOMAIN snapshots /\ n \notin DOMAIN snapshots
        BY <2>3, <2>4, <3>1, <3>2, <4>2
      <4>3. CASE m \notin DOMAIN snapshots /\ n \in DOMAIN snapshots
        BY <2>3, <2>4, <3>1, <3>2, <4>3
      <4>4. CASE m \notin DOMAIN snapshots /\ n \notin DOMAIN snapshots
        BY <2>3, <4>4
      <4>5. QED
        BY <4>1, <4>2, <4>3, <4>4
    <3>3. QED
      BY <3>2 DEF SurfacesAreSentOnce
  <2>7. SnapshotsAreSurfaces'
    <3>1. s.surface.tools \in had \/ s.id \in excused
      BY <1>0, <2>1 DEF Surfacing, Captured, SurfaceOf
    <3>2. s.met => s.surface.server = "known"
      <4>1. tout.msg.shape = "tools" /\ tout.msg \in AtTout
        BY <1>0, <1>7, <1>11, <2>1 DEF Types
      <4>2. QED
        BY <1>0, <4>1 DEF Known, SurfaceOf
    <3> HIDE DEF s
    <3>3. QED
      BY <1>0, <1>7, <1>11, <2>3, <3>1, <3>2 DEF Surfacing, SnapshotsAreSurfaces
  <2> HIDE DEF S
  <2>8. Captured'
    BY <1>0, <1>7, <1>11, <2>1, <2>2, <2>5 DEF Surfacing, Captured
  <2>9. QED
    BY <2>6, <2>7, <2>8 DEF Surfacing
<1>12. CASE EmitFails
  <2> DEFINE S == SurfaceOf(tout.msg.tools)
  <2>1. /\ tout.pc = "emit" /\ tout'.pc = "inject" /\ lost' = lost \cup {S}
        /\ UNCHANGED <<emitted_surface_hashes, snapshots, server_meta>>
    BY <1>0, <1>12, GotoLemma, NothingAdded DEF EmitFails, At
  <2>2. SurfaceOf(tout.msg.tools)' = S /\ emitted_surface_hashes = Sent \cup lost \cup {S}
    BY <1>0, <1>7, <1>12, <2>1 DEF SurfaceOf, Surfacing, Captured
  <2>3. SurfacesAreSentOnce' /\ SnapshotsAreSurfaces' /\ Sent' = Sent
    BY <1>0, <1>7, <1>12, <2>1, SentFrame DEF Surfacing
  <2> HIDE DEF S
  <2>4. Captured'
    BY <1>0, <1>7, <1>12, <2>1, <2>2, <2>3 DEF Surfacing, Captured
  <2>5. QED
    BY <2>3, <2>4 DEF Surfacing
<1>13. CASE InjectIntentParams
  <2>1. /\ tout.pc = "inject" /\ tout'.pc = "relay"
        /\ UNCHANGED <<emitted_surface_hashes, lost, snapshots, server_meta>>
    BY <1>0, <1>13, InjectLemma DEF InjectIntentParams
  <2>2. SurfacesAreSentOnce' /\ SnapshotsAreSurfaces' /\ Sent' = Sent
    BY <1>0, <1>7, <1>13, <2>1, SentFrame DEF Surfacing
  <2>3. SurfaceOf(tout.msg.tools)' = SurfaceOf(tout.msg.tools)
    BY <1>7, <1>13, <2>1 DEF SurfaceOf
  <2>4. Captured'
    BY <1>0, <1>7, <1>13, <2>1, <2>2, <2>3 DEF Surfacing, Captured, IsWhole
  <2>5. QED
    BY <2>2, <2>4 DEF Surfacing
<1>14. CASE Relay
  <2>1. /\ tout.pc = "relay" /\ tout'.pc = "read"
        /\ UNCHANGED <<now, had, excused, wire, emitted_surface_hashes, lost, snapshots, server_meta>>
    BY <1>14 DEF Relay, At, Reading, upstream, processor
  <2>2. AtTout' = {} /\ OnWire' = OnWire
    BY <2>1 DEF AtTout, OnWire
  <2>3. SurfacesAreSentOnce' /\ SnapshotsAreSurfaces' /\ Sent' = Sent
    BY <1>0, <2>1, SentFrame DEF Surfacing
  <2>4. Captured'
    BY <1>0, <2>1, <2>2, <2>3 DEF Surfacing, Captured
  <2>5. QED
    BY <2>3, <2>4 DEF Surfacing
<1>15. QED
  BY <1>1, <1>2, <1>4, <1>5, <1>6, <1>8, <1>9, <1>10, <1>11, <1>12, <1>13, <1>14
  DEF Next, Upstream, ServerPump

-----------------------------------------------------------------------------
(* Who knows the server.                                                    *)

LEMMA KnownLemma == ASSUME IInv, [Next]_vars PROVE Known'
<1>0. Types /\ Known
  BY DEF IInv
<1>1. server_meta' = server_meta \/ server_meta' = "known"
  BY DEF Next, ClientPump, Upstream, ServerPump, ReadRequest, TrackFirstPage, Forward, ReadCall,
     ExtractGoalParams, ForwardCall, Changes, Answers, AnswersOtherwise, Pings, Receive,
     ForgetFirstPage, CaptureNothing, LearnServer, CaptureSurface, Digest, EmitSnapshot, EmitFails,
     InjectIntentParams, Relay, vars, processor
<1>2. CASE server_meta = "known"
  BY <1>1, <1>2 DEF Known
<1>3. CASE server_meta # "known"
  <2>0. /\ ~met
        /\ \A r \in requests \cup AtTin : ~r.met
        /\ \A m \in OnWire \cup AtTout : m.shape = "tools" => ~m.met
        /\ tout.pc = "relay" => tout.msg.shape # "server"
    BY <1>0, <1>3 DEF Known
  <2>1. CASE ClientPump \/ (\E tools \in Surface, paged \in BOOLEAN : Changes(tools, paged))
               \/ UNCHANGED vars
    <3>1. UNCHANGED <<met, wire, tout>>
      BY <2>1 DEF ClientPump, ReadRequest, TrackFirstPage, Forward, ReadCall, ExtractGoalParams,
                  ForwardCall, Changes, vars, client
    <3>2. OnWire' = OnWire /\ AtTout' = AtTout
      BY <3>1 DEF OnWire, AtTout
    <3>3. \A r \in requests' \cup AtTin' : r \in requests \cup AtTin \/ ~r.met
      <4>1. ASSUME NEW id \in Ids, NEW asks \in {"server", "first page", "next page"},
                   ReadRequest(id, asks)
            PROVE  \A r \in requests' \cup AtTin' : r \in requests \cup AtTin \/ ~r.met
        <5>1. requests' = requests /\ AtTin' \subseteq {[id |-> id, asks |-> asks, met |-> met]}
          BY <4>1 DEF ReadRequest, AtTin
        <5>2. ~[id |-> id, asks |-> asks, met |-> met].met
          BY <2>0
        <5>3. QED
          BY <5>1, <5>2
      <4>2. CASE TrackFirstPage
        <5>1. tin \in [pc : {"track", "forward"}, request : Requests]
          BY <1>0, <4>2, TinFacts DEF TrackFirstPage, Types
        <5>2. tin' = [tin EXCEPT !.pc = "forward"] /\ UNCHANGED requests
          BY <4>2 DEF TrackFirstPage
        <5>3. AtTin' = AtTin
          BY <5>1, <5>2 DEF AtTin
        <5>4. QED
          BY <5>2, <5>3
      <4>3. CASE Forward
        BY <4>3 DEF Forward, AtTin, Reading
      <4>4. ASSUME NEW tool \in Tools, ReadCall(tool)
            PROVE  \A r \in requests' \cup AtTin' : r \in requests \cup AtTin \/ ~r.met
        BY <4>4 DEF ReadCall, AtTin
      <4>5. CASE ExtractGoalParams
        BY <4>5 DEF ExtractGoalParams, AtTin
      <4>6. CASE ForwardCall
        BY <4>6 DEF ForwardCall, AtTin, Reading
      <4>7. CASE UNCHANGED <<requests, tin>>
        BY <4>7 DEF AtTin
      <4>8. QED
        BY <2>1, <4>1, <4>2, <4>3, <4>4, <4>5, <4>6, <4>7 DEF ClientPump, Changes, vars
    <3>4. QED
      BY <2>0, <3>1, <3>2, <3>3 DEF Known
  <2>2. ASSUME NEW request \in requests, Answers(request) PROVE Known'
    <3>1. wire' = Append(wire, NewListing(request)) /\ NewListing(request) \in Message
      BY <1>0, <2>2, NewListingType DEF Answers, NewListing
    <3>2. OnWire' = OnWire \cup {NewListing(request)}
      BY <1>0, <3>1, JoinLemma DEF Types
    <3>3. NewListing(request).met = request.met
      BY DEF NewListing
    <3>4. requests' \subseteq requests /\ UNCHANGED <<tin, tout, met>>
      BY <2>2 DEF Answers, client
    <3>5. AtTin' = AtTin /\ AtTout' = AtTout
      BY <3>4 DEF AtTin, AtTout
    <3>6. QED
      BY <2>0, <3>2, <3>3, <3>4, <3>5 DEF Known
  <2>3. ASSUME NEW id \in Ids, NEW shape \in {"server", "error", "other", "request"},
               wire' = Append(wire, [id |-> id, shape |-> shape]),
               requests' \subseteq requests, UNCHANGED <<tin, tout, met>>
        PROVE  Known'
    <3> DEFINE m == [id |-> id, shape |-> shape]
    <3>1. m \in Message /\ m.shape # "tools"
      BY DEF Message
    <3>2. OnWire' = OnWire \cup {m}
      BY <1>0, <2>3, <3>1, JoinLemma DEF Types
    <3>3. AtTin' = AtTin /\ AtTout' = AtTout
      BY <2>3 DEF AtTin, AtTout
    <3> HIDE DEF m
    <3>4. QED
      BY <2>0, <2>3, <3>1, <3>2, <3>3 DEF Known
  <2>4. ASSUME NEW request \in requests, NEW shape \in {"server", "error", "other"},
               AnswersOtherwise(request, shape)
        PROVE  Known'
    <3>1. request.id \in Ids
      BY <1>0 DEF Types, Requests
    <3>2. QED
      BY <2>3, <2>4, <3>1 DEF AnswersOtherwise, client
  <2>5. ASSUME NEW id \in Ids, Pings(id) PROVE Known'
    BY <2>3, <2>5 DEF Pings, client
  <2>6. CASE Receive
    <3>1. OnWire = OnWire' \cup AtTout'
      BY <1>0, <2>6, LeaveLemma DEF Receive, Types, AtTout
    <3>2. tout'.pc = "capture" /\ UNCHANGED <<requests, tin, met>>
      BY <2>6 DEF Receive, client
    <3>3. AtTin' = AtTin
      BY <3>2 DEF AtTin
    <3>4. QED
      BY <2>0, <3>1, <3>2, <3>3 DEF Known
  <2>7. CASE LearnServer
    BY <2>7 DEF LearnServer, Known
  <2>8. ASSUME ForgetFirstPage \/ CaptureNothing \/ CaptureSurface \/ Digest \/ EmitSnapshot
                 \/ EmitFails \/ InjectIntentParams
        PROVE  Known'
    <3>1. /\ UNCHANGED <<requests, wire, tin, met>> /\ AtTout' = AtTout /\ tout'.msg = tout.msg
      BY <1>0, <2>8, PumpStepLemma DEF client
    <3>2. AtTin' = AtTin /\ OnWire' = OnWire
      BY <3>1 DEF AtTin, OnWire
    <3>3. tout.msg.shape # "server"
      BY <1>0, <2>8 DEF ForgetFirstPage, CaptureNothing, CaptureSurface, Digest, EmitSnapshot,
                        EmitFails, InjectIntentParams, At, Types
    <3>4. QED
      BY <2>0, <3>1, <3>2, <3>3 DEF Known
  <2>9. CASE Relay
    <3>1. /\ tout.pc = "relay" /\ tout'.pc = "read" /\ met' = (met \/ tout.msg.shape = "server")
          /\ UNCHANGED <<requests, wire, tin>>
      BY <2>9 DEF Relay, At, Reading
    <3>2. AtTin' = AtTin /\ OnWire' = OnWire /\ AtTout' = {}
      BY <3>1 DEF AtTin, OnWire, AtTout
    <3>3. QED
      BY <2>0, <3>1, <3>2 DEF Known
  <2>10. QED
    BY <2>1, <2>2, <2>4, <2>5, <2>6, <2>7, <2>8, <2>9 DEF Next, Upstream, ServerPump
<1>4. QED
  BY <1>2, <1>3

-----------------------------------------------------------------------------
(* Goals.                                                                   *)

Following == Placed /\ Ordered /\ Recorded

\* What has been listed stays, and what is listed comes last.
LEMMA ListedLemma ==
  ASSUME Types, NEW request \in requests, Answers(request), NEW t \in Tools
  PROVE  /\ listed[t] \in Seq(Declarations) /\ Len(listed[t]) \in Nat /\ Len(listed'[t]) \in Nat
         /\ Len(listed[t]) <= Len(listed'[t])
         /\ \A n \in 1 .. Len(listed[t]) : listed'[t][n] = listed[t][n]
         /\ DOMAIN NewListing(request).place = PageOf(request)
         /\ DOMAIN NewListing(request).tools = PageOf(request)
         /\ t \in PageOf(request) =>
              /\ NewListing(request).place[t] = Len(listed[t]) + 1
              /\ Len(listed'[t]) = Len(listed[t]) + 1
              /\ listed'[t][Len(listed[t]) + 1] = NewListing(request).tools[t]
<1>1. listed[t] \in Seq(Declarations) /\ now.tools[t] \in Declarations
  BY DEF Types, Surface
<1>2. listed'[t] = IF t \in PageOf(request) THEN Append(listed[t], now.tools[t]) ELSE listed[t]
  BY DEF Answers
<1>3. /\ DOMAIN NewListing(request).place = PageOf(request)
      /\ DOMAIN NewListing(request).tools = PageOf(request)
      /\ t \in PageOf(request) => /\ NewListing(request).place[t] = Len(listed[t]) + 1
                                  /\ NewListing(request).tools[t] = now.tools[t]
  BY DEF NewListing
<1>4. Len(listed[t]) \in Nat
  BY <1>1, LenProperties
<1>5. CASE t \in PageOf(request)
  <2>1. /\ Len(Append(listed[t], now.tools[t])) = Len(listed[t]) + 1
        /\ \A n \in 1 .. Len(listed[t]) : Append(listed[t], now.tools[t])[n] = listed[t][n]
        /\ Append(listed[t], now.tools[t])[Len(listed[t]) + 1] = now.tools[t]
    BY <1>1, AppendProperties
  <2>2. QED
    BY <1>1, <1>2, <1>3, <1>4, <1>5, <2>1
<1>6. CASE t \notin PageOf(request)
  BY <1>1, <1>2, <1>3, <1>4, <1>6
<1>7. QED
  BY <1>5, <1>6

\* The places of the listings under way are numbers.
LEMMA PlacesAreNumbers ==
  ASSUME Types, Placed, NEW t \in Tools
  PROVE  /\ seen[t] \in Nat /\ Len(listed[t]) \in Nat
         /\ \A m \in OnWire \cup AtTout : Lists(m, t) => m.place[t] \in Nat
<1>1. listed[t] \in Seq(Declarations) /\ seen[t] \in Nat
  BY DEF Types
<1>2. Len(listed[t]) \in Nat
  BY <1>1, LenProperties
<1>3. ASSUME NEW m \in OnWire \cup AtTout, Lists(m, t) PROVE m.place[t] \in Nat
  <2>1. m.place[t] \in 1 .. Len(listed[t])
    BY <1>3 DEF Lists, Placed
  <2>2. QED
    BY <1>2, <2>1
<1>4. QED
  BY <1>1, <1>2, <1>3

\* No listing comes, goes or is recorded.
LEMMA FollowingFrame ==
  ASSUME Following, UNCHANGED <<listed, wire, tout, seen, param_registry>>
  PROVE  Following'
<1>1. OnWire' = OnWire /\ AtTout' = AtTout
  BY DEF OnWire, AtTout
<1>2. Placed' /\ Ordered'
  BY <1>1 DEF Following, Placed, Ordered, Lists
<1>3. \A t, n : Current(t, n)' <=> Current(t, n)
  BY <1>1 DEF Current, Lists, Said
<1>4. QED
  BY <1>2, <1>3 DEF Following, Recorded

\* The message that the pump has stays where it was recorded, or was not.
LEMMA FollowingPumpFrame ==
  ASSUME Following, UNCHANGED <<listed, wire, seen, param_registry>>, AtTout' = AtTout,
         tout'.pc = "relay" => tout'.msg.shape # "tools"
  PROVE  Following'
<1>1. OnWire' = OnWire
  BY DEF OnWire
<1>2. Placed' /\ Ordered'
  BY <1>1 DEF Following, Placed, Ordered, Lists
<1>3. \A t, n : Current(t, n) => Current(t, n)'
  BY <1>1 DEF Current, Lists, Said
<1>4. QED
  BY <1>2, <1>3 DEF Following, Recorded

LEMMA FollowingLemma == ASSUME IInv, [Next]_vars PROVE Following'
<1>0. Types /\ Following /\ Placed /\ Ordered /\ Recorded
  BY DEF IInv, Following
<1>1. CASE ClientPump \/ (\E tools \in Surface, paged \in BOOLEAN : Changes(tools, paged))
             \/ UNCHANGED vars
  <2>1. UNCHANGED <<listed, wire, tout, seen, param_registry>>
    BY <1>1 DEF ClientPump, ReadRequest, TrackFirstPage, Forward, ReadCall, ExtractGoalParams,
                ForwardCall, Changes, vars, upstream, processor, client
  <2>2. QED
    BY <1>0, <2>1, FollowingFrame
<1>2. ASSUME NEW request \in requests, Answers(request) PROVE Following'
  <2> DEFINE m == NewListing(request)
  <2>1. wire' = Append(wire, m) /\ m \in Message /\ m.shape = "tools"
    BY <1>0, <1>2, NewListingType DEF Answers, NewListing
  <2>2. /\ OnWire' = OnWire \cup {m} /\ DOMAIN wire' = 1 .. Len(wire) + 1 /\ Len(wire) \in Nat
        /\ DOMAIN wire = 1 .. Len(wire)
        /\ \A i \in DOMAIN wire : wire'[i] = wire[i]
        /\ wire'[Len(wire) + 1] = m
    BY <1>0, <2>1, JoinLemma DEF Types
  <2>3. UNCHANGED <<tout, seen, param_registry>>
    BY <1>2 DEF Answers, client, processor
  <2>4. AtTout' = AtTout
    BY <2>3 DEF AtTout
  <2>5. PageOf(request) \subseteq Tools
    BY SurfaceAssumption DEF PageOf
  <2> HIDE DEF m
  <2>6. ASSUME NEW t \in Tools
        PROVE  /\ Len(listed[t]) \in Nat /\ Len(listed'[t]) \in Nat
               /\ Len(listed[t]) <= Len(listed'[t])
               /\ \A n \in 1 .. Len(listed[t]) : listed'[t][n] = listed[t][n]
               /\ DOMAIN m.place = PageOf(request) /\ DOMAIN m.tools = PageOf(request)
               /\ t \in PageOf(request) => /\ m.place[t] = Len(listed[t]) + 1
                                           /\ Len(listed'[t]) = Len(listed[t]) + 1
                                           /\ listed'[t][Len(listed[t]) + 1] = m.tools[t]
    BY <1>0, <1>2, ListedLemma DEF m
  <2>7. DOMAIN m.place = PageOf(request) /\ DOMAIN m.tools = PageOf(request)
    BY DEF m, NewListing
  <2>8. \A x \in OnWire \cup AtTout, t \in Tools : Lists(x, t) =>
          x.place[t] \in 1 .. Len(listed[t]) /\ listed[t][x.place[t]] = x.tools[t]
    BY <1>0 DEF Placed, Lists
  <2>9. Placed'
    <3>1. ASSUME NEW x \in OnWire \cup AtTout, x.shape = "tools"
          PROVE  /\ DOMAIN x.place = DOMAIN x.tools
                 /\ \A t \in DOMAIN x.place : /\ x.place[t] \in 1 .. Len(listed'[t])
                                              /\ listed'[t][x.place[t]] = x.tools[t]
      <4>1. x \in Message
        BY <1>0, PlaceFacts
      <4>2. DOMAIN x.place \subseteq Tools
        <5>1. x.place \in Places
          BY <3>1, <4>1, MessageFacts
        <5>2. QED
          BY <5>1 DEF Places
      <4>3. DOMAIN x.place = DOMAIN x.tools
        BY <1>0, <3>1 DEF Placed
      <4>4. ASSUME NEW t \in DOMAIN x.place
            PROVE  x.place[t] \in 1 .. Len(listed'[t]) /\ listed'[t][x.place[t]] = x.tools[t]
        <5>1. x.place[t] \in 1 .. Len(listed[t]) /\ listed[t][x.place[t]] = x.tools[t]
          BY <1>0, <3>1 DEF Placed
        <5>2. t \in Tools
          BY <4>2
        <5>3. /\ Len(listed[t]) \in Nat /\ Len(listed'[t]) \in Nat
              /\ Len(listed[t]) <= Len(listed'[t])
              /\ \A n \in 1 .. Len(listed[t]) : listed'[t][n] = listed[t][n]
          BY <2>6, <5>2
        <5>4. QED
          BY <5>1, <5>3
      <4>5. QED
        BY <4>3, <4>4
    <3>2. ASSUME NEW t \in DOMAIN m.place
          PROVE  m.place[t] \in 1 .. Len(listed'[t]) /\ listed'[t][m.place[t]] = m.tools[t]
      <4>1. t \in PageOf(request) /\ t \in Tools
        BY <2>5, <2>7
      <4>2. QED
        BY <2>6, <4>1
    <3>3. QED
      BY <2>2, <2>4, <2>7, <3>1, <3>2 DEF Placed
  <2>10. Ordered'
    <3>1. ASSUME NEW t \in Tools
          PROVE  /\ \A i, j \in DOMAIN wire' :
                      i < j /\ Lists(wire'[i], t) /\ Lists(wire'[j], t) =>
                        wire'[i].place[t] <= wire'[j].place[t]
                 /\ \A x \in AtTout, i \in DOMAIN wire' : Lists(x, t) /\ Lists(wire'[i], t) =>
                      x.place[t] <= wire'[i].place[t]
                 /\ \A x \in OnWire' \cup AtTout : Lists(x, t) => seen[t] <= x.place[t]
      <4>1. \A x \in OnWire \cup AtTout : Lists(x, t) /\ Lists(m, t) => x.place[t] <= m.place[t]
        <5>1. SUFFICES ASSUME NEW x \in OnWire \cup AtTout, Lists(x, t), Lists(m, t)
                       PROVE  x.place[t] <= m.place[t]
          OBVIOUS
        <5>2. x.place[t] \in 1 .. Len(listed[t])
          BY <2>8, <5>1
        <5>3. t \in PageOf(request)
          BY <2>7, <5>1 DEF Lists
        <5>4. m.place[t] = Len(listed[t]) + 1 /\ Len(listed[t]) \in Nat
          BY <2>6, <5>3
        <5>5. QED
          BY <5>2, <5>4
      <4>2. Lists(m, t) => seen[t] <= m.place[t]
        <5>1. SUFFICES ASSUME Lists(m, t) PROVE seen[t] <= m.place[t]
          OBVIOUS
        <5>2. t \in PageOf(request)
          BY <2>7, <5>1 DEF Lists
        <5>3. m.place[t] = Len(listed[t]) + 1 /\ Len(listed[t]) \in Nat
          BY <2>6, <5>2
        <5>4. PICK n \in Nat : seen[t] <= n /\ n <= Len(listed[t])
          BY <1>0 DEF Recorded, Current
        <5>5. seen[t] \in Nat
          BY <1>0, PlacesAreNumbers
        <5>6. QED
          BY <5>3, <5>4, <5>5
      <4>3. \A i \in DOMAIN wire : wire[i] \in OnWire
        BY DEF OnWire
      <4>4. ASSUME NEW i \in DOMAIN wire', NEW j \in DOMAIN wire', i < j,
                   Lists(wire'[i], t), Lists(wire'[j], t)
            PROVE  wire'[i].place[t] <= wire'[j].place[t]
        <5>1. i \in DOMAIN wire /\ wire'[i] = wire[i]
          BY <2>2, <4>4
        <5>2. CASE j \in DOMAIN wire
          BY <1>0, <2>2, <4>4, <5>1, <5>2 DEF Ordered
        <5>3. CASE j \notin DOMAIN wire
          <6>1. wire'[j] = m
            BY <2>2, <5>3
          <6>2. QED
            BY <4>1, <4>3, <4>4, <5>1, <6>1
        <5>4. QED
          BY <5>2, <5>3
      <4>5. ASSUME NEW x \in AtTout, NEW i \in DOMAIN wire', Lists(x, t), Lists(wire'[i], t)
            PROVE  x.place[t] <= wire'[i].place[t]
        <5>1. CASE i \in DOMAIN wire
          BY <1>0, <2>2, <4>5, <5>1 DEF Ordered
        <5>2. CASE i \notin DOMAIN wire
          <6>1. wire'[i] = m
            BY <2>2, <5>2
          <6>2. QED
            BY <4>1, <4>5, <6>1
        <5>3. QED
          BY <5>1, <5>2
      <4>6. \A x \in OnWire' \cup AtTout : Lists(x, t) => seen[t] <= x.place[t]
        BY <1>0, <2>2, <4>2 DEF Ordered
      <4>7. QED
        BY <4>4, <4>5, <4>6
    <3>2. QED
      BY <2>3, <2>4, <3>1 DEF Ordered, Lists
  <2>11. Recorded'
    <3>1. ASSUME NEW t \in Tools PROVE \E n \in Nat : Current(t, n)'
      <4>1. PICK n \in Nat : Current(t, n)
        BY <1>0 DEF Recorded
      <4>2. n <= Len(listed'[t])
        BY <2>6, <4>1 DEF Current
      <4>3. Said(t, n)' <=> Said(t, n)
        <5>1. CASE n = 0
          BY <5>1 DEF Said
        <5>2. CASE n # 0
          <6>1. n \in 1 .. Len(listed[t])
            BY <2>6, <4>1, <5>2 DEF Current
          <6>2. QED
            BY <2>6, <6>1 DEF Said
        <5>3. QED
          BY <5>1, <5>2
      <4>4. Lists(m, t) => n <= m.place[t]
        <5>1. Lists(m, t) => t \in PageOf(request)
          BY <2>7 DEF Lists
        <5>2. QED
          BY <2>6, <4>1, <5>1 DEF Current
      <4>5. Current(t, n)'
        BY <2>2, <2>3, <2>4, <4>1, <4>2, <4>3, <4>4 DEF Current, Lists
      <4>6. QED
        BY <4>5
    <3>2. QED
      BY <3>1 DEF Recorded
  <2>12. QED
    BY <2>9, <2>10, <2>11 DEF Following
<1>3. ASSUME NEW id \in Ids, NEW shape \in {"server", "error", "other", "request"},
             wire' = Append(wire, [id |-> id, shape |-> shape]),
             UNCHANGED <<listed, tout, seen, param_registry>>
      PROVE  Following'
  <2> DEFINE m == [id |-> id, shape |-> shape]
  <2>1. m \in Message /\ m.shape # "tools"
    BY DEF Message
  <2>2. /\ OnWire' = OnWire \cup {m} /\ DOMAIN wire' = 1 .. Len(wire) + 1 /\ Len(wire) \in Nat
        /\ DOMAIN wire = 1 .. Len(wire)
        /\ \A i \in DOMAIN wire : wire'[i] = wire[i]
        /\ wire'[Len(wire) + 1] = m
    BY <1>0, <1>3, <2>1, JoinLemma DEF Types
  <2>3. AtTout' = AtTout
    BY <1>3 DEF AtTout
  <2>4. \A t : ~Lists(m, t)
    BY <2>1 DEF Lists
  <2> HIDE DEF m
  <2>5. Placed'
    BY <1>0, <1>3, <2>1, <2>2, <2>3 DEF Placed
  <2>6. \A i \in DOMAIN wire', t \in Tools : Lists(wire'[i], t) => i \in DOMAIN wire
    BY <2>2, <2>4
  <2>7. Ordered'
    BY <1>0, <1>3, <2>2, <2>3, <2>4, <2>6 DEF Ordered, Lists
  <2>8. \A t, n : Current(t, n) => Current(t, n)'
    BY <1>3, <2>2, <2>3, <2>4 DEF Current, Lists, Said
  <2>9. Recorded'
    BY <1>0, <2>8 DEF Recorded
  <2>10. QED
    BY <2>5, <2>7, <2>9 DEF Following
<1>4. ASSUME NEW request \in requests, NEW shape \in {"server", "error", "other"},
             AnswersOtherwise(request, shape)
      PROVE  Following'
  <2>1. request.id \in Ids
    BY <1>0 DEF Types, Requests
  <2>2. QED
    BY <1>3, <1>4, <2>1 DEF AnswersOtherwise, upstream, processor, client
<1>5. ASSUME NEW id \in Ids, Pings(id) PROVE Following'
  BY <1>3, <1>5 DEF Pings, upstream, processor, client
<1>6. CASE Receive
  <2>1. /\ Len(wire) \in Nat \ {0} /\ DOMAIN wire = 1 .. Len(wire) /\ DOMAIN wire' = 1 .. Len(wire) - 1
        /\ \A i \in DOMAIN wire' : wire'[i] = wire[i + 1]
        /\ Head(wire) = wire[1] /\ OnWire = OnWire' \cup {Head(wire)}
    BY <1>0, <1>6, LeaveLemma DEF Receive, Types
  <2>2. /\ tout'.pc = "capture" /\ AtTout = {} /\ AtTout' = {Head(wire)}
        /\ UNCHANGED <<listed, seen, param_registry>>
    BY <1>6 DEF Receive, AtTout, upstream, processor, client
  <2>3. Placed'
    BY <1>0, <2>1, <2>2 DEF Placed
  <2>4. \A i \in DOMAIN wire' : i + 1 \in DOMAIN wire /\ 1 \in DOMAIN wire /\ 1 < i + 1
    BY <2>1
  <2>5. \A i, j \in DOMAIN wire' : i < j => i + 1 < j + 1
    BY <2>1
  <2>6. Ordered'
    <3>1. ASSUME NEW t \in Tools
          PROVE  /\ \A i, j \in DOMAIN wire' :
                      i < j /\ Lists(wire'[i], t) /\ Lists(wire'[j], t) =>
                        wire'[i].place[t] <= wire'[j].place[t]
                 /\ \A i \in DOMAIN wire' : Lists(wire[1], t) /\ Lists(wire'[i], t) =>
                      wire[1].place[t] <= wire'[i].place[t]
                 /\ \A m \in OnWire : Lists(m, t) => seen[t] <= m.place[t]
      BY <1>0, <2>1, <2>4, <2>5 DEF Ordered
    <3>2. QED
      BY <2>1, <2>2, <3>1 DEF Ordered, Lists
  <2>7. \A t, n : Current(t, n) => Current(t, n)'
    BY <2>1, <2>2 DEF Current, Lists, Said
  <2>8. QED
    BY <1>0, <2>3, <2>6, <2>7 DEF Following, Recorded
<1>7. ASSUME ForgetFirstPage \/ CaptureNothing \/ LearnServer \/ CaptureSurface \/ Digest
               \/ EmitSnapshot \/ EmitFails
      PROVE  Following'
  <2>1. /\ UNCHANGED <<listed, wire, seen>> /\ AtTout' = AtTout /\ tout'.msg = tout.msg
    BY <1>0, <1>7, PumpStepLemma DEF upstream, client
  <2>2. param_registry' = param_registry
    BY <1>7 DEF ForgetFirstPage, CaptureNothing, LearnServer, CaptureSurface, Digest, EmitSnapshot,
                EmitFails, processor
  <2>3. tout'.pc = "relay" => tout'.msg.shape # "tools"
    <3>1. CASE ForgetFirstPage \/ CaptureNothing \/ LearnServer
      BY <2>1, <3>1 DEF ForgetFirstPage, CaptureNothing, LearnServer
    <3>2. CASE CaptureSurface \/ Digest \/ EmitSnapshot \/ EmitFails
      <4>1. PICK pc \in {"digest", "emit", "inject"} : Goto(pc)
        BY <3>2 DEF CaptureSurface, Digest, EmitSnapshot, EmitFails
      <4>2. tout.pc # "read"
        BY <1>0, <1>7, PumpStepLemma
      <4>3. tout'.pc = pc
        BY <1>0, <4>1, <4>2, GotoLemma
      <4>4. QED
        BY <4>3
    <3>3. QED
      BY <1>7, <3>1, <3>2
  <2>4. QED
    BY <1>0, <2>1, <2>2, <2>3, FollowingPumpFrame
<1>8. CASE InjectIntentParams
  <2> DEFINE msg == tout.msg
  <2>1. /\ UNCHANGED <<listed, wire, seen>> /\ AtTout' = {msg} /\ AtTout = {msg} /\ tout'.msg = msg
        /\ msg.shape = "tools" /\ tout'.pc = "relay"
    BY <1>0, <1>8, InjectLemma DEF InjectIntentParams, Types, upstream, client
  <2>2. OnWire' = OnWire
    BY <2>1 DEF OnWire
  <2>3. Placed' /\ Ordered'
    BY <1>0, <2>1, <2>2 DEF Placed, Ordered, Lists
  <2>4. ASSUME NEW t \in Tools PROVE \E n \in Nat : Current(t, n)'
    <3>1. param_registry'[t] = IF t \notin DOMAIN msg.tools THEN param_registry[t]
                               ELSE IF msg.tools[t] = "native" THEN "native" ELSE "injected"
      BY <1>8 DEF InjectIntentParams, Upserted
    <3>2. DOMAIN msg.place = DOMAIN msg.tools
      BY <1>0, <2>1 DEF Placed
    <3>3. CASE t \in DOMAIN msg.tools
      <4>1. Lists(msg, t)
        BY <2>1, <3>2, <3>3 DEF Lists
      <4>2. /\ msg.place[t] \in 1 .. Len(listed[t]) /\ listed[t][msg.place[t]] = msg.tools[t]
            /\ Len(listed[t]) \in Nat
        BY <1>0, <2>1, <3>2, <3>3, PlacesAreNumbers DEF Placed
      <4>3. msg.place[t] \in Nat /\ msg.place[t] # 0 /\ msg.place[t] <= Len(listed[t])
        BY <4>2
      <4>4. seen[t] <= msg.place[t]
        BY <1>0, <2>1, <4>1 DEF Ordered
      <4>5. \A m \in OnWire \cup AtTout : Lists(m, t) => msg.place[t] <= m.place[t]
        BY <1>0, <2>1, <4>1, <4>3 DEF Ordered, OnWire
      <4>6. param_registry'[t] = "native" <=> msg.tools[t] = "native"
        BY <3>1, <3>3
      <4>7. PICK n \in Nat : n = msg.place[t]
        BY <4>3
      <4>8. Current(t, n)'
        BY <2>1, <2>2, <4>2, <4>3, <4>4, <4>5, <4>6, <4>7 DEF Current, Lists, Said
      <4>9. QED
        BY <4>8
    <3>4. CASE t \notin DOMAIN msg.tools
      <4>1. PICK n \in Nat : Current(t, n)
        BY <1>0 DEF Recorded
      <4>2. ~Lists(msg, t)
        BY <3>2, <3>4 DEF Lists
      <4>3. Current(t, n)'
        BY <2>1, <2>2, <3>1, <3>4, <4>1, <4>2 DEF Current, Lists, Said
      <4>4. QED
        BY <4>3
    <3>5. QED
      BY <3>3, <3>4
  <2>5. QED
    BY <2>3, <2>4 DEF Following, Recorded
<1>9. CASE Relay
  <2> DEFINE msg == tout.msg
  <2>1. /\ tout.pc = "relay" /\ tout'.pc = "read" /\ UNCHANGED <<listed, wire, param_registry>>
    BY <1>9 DEF Relay, At, Reading, upstream, processor
  <2>2. OnWire' = OnWire /\ AtTout' = {} /\ AtTout = {msg}
    BY <2>1 DEF OnWire, AtTout
  <2>3. \A t \in Tools : seen'[t] = IF Lists(msg, t) THEN msg.place[t] ELSE seen[t]
    BY <1>9 DEF Relay, Lists
  <2>4. Placed'
    BY <1>0, <2>1, <2>2 DEF Placed
  <2>5. \A t \in Tools, m \in OnWire : Lists(msg, t) /\ Lists(m, t) => msg.place[t] <= m.place[t]
    BY <1>0, <2>2 DEF Ordered, OnWire
  <2>6. Ordered'
    BY <1>0, <2>1, <2>2, <2>3, <2>5 DEF Ordered, Lists
  <2>7. ASSUME NEW t \in Tools PROVE \E n \in Nat : Current(t, n)'
    <3>1. PICK n \in Nat : Current(t, n)
      BY <1>0 DEF Recorded
    <3>2. seen'[t] <= n
      <4>1. CASE Lists(msg, t)
        <5>1. n = msg.place[t] /\ seen'[t] = msg.place[t]
          BY <2>1, <2>3, <3>1, <4>1 DEF Current
        <5>2. QED
          BY <5>1
      <4>2. CASE ~Lists(msg, t)
        BY <2>3, <3>1, <4>2 DEF Current
      <4>3. QED
        BY <4>1, <4>2
    <3>3. Current(t, n)'
      BY <2>1, <2>2, <3>1, <3>2 DEF Current, Lists, Said
    <3>4. QED
      BY <3>3
  <2>8. QED
    BY <2>4, <2>6, <2>7 DEF Following, Recorded
<1>10. QED
  BY <1>1, <1>2, <1>4, <1>5, <1>6, <1>7, <1>8, <1>9 DEF Next, Upstream, ServerPump

\* What the client has seen does not grow older.
LEMMA SeenGrows ==
  ASSUME Types, Placed, Ordered, [Next]_vars, NEW t \in Tools
  PROVE  seen[t] <= seen'[t]
<1>1. seen[t] \in Nat
  BY PlacesAreNumbers
<1>2. CASE Relay
  <2>1. tout.pc = "relay" /\ AtTout = {tout.msg}
    BY <1>2 DEF Relay, At, AtTout
  <2>2. seen'[t] = IF Lists(tout.msg, t) THEN tout.msg.place[t] ELSE seen[t]
    BY <1>2 DEF Relay, Lists
  <2>3. QED
    BY <1>1, <2>1, <2>2 DEF Ordered
<1>3. CASE UNCHANGED seen
  BY <1>1, <1>3
<1>4. UNCHANGED seen \/ Relay
  BY DEF Next, ClientPump, Upstream, ServerPump, ReadRequest, TrackFirstPage, Forward, ReadCall,
     ExtractGoalParams, ForwardCall, Changes, Answers, AnswersOtherwise, Pings, Receive,
     ForgetFirstPage, CaptureNothing, LearnServer, CaptureSurface, Digest, EmitSnapshot, EmitFails,
     InjectIntentParams, vars, client
<1>5. QED
  BY <1>2, <1>3, <1>4

LEMMA CallingLemma == ASSUME IInv, [Next]_vars PROVE Calling'
<1>0. Types /\ Placed /\ Ordered /\ Recorded /\ Calling
  BY DEF IInv
<1>1. CASE UNCHANGED tin
  <2>1. tin'.pc = "extract" => tin'.seen <= seen'[tin'.tool]
    <3>1. SUFFICES ASSUME tin.pc = "extract" PROVE tin.seen <= seen'[tin.tool]
      BY <1>1
    <3>2. tin \in [pc : {"extract"}, tool : Tools, seen : Nat]
      BY <1>0, <3>1, TinFacts DEF Types
    <3>3. tin.tool \in Tools /\ tin.seen \in Nat /\ tin.seen <= seen[tin.tool]
      BY <1>0, <3>1, <3>2 DEF Calling
    <3>4. seen[tin.tool] <= seen'[tin.tool] /\ seen[tin.tool] \in Nat
      BY <1>0, <3>3, SeenGrows, PlacesAreNumbers
    <3>5. seen'[tin.tool] \in Nat
      BY <1>0, <3>3, TypesLemma DEF Types
    <3>6. QED
      BY <3>3, <3>4, <3>5
  <2>2. ASSUME tin.pc = "forward call"
        PROVE  /\ tin.upTo <= Len(listed'[tin.tool])
               /\ \E n \in tin.seen .. tin.upTo :
                    tin.kept <=> n # 0 /\ listed'[tin.tool][n] = "native"
    <3>1. tin \in [pc : {"forward call"}, tool : Tools, seen : Nat, upTo : Nat, kept : BOOLEAN]
      BY <1>0, <2>2, TinFacts DEF Types
    <3>2. tin.tool \in Tools /\ tin.seen \in Nat /\ tin.upTo \in Nat
      BY <3>1
    <3>3. /\ Len(listed[tin.tool]) <= Len(listed'[tin.tool])
          /\ Len(listed[tin.tool]) \in Nat /\ Len(listed'[tin.tool]) \in Nat
          /\ \A n \in 1 .. Len(listed[tin.tool]) : listed'[tin.tool][n] = listed[tin.tool][n]
      <4>1. CASE UNCHANGED listed
        BY <1>0, <3>2, <4>1, PlacesAreNumbers
      <4>2. ASSUME NEW request \in requests, Answers(request)
            PROVE  /\ Len(listed[tin.tool]) <= Len(listed'[tin.tool])
                   /\ Len(listed[tin.tool]) \in Nat /\ Len(listed'[tin.tool]) \in Nat
                   /\ \A n \in 1 .. Len(listed[tin.tool]) :
                        listed'[tin.tool][n] = listed[tin.tool][n]
        BY <1>0, <3>2, <4>2, ListedLemma
      <4>3. UNCHANGED listed \/ \E request \in requests : Answers(request)
        BY DEF Next, ClientPump, Upstream, ServerPump, ReadRequest, TrackFirstPage, Forward,
           ReadCall, ExtractGoalParams, ForwardCall, Changes, AnswersOtherwise, Pings, Receive,
           ForgetFirstPage, CaptureNothing, LearnServer, CaptureSurface, Digest, EmitSnapshot,
           EmitFails, InjectIntentParams, Relay, vars, upstream
      <4>4. QED
        BY <4>1, <4>2, <4>3
    <3>4. tin.upTo <= Len(listed[tin.tool])
      BY <1>0, <2>2 DEF Calling
    <3>5. PICK n \in tin.seen .. tin.upTo : tin.kept <=> n # 0 /\ listed[tin.tool][n] = "native"
      BY <1>0, <2>2 DEF Calling, GoalsFollowTheListing
    <3>6. n # 0 => n \in 1 .. Len(listed[tin.tool])
      BY <3>2, <3>3, <3>4, <3>5
    <3>7. tin.kept <=> n # 0 /\ listed'[tin.tool][n] = "native"
      BY <3>3, <3>5, <3>6
    <3>8. tin.upTo <= Len(listed'[tin.tool])
      BY <3>2, <3>3, <3>4
    <3>9. QED
      BY <3>5, <3>7, <3>8
  <2>3. QED
    BY <1>1, <2>1, <2>2 DEF Calling, GoalsFollowTheListing
<1>2. ASSUME NEW tool \in Tools, ReadCall(tool) PROVE Calling'
  <2>1. /\ tin'.pc = "extract" /\ tin'.tool = tool /\ tin'.seen = seen[tool] /\ seen' = seen
    BY <1>2 DEF ReadCall, client
  <2>2. seen[tool] \in Nat
    BY <1>0, PlacesAreNumbers
  <2>3. QED
    BY <2>1, <2>2 DEF Calling, GoalsFollowTheListing
<1>3. CASE ExtractGoalParams
  <2>1. tin.pc = "extract"
    BY <1>3 DEF ExtractGoalParams
  <2>2. tin \in [pc : {"extract"}, tool : Tools, seen : Nat]
    BY <1>0, <2>1, TinFacts DEF Types
  <2>3. tin.tool \in Tools /\ tin.seen \in Nat /\ tin.seen <= seen[tin.tool]
    BY <1>0, <2>1, <2>2 DEF Calling
  <2>4. /\ tin'.pc = "forward call" /\ tin'.tool = tin.tool /\ tin'.seen = tin.seen
        /\ tin'.upTo = Len(listed[tin.tool]) /\ listed' = listed
    BY <1>3 DEF ExtractGoalParams, upstream
  <2>5. PICK n \in Nat : Current(tin.tool, n)
    BY <1>0, <2>3 DEF Recorded
  <2>6. /\ seen[tin.tool] <= n /\ n <= Len(listed[tin.tool])
        /\ Keeps(param_registry[tin.tool]) <=> n # 0 /\ listed[tin.tool][n] = "native"
    BY <2>5 DEF Current, Said, Keeps
  <2>7. seen[tin.tool] \in Nat /\ Len(listed[tin.tool]) \in Nat
    BY <1>0, <2>3, PlacesAreNumbers
  <2>8. tin'.kept = Keeps(param_registry[tin.tool])
    BY <1>3 DEF ExtractGoalParams
  <2>9. n \in tin.seen .. Len(listed[tin.tool])
    BY <2>3, <2>5, <2>6, <2>7
  <2>10. tin'.kept <=> n # 0 /\ listed'[tin'.tool][n] = "native"
    BY <2>4, <2>6, <2>8
  <2>11. GoalsFollowTheListing'
    BY <2>4, <2>9, <2>10 DEF GoalsFollowTheListing
  <2>12. Len(listed[tin.tool]) <= Len(listed[tin.tool])
    BY <2>7
  <2>13. tin'.upTo <= Len(listed'[tin'.tool])
    BY <2>4, <2>12, Zenon
  <2>14. QED
    BY <2>4, <2>11, <2>13 DEF Calling
<1>4. CASE tin'.pc \notin {"extract", "forward call"}
  BY <1>4 DEF Calling, GoalsFollowTheListing
<1>5. \/ UNCHANGED tin
      \/ \E tool \in Tools : ReadCall(tool)
      \/ ExtractGoalParams
      \/ tin'.pc \notin {"extract", "forward call"}
  <2>1. ASSUME NEW id \in Ids, NEW asks \in {"server", "first page", "next page"},
               ReadRequest(id, asks)
        PROVE  tin'.pc \notin {"extract", "forward call"}
    BY <2>1 DEF ReadRequest
  <2>2. CASE TrackFirstPage
    <3>1. tin \in [pc : {"track", "forward"}, request : Requests]
      BY <1>0, <2>2, TinFacts DEF TrackFirstPage, Types
    <3>2. tin' = [tin EXCEPT !.pc = "forward"]
      BY <2>2 DEF TrackFirstPage
    <3>3. QED
      BY <3>1, <3>2
  <2>3. CASE Forward \/ ForwardCall
    <3>1. tin' = Reading
      BY <2>3 DEF Forward, ForwardCall
    <3>2. QED
      BY <3>1 DEF Reading
  <2>4. CASE Upstream \/ ServerPump \/ UNCHANGED vars
    BY <2>4 DEF Upstream, ServerPump, Changes, Answers, AnswersOtherwise, Pings, Receive,
       ForgetFirstPage, CaptureNothing, LearnServer, CaptureSurface, Digest, EmitSnapshot,
       EmitFails, InjectIntentParams, Relay, vars
  <2>5. QED
    BY <2>1, <2>2, <2>3, <2>4 DEF Next, ClientPump
<1>6. QED
  BY <1>1, <1>2, <1>3, <1>4, <1>5

-----------------------------------------------------------------------------
(* Theorems.                                                                *)

\* The invariant holds of every state that the two pumps, the client and the
\* upstream can reach together, in whatever order they take their steps.
THEOREM Invariance == Spec => []IInv
<1>1. Init => IInv
  BY InitLemma
<1>2. IInv /\ [Next]_vars => IInv'
  BY TypesLemma, IdsLemma, SurfacingLemma, KnownLemma, FollowingLemma, CallingLemma
  DEF IInv, Surfacing, Following
<1>3. QED
  BY <1>1, <1>2, PTL DEF Spec

\* Every variable keeps its type, and MAX_PENDING_TOOLLISTS bounds the table of
\* first pages that track_toollist_request fills from what a client asks for.
THEOREM TypeCorrect == Spec => []TypeOK
<1>1. IInv => TypeOK
  <2> SUFFICES ASSUME IInv PROVE TypeOK
    OBVIOUS
  <2>1. Types /\ Placed /\ Recorded
    BY DEF IInv
  <2>2. tin.pc \in {"read", "track", "forward", "extract", "forward call"}
    BY <2>1, TinFacts DEF Types
  <2>3. tout.pc \in {"read", "capture", "digest", "emit", "inject", "relay"}
    BY <2>1, ToutFacts DEF Types
  <2>4. ASSUME NEW t \in Tools PROVE seen[t] \in 0 .. Len(listed[t])
    <3>1. PICK n \in Nat : seen[t] <= n /\ n <= Len(listed[t])
      BY <2>1 DEF Recorded, Current
    <3>2. seen[t] \in Nat /\ Len(listed[t]) \in Nat
      BY <2>1, PlacesAreNumbers
    <3>3. QED
      BY <3>1, <3>2
  <2>5. QED
    BY <2>1, <2>2, <2>3, <2>4 DEF Types, TypeOK, Requests
<1>2. QED
  BY <1>1, Invariance, PTL

\* _capture_surface: what is sent is a surface that the upstream had, with what
\* initialize said of the server, for any upstream and any client that does not
\* use the id of a list request again.
THEOREM SnapshotsAreWhole == Spec => []SnapshotsAreSurfaces
<1>1. IInv => SnapshotsAreSurfaces
  BY DEF IInv
<1>2. QED
  BY <1>1, Invariance, PTL

\* No race between track_toollist_request in one pump and on_server_message in the
\* other loses a whole surface on its way to the client.
THEOREM SurfacesAreCaptured == Spec => []NoSurfaceIsMissed
<1>1. IInv => NoSurfaceIsMissed
  <2> SUFFICES ASSUME IInv, tout.pc = "relay", tout.msg.shape = "tools",
                      tout.msg.id \notin excused, tout.msg.first, ~tout.msg.nextCursor
               PROVE  \/ SurfaceOf(tout.msg.tools) \in lost
                      \/ \E n \in DOMAIN snapshots : snapshots[n].surface = SurfaceOf(tout.msg.tools)
    BY DEF NoSurfaceIsMissed
  <2>1. IsWhole(tout.msg)
    BY DEF IsWhole
  <2>2. SurfaceOf(tout.msg.tools) \in Sent \cup lost
    BY <2>1 DEF IInv, Captured
  <2>3. QED
    BY <2>2 DEF Sent
<1>2. QED
  BY <1>1, Invariance, PTL

\* However often clients list an unchanged surface, emitted_surface_hashes lets one
\* event through.
THEOREM SnapshotsAreSentOnce == Spec => []SurfacesAreSentOnce
<1>1. IInv => SurfacesAreSentOnce
  BY DEF IInv
<1>2. QED
  BY <1>1, Invariance, PTL

\* The registry that inject_intent_params writes and extract_goal_params reads, in
\* two threads, never gives the goal of a call to the wrong side for a listing that
\* is older than the one the client went by.
THEOREM GoalsAreFollowed == Spec => []GoalsFollowTheListing
<1>1. IInv => GoalsFollowTheListing
  BY DEF IInv, Calling, GoalsFollowTheListing
<1>2. QED
  BY <1>1, Invariance, PTL

=============================================================================
