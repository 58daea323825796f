---------------------------- MODULE StartupProofs ----------------------------
(***************************************************************************)
(* The safety of the start for any number of accounts, any list of sinks   *)
(* and every order in which their proxies come up.                         *)
(***************************************************************************)
EXTENDS Startup, SequenceTheorems, WellFoundedInduction, TLAPS

Reasons == {"none", "usage", "bad setting", "placeholder", "no sink", "cannot open", "no key",
            "no boto3", "unsupported", "cannot spawn"}

\* How far the sinks of an account have come.
Built(a) ==
  /\ \A i \in 1 .. Len(sinks[a]) : i \in 1 .. Len(EnvOf(a).spec) /\ sinks[a][i] = EnvOf(a).spec[i]
  /\ proxy[a].pc \in {"off", "log", "tell", "guard"} => sinks[a] = <<>>
  /\ At(a, "sinks") => Len(sinks[a]) < Len(EnvOf(a).spec)
  /\ proxy[a].pc \in {"spawn", "running"} => sinks[a] = EnvOf(a).spec

\* What has been told by then.
Told(a) ==
  /\ proxy[a].pc \in {"tell", "guard", "sinks", "spawn", "running"} /\ EnvOf(a).settings = "retired"
       => "retired setting" \in log[a]
  /\ proxy[a].pc \in {"guard", "sinks", "spawn", "running"} =>
       LET path == FindFileSinkPath(EnvOf(a).spec)
       IN  \/ told[a] = path
           \/ told[a] = "nothing" /\ "event line dropped" \in log[a]

\* No sink is built before the guards have passed.
Guarded(a) == At(a, "sinks") \/ sinks[a] # <<>> => GuardsPass(EnvOf(a))

\* Each refusal has its reason.
Reasoned(a) ==
  LET legs == Elements(EnvOf(a).spec)
      refusal == proxy[a].refusal
  IN  /\ refusal # "none" => At(a, "refused")
      /\ refusal = "usage" => EnvOf(a).args = "wrong"
      /\ refusal = "bad setting" => EnvOf(a).settings = "bad"
      /\ refusal = "placeholder" => sinks[a] = <<>> /\ ~GuardsPass(EnvOf(a))
      /\ refusal = "no sink" => EnvOf(a).spec = <<>>
      /\ refusal = "cannot open" => legs \cap Files # {}
      /\ refusal = "no key" => ~EnvOf(a).apiKey /\ legs \cap {"https", "HTTPS"} # {}
      /\ refusal = "no boto3" => "s3" \in legs
      /\ refusal = "unsupported" => "nonsense" \in legs
      /\ refusal = "cannot spawn" => EnvOf(a).args = "command"

Sound(a) == Built(a) /\ Told(a) /\ Guarded(a) /\ Reasoned(a)

IInv == TypeOK /\ \A a \in Accounts : Sound(a)

-----------------------------------------------------------------------------
(* Specs.                                                                  *)

LEMMA EnvType ==
  ASSUME NEW env \in Env
  PROVE  /\ env.spec \in Seq(AllLegs) /\ Len(env.spec) \in Nat /\ DOMAIN env.spec = 1 .. Len(env.spec)
         /\ \A i \in 1 .. Len(env.spec) : env.spec[i] \in AllLegs /\ env.spec[i] \in Elements(env.spec)
<1>1. env.spec \in Seq(AllLegs)
  <2>1. CASE env.spec = DefaultSpec
    <3>1. "stderr" \in AllLegs /\ "tmp file" \in AllLegs
      BY DEF AllLegs
    <3>2. ASSUME NEW S, NEW x \in S, NEW y \in S PROVE <<x, y>> \in Seq(S)
      OBVIOUS
    <3>3. QED
      BY <2>1, <3>1, <3>2 DEF DefaultSpec
  <2>2. CASE env.spec \in Specs
    <3>1. PICK n \in 0 .. MaxLegs : env.spec \in [1 .. n -> Legs]
      BY <2>2 DEF Specs
    <3>2. n \in Nat /\ env.spec \in [1 .. n -> AllLegs]
      BY <3>1, StartupAssumption
    <3>3. QED
      BY <3>2, SeqDef
  <2>3. QED
    BY <2>1, <2>2 DEF Env
<1>2. QED
  BY <1>1, LenProperties, ElementOfSeq DEF Elements

LEMMA NothingSetType == NothingSet \in Env
BY DEF NothingSet, Env

\* The first of a set of positions is one of them.
LEMMA FirstLemma ==
  ASSUME NEW I, I \subseteq Nat, I # {}
  PROVE  First(I) \in I
<1> DEFINE R == OpToRel(<, Nat)
<1>1. IsWellFoundedOn(R, Nat)
  BY NatLessThanWellFounded
<1> HIDE DEF R
<1>2. PICK x \in I : \A y \in I : ~(<<y, x>> \in R)
  BY <1>1, WFMin
<1>3. ASSUME NEW y \in I PROVE x <= y
  <2>1. y \in Nat /\ x \in Nat /\ ~(<<y, x>> \in R)
    BY <1>2
  <2>2. ~(y < x)
    BY <2>1 DEF R, OpToRel
  <2>3. QED
    BY <2>1, <2>2
<1>4. QED
  BY <1>2, <1>3 DEF First

LEMMA PathLemma ==
  ASSUME NEW env \in Env
  PROVE  /\ FindFileSinkPath(env.spec) \in Files \cup {"nothing"}
         /\ FileLegs(env.spec) # {} =>
              FindFileSinkPath(env.spec) \in Elements(env.spec) /\ FindFileSinkPath(env.spec) # "nothing"
<1>1. DOMAIN env.spec \subseteq Nat
  BY EnvType
<1>2. CASE FileLegs(env.spec) = {}
  BY <1>2 DEF FindFileSinkPath
<1>3. CASE FileLegs(env.spec) # {}
  <2> DEFINE i == First(FileLegs(env.spec))
  <2>1. FileLegs(env.spec) \subseteq Nat
    BY <1>1 DEF FileLegs
  <2>2. i \in FileLegs(env.spec)
    BY <1>3, <2>1, FirstLemma
  <2> HIDE DEF i
  <2>3. env.spec[i] \in Files /\ env.spec[i] \in Elements(env.spec)
    BY <2>2 DEF FileLegs, Elements
  <2>4. FindFileSinkPath(env.spec) = env.spec[i]
    BY <1>3 DEF FindFileSinkPath, i
  <2>5. QED
    BY <2>3, <2>4 DEF Files
<1>4. QED
  BY <1>2, <1>3

-----------------------------------------------------------------------------
(* One account at a time.                                                  *)

Pcs == {"off", "log", "tell", "guard", "sinks", "spawn", "running", "refused"}
Proxy == [pc : Pcs, env : Env, refusal : Reasons]
Lines == {"retired setting", "event line dropped", "not hardened"}

\* TypeOK, but for the file that the accounts share.
Types ==
  /\ proxy \in [Accounts -> Proxy]
  /\ sinks \in [Accounts -> Seq(AllLegs)]
  /\ told \in [Accounts -> Files \cup {"nothing"}]
  /\ log \in [Accounts -> SUBSET Lines]

LEMMA TypesLemma == TypeOK <=> Types /\ tmpFile \in {NoFile} \cup [owner : Accounts, shared : BOOLEAN]
BY DEF TypeOK, Types, Proxy, Pcs, Reasons, Lines

LEMMA NextTypesLemma ==
  ASSUME Types', tmpFile' \in {NoFile} \cup [owner : Accounts, shared : BOOLEAN]
  PROVE  TypeOK'
BY DEF TypeOK, Types, Proxy, Pcs, Reasons, Lines

\* What is true of an account stays true while it does nothing.
LEMMA OthersLemma ==
  ASSUME NEW b \in Accounts, Sound(b),
         proxy'[b] = proxy[b], sinks'[b] = sinks[b], told'[b] = told[b], log'[b] = log[b]
  PROVE  Sound(b)'
<1>1. EnvOf(b)' = EnvOf(b)
  BY DEF EnvOf
<1>2. Built(b)' /\ Told(b)'
  BY <1>1 DEF Sound, Built, Told, At
<1>3. Guarded(b)' /\ Reasoned(b)'
  BY <1>1, ZenonT(40) DEF Sound, Guarded, Reasoned, At
<1>4. QED
  BY <1>2, <1>3 DEF Sound

LEMMA GoToLemma ==
  ASSUME Types, NEW a \in Accounts, NEW pc \in Pcs, GoTo(a, pc)
  PROVE  /\ proxy' \in [Accounts -> Proxy]
         /\ \A b \in Accounts : b # a => proxy'[b] = proxy[b]
         /\ proxy'[a].pc = pc /\ proxy'[a].env = proxy[a].env /\ proxy'[a].refusal = proxy[a].refusal
BY DEF Types, Proxy, GoTo

LEMMA RefuseLemma ==
  ASSUME Types, NEW a \in Accounts, NEW reason \in Reasons, Refuse(a, reason)
  PROVE  /\ proxy' \in [Accounts -> Proxy]
         /\ \A b \in Accounts : b # a => proxy'[b] = proxy[b]
         /\ proxy'[a].pc = "refused" /\ proxy'[a].env = proxy[a].env /\ proxy'[a].refusal = reason
<1>1. proxy'[a] = [pc |-> "refused", env |-> proxy[a].env, refusal |-> reason]
  BY DEF Types, Refuse
<1>2. proxy'[a] \in Proxy
  BY <1>1 DEF Types, Proxy, Pcs
<1>3. \A b \in Accounts : b # a => proxy'[b] = proxy[b]
  BY DEF Types, Refuse
<1>4. proxy' \in [Accounts -> Proxy]
  BY <1>2, <1>3 DEF Types, Refuse
<1>5. QED
  BY <1>1, <1>3, <1>4

\* A refusal keeps what is true of the account, and has its reason.
LEMMA RefusedLemma ==
  ASSUME Types, NEW a \in Accounts, NEW reason \in Reasons, Refuse(a, reason), Sound(a),
         proxy[a].refusal = "none", UNCHANGED <<sinks, told, log>>,
         reason # "none",
         reason = "usage" => EnvOf(a).args = "wrong",
         reason = "bad setting" => EnvOf(a).settings = "bad",
         reason = "placeholder" => sinks[a] = <<>> /\ ~GuardsPass(EnvOf(a)),
         reason = "no sink" => EnvOf(a).spec = <<>>,
         reason = "cannot open" => Elements(EnvOf(a).spec) \cap Files # {},
         reason = "no key" => ~EnvOf(a).apiKey /\ Elements(EnvOf(a).spec) \cap {"https", "HTTPS"} # {},
         reason = "no boto3" => "s3" \in Elements(EnvOf(a).spec),
         reason = "unsupported" => "nonsense" \in Elements(EnvOf(a).spec),
         reason = "cannot spawn" => EnvOf(a).args = "command"
  PROVE  Types' /\ Sound(a)' /\ \A b \in Accounts : b # a => proxy'[b] = proxy[b]
<1>1. /\ proxy' \in [Accounts -> Proxy] /\ \A b \in Accounts : b # a => proxy'[b] = proxy[b]
      /\ proxy'[a].pc = "refused" /\ EnvOf(a)' = EnvOf(a) /\ proxy'[a].refusal = reason
  BY RefuseLemma DEF EnvOf
<1>2. Types'
  BY <1>1 DEF Types
<1>3. Built(a)' /\ Told(a)' /\ Guarded(a)'
  BY <1>1 DEF Sound, Built, Told, Guarded, At
<1>4. Reasoned(a)'
  BY <1>1 DEF Reasoned, At
<1>5. QED
  BY <1>1, <1>2, <1>3, <1>4 DEF Sound

\* A sink more: the next of the list.
LEMMA NextLegLemma ==
  ASSUME Types, NEW a \in Accounts, Sound(a), At(a, "sinks")
  PROVE  /\ Len(sinks[a]) \in Nat /\ Len(sinks[a]) + 1 \in 1 .. Len(EnvOf(a).spec)
         /\ NextLeg(a) \in Elements(EnvOf(a).spec) /\ NextLeg(a) \in AllLegs
         /\ proxy[a].refusal = "none" /\ GuardsPass(EnvOf(a))
<1>1. EnvOf(a) \in Env /\ Len(sinks[a]) \in Nat
  BY LenProperties DEF Types, Proxy, EnvOf
<1>2. Len(EnvOf(a).spec) \in Nat /\ \A i \in 1 .. Len(EnvOf(a).spec) :
        EnvOf(a).spec[i] \in AllLegs /\ EnvOf(a).spec[i] \in Elements(EnvOf(a).spec)
  BY <1>1, EnvType
<1>3. Len(sinks[a]) < Len(EnvOf(a).spec)
  BY DEF Sound, Built
<1>4. Len(sinks[a]) + 1 \in 1 .. Len(EnvOf(a).spec)
  BY <1>1, <1>2, <1>3
<1>5. proxy[a].refusal = "none" /\ GuardsPass(EnvOf(a))
  BY DEF Sound, Reasoned, Guarded, At
<1>6. QED
  BY <1>1, <1>2, <1>4, <1>5 DEF NextLeg

LEMMA BuildLemma ==
  ASSUME Types, NEW a \in Accounts, Sound(a), At(a, "sinks"), Build(a, NextLeg(a)),
         UNCHANGED told, log' \in [Accounts -> SUBSET Lines],
         log[a] \subseteq log'[a], \A b \in Accounts : b # a => log'[b] = log[b]
  PROVE  /\ Types' /\ Sound(a)'
         /\ \A b \in Accounts : b # a => proxy'[b] = proxy[b] /\ sinks'[b] = sinks[b]
<1> DEFINE leg == NextLeg(a)
           spec == EnvOf(a).spec
           n == Len(sinks[a])
<1>1. /\ n \in Nat /\ n + 1 \in 1 .. Len(spec) /\ leg \in AllLegs /\ leg = spec[n + 1]
      /\ proxy[a].refusal = "none" /\ GuardsPass(EnvOf(a))
  BY NextLegLemma DEF NextLeg
<1>2. /\ spec \in Seq(AllLegs) /\ Len(spec) \in Nat /\ sinks[a] \in Seq(AllLegs)
      /\ \A i \in 1 .. n : i \in 1 .. Len(spec) /\ sinks[a][i] = spec[i]
  BY EnvType DEF Types, Proxy, EnvOf, Sound, Built
<1>3. sinks'[a] = Append(sinks[a], leg) /\ \A b \in Accounts : b # a => sinks'[b] = sinks[b]
  BY DEF Build, Types
<1>4. IF n + 1 = Len(spec) THEN GoTo(a, "spawn") ELSE UNCHANGED proxy
  BY DEF Build
<1> HIDE DEF leg
<1>5. /\ Append(sinks[a], leg) \in Seq(AllLegs) /\ Len(Append(sinks[a], leg)) = n + 1
      /\ \A i \in 1 .. n : Append(sinks[a], leg)[i] = sinks[a][i]
      /\ Append(sinks[a], leg)[n + 1] = leg
  BY <1>1, <1>2, AppendProperties
<1>6. /\ sinks' \in [Accounts -> Seq(AllLegs)] /\ sinks'[a] \in Seq(AllLegs) /\ Len(sinks'[a]) = n + 1
      /\ \A i \in 1 .. n + 1 : i \in 1 .. Len(spec) /\ sinks'[a][i] = spec[i]
  <2>1. sinks' \in [Accounts -> Seq(AllLegs)]
    BY <1>5 DEF Build, Types, leg
  <2>2. ASSUME NEW i \in 1 .. n + 1 PROVE i \in 1 .. Len(spec) /\ sinks'[a][i] = spec[i]
    <3>1. CASE i = n + 1
      BY <1>1, <1>3, <1>5, <3>1
    <3>2. CASE i \in 1 .. n
      BY <1>2, <1>3, <1>5, <3>2
    <3>3. QED
      BY <1>1, <3>1, <3>2
  <2>3. QED
    BY <1>3, <1>5, <2>1, <2>2
<1>7. /\ proxy' \in [Accounts -> Proxy] /\ EnvOf(a)' = EnvOf(a) /\ proxy'[a].refusal = "none"
      /\ \A b \in Accounts : b # a => proxy'[b] = proxy[b]
      /\ proxy'[a].pc = IF n + 1 = Len(spec) THEN "spawn" ELSE "sinks"
  <2>1. CASE n + 1 = Len(spec)
    BY <1>1, <1>4, <2>1, GoToLemma DEF EnvOf, Pcs
  <2>2. CASE n + 1 # Len(spec)
    BY <1>1, <1>4, <2>2 DEF EnvOf, Types, At
  <2>3. QED
    BY <2>1, <2>2
<1>8. Types'
  BY <1>6, <1>7 DEF Types
<1>9. Built(a)'
  <2>1. n + 1 = Len(spec) => sinks'[a] = spec
    BY <1>2, <1>6, SeqEqual
  <2>2. n + 1 # Len(spec) => n + 1 < Len(spec)
    BY <1>1, <1>2
  <2>3. QED
    BY <1>6, <1>7, <2>1, <2>2 DEF Built, At
<1>10. Told(a)' /\ Guarded(a)' /\ Reasoned(a)'
  <2>1. Told(a)
    BY DEF Sound
  <2>2. Told(a)'
    BY <1>7, <2>1 DEF Told, At
  <2>3. Guarded(a)' /\ Reasoned(a)'
    BY <1>1, <1>7 DEF Guarded, Reasoned
  <2>4. QED
    BY <2>2, <2>3
<1>11. QED
  BY <1>3, <1>7, <1>8, <1>9, <1>10 DEF Sound

-----------------------------------------------------------------------------
(* The steps.                                                              *)

\* What every step of an account does: its types hold, and what is true of it, and
\* the other accounts notice nothing.
Steps(a) ==
  /\ Types' /\ Sound(a)'
  /\ \A b \in Accounts : b # a =>
       proxy'[b] = proxy[b] /\ sinks'[b] = sinks[b] /\ told'[b] = told[b] /\ log'[b] = log[b]

LEMMA LaunchLemma == ASSUME Types, NEW a \in Accounts, Sound(a), Launch(a) PROVE Steps(a)
<1>1. PICK env \in EnvsOf(a) :
        LET refusal == IF env.args = "wrong" THEN "usage"
                       ELSE IF IsBad(env.settings) THEN "bad setting" ELSE "none"
        IN  proxy' = [proxy EXCEPT ![a] = [pc |-> IF refusal = "none" THEN "log" ELSE "refused",
                                           env |-> env, refusal |-> refusal]]
  BY DEF Launch
<1>2. env \in Env
  BY NothingSetType DEF EnvsOf
<1> DEFINE refusal == IF env.args = "wrong" THEN "usage"
                      ELSE IF IsBad(env.settings) THEN "bad setting" ELSE "none"
<1>3. /\ refusal \in Reasons
      /\ refusal = "usage" => env.args = "wrong"
      /\ refusal = "bad setting" => env.settings = "bad"
      /\ refusal \in {"none", "usage", "bad setting"}
  BY DEF Reasons, IsBad
<1> HIDE DEF refusal
<1>4. proxy' = [proxy EXCEPT ![a] = [pc |-> IF refusal = "none" THEN "log" ELSE "refused",
                                     env |-> env, refusal |-> refusal]]
  BY <1>1 DEF refusal
<1>5. /\ proxy'[a].pc = (IF refusal = "none" THEN "log" ELSE "refused")
      /\ proxy'[a].env = env /\ proxy'[a].refusal = refusal
      /\ \A b \in Accounts : b # a => proxy'[b] = proxy[b]
  BY <1>4 DEF Types
<1>6. proxy' \in [Accounts -> Proxy]
  BY <1>2, <1>3, <1>4 DEF Types, Proxy, Pcs
<1>7. UNCHANGED <<sinks, told, log>> /\ sinks[a] = <<>>
  BY DEF Launch, Sound, Built, At
<1>8. Len(sinks'[a]) = 0
  BY <1>7
<1>9. Built(a)' /\ Guarded(a)'
  BY <1>5, <1>7, <1>8 DEF Built, Guarded, At, EnvOf
<1>10. Told(a)'
  BY <1>5 DEF Told
<1>11. Reasoned(a)'
  <2>1. EnvOf(a)' = env
    BY <1>5 DEF EnvOf
  <2>2. QED
    BY <1>3, <1>5, <2>1 DEF Reasoned, At
<1>12. QED
  BY <1>5, <1>6, <1>7, <1>9, <1>10, <1>11 DEF Steps, Sound, Types

LEMMA LogWarningsLemma == ASSUME Types, NEW a \in Accounts, Sound(a), LogWarnings(a) PROVE Steps(a)
<1>1. /\ log' = [log EXCEPT ![a] = IF EnvOf(a).settings = "retired"
                                   THEN @ \cup {"retired setting"} ELSE @]
      /\ GoTo(a, "tell") /\ UNCHANGED <<sinks, told>> /\ At(a, "log")
  BY DEF LogWarnings
<1>2. /\ EnvOf(a).settings = "retired" => "retired setting" \in log'[a]
      /\ \A b \in Accounts : b # a => log'[b] = log[b]
      /\ log' \in [Accounts -> SUBSET Lines]
  BY <1>1 DEF Types, Lines
<1>3. /\ proxy' \in [Accounts -> Proxy] /\ proxy'[a].pc = "tell" /\ EnvOf(a)' = EnvOf(a)
      /\ proxy'[a].refusal = proxy[a].refusal /\ \A b \in Accounts : b # a => proxy'[b] = proxy[b]
  BY <1>1, GoToLemma DEF Pcs, EnvOf
<1>4. sinks[a] = <<>> /\ proxy[a].refusal = "none"
  BY <1>1 DEF Sound, Built, Reasoned, At
<1>5. sinks'[a] = <<>> /\ Len(sinks'[a]) = 0 /\ proxy'[a].refusal = "none"
  BY <1>1, <1>3, <1>4
<1>6. Built(a)'
  BY <1>3, <1>5 DEF Built, At
<1>7. Guarded(a)'
  BY <1>3, <1>5 DEF Guarded, At
<1>8. Reasoned(a)'
  BY <1>5 DEF Reasoned
<1>9. Told(a)'
  BY <1>2, <1>3 DEF Told
<1>10. QED
  BY <1>1, <1>2, <1>3, <1>6, <1>7, <1>8, <1>9 DEF Steps, Sound, Types

LEMMA TellAgentLemma ==
  ASSUME Types, NEW a \in Accounts, NEW fits \in BOOLEAN, Sound(a), TellAgent(a, fits)
  PROVE  Steps(a)
<1> DEFINE path == FindFileSinkPath(EnvOf(a).spec)
<1>1. EnvOf(a) \in Env /\ path \in Files \cup {"nothing"}
  BY PathLemma DEF Types, Proxy, EnvOf
<1>2. /\ told' = [told EXCEPT ![a] = IF fits THEN path ELSE "nothing"]
      /\ log' = [log EXCEPT ![a] = IF path # "nothing" /\ ~fits THEN @ \cup {"event line dropped"} ELSE @]
      /\ GoTo(a, "guard") /\ UNCHANGED sinks /\ At(a, "tell")
  BY DEF TellAgent
<1> HIDE DEF path
<1>3. /\ told'[a] = path \/ (told'[a] = "nothing" /\ (path = "nothing" \/ "event line dropped" \in log'[a]))
      /\ log[a] \subseteq log'[a]
      /\ \A b \in Accounts : b # a => told'[b] = told[b] /\ log'[b] = log[b]
      /\ told' \in [Accounts -> Files \cup {"nothing"}] /\ log' \in [Accounts -> SUBSET Lines]
  BY <1>1, <1>2 DEF Types, Lines
<1>4. /\ proxy' \in [Accounts -> Proxy] /\ proxy'[a].pc = "guard" /\ EnvOf(a)' = EnvOf(a)
      /\ proxy'[a].refusal = proxy[a].refusal /\ \A b \in Accounts : b # a => proxy'[b] = proxy[b]
  BY <1>2, GoToLemma DEF Pcs, EnvOf
<1>5. sinks[a] = <<>> /\ proxy[a].refusal = "none"
  BY <1>2 DEF Sound, Built, Reasoned, At
<1>6. Built(a)' /\ Guarded(a)' /\ Reasoned(a)'
  <2>1. sinks'[a] = <<>> /\ Len(sinks'[a]) = 0 /\ proxy'[a].refusal = "none"
    BY <1>2, <1>4, <1>5
  <2>2. Built(a)'
    BY <1>4, <2>1 DEF Built, At
  <2>3. Guarded(a)'
    BY <1>4, <2>1 DEF Guarded, At
  <2>4. Reasoned(a)'
    BY <2>1 DEF Reasoned
  <2>5. QED
    BY <2>2, <2>3, <2>4
<1>7. Told(a)'
  <2>1. EnvOf(a).settings = "retired" => "retired setting" \in log[a]
    BY <1>2 DEF Sound, Told, At
  <2>2. told'[a] = path \/ (told'[a] = "nothing" /\ "event line dropped" \in log'[a])
    BY <1>3
  <2>3. QED
    BY <1>3, <1>4, <2>1, <2>2 DEF Told, path
<1>8. QED
  BY <1>2, <1>3, <1>4, <1>6, <1>7 DEF Steps, Sound, Types

LEMMA GuardLemma == ASSUME Types, NEW a \in Accounts, Sound(a), Guard(a) PROVE Steps(a)
<1>1. /\ At(a, "guard") /\ UNCHANGED <<sinks, told, log>> /\ sinks[a] = <<>> /\ proxy[a].refusal = "none"
  BY DEF Guard, Sound, Built, Reasoned, At
<1>2. ASSUME NEW reason \in {"placeholder", "no sink"}, Refuse(a, reason),
             reason = "placeholder" => ~GuardsPass(EnvOf(a)), reason = "no sink" => EnvOf(a).spec = <<>>
      PROVE  Steps(a)
  <2>1. reason \in Reasons
    BY DEF Reasons
  <2>2. Types' /\ Sound(a)' /\ \A b \in Accounts : b # a => proxy'[b] = proxy[b]
    BY <1>1, <1>2, <2>1, RefusedLemma
  <2>3. QED
    BY <1>1, <2>2 DEF Steps
<1>3. CASE ~GuardsPass(EnvOf(a))
  BY <1>2, <1>3 DEF Guard
<1>4. CASE GuardsPass(EnvOf(a)) /\ EnvOf(a).spec = <<>>
  BY <1>2, <1>4 DEF Guard
<1>5. CASE GuardsPass(EnvOf(a)) /\ EnvOf(a).spec # <<>>
  <2>1. GoTo(a, "sinks")
    BY <1>5 DEF Guard
  <2>2. /\ proxy' \in [Accounts -> Proxy] /\ proxy'[a].pc = "sinks" /\ EnvOf(a)' = EnvOf(a)
        /\ proxy'[a].refusal = "none" /\ \A b \in Accounts : b # a => proxy'[b] = proxy[b]
    BY <1>1, <2>1, GoToLemma DEF Pcs, EnvOf
  <2>3. Len(EnvOf(a).spec) \in Nat \ {0} /\ Len(sinks[a]) = 0
    BY <1>1, <1>5, EnvType, EmptySeq DEF Types, Proxy, EnvOf
  <2>4. Built(a)'
    BY <1>1, <2>2, <2>3 DEF Built, At
  <2>5. Told(a)
    BY DEF Sound
  <2>6. Told(a)' /\ Guarded(a)' /\ Reasoned(a)'
    BY <1>1, <1>5, <2>2, <2>5 DEF Told, Guarded, Reasoned, At
  <2>7. QED
    BY <1>1, <2>2, <2>4, <2>6 DEF Steps, Sound, Types
<1>6. QED
  BY <1>3, <1>4, <1>5

LEMMA BuildsLemma ==
  ASSUME Types, NEW a \in Accounts, Sound(a),
         BuildTmpFile(a) \/ BuildOwnFile(a) \/ BuildStderr(a) \/ BuildRemote(a) \/ BuildBucket(a) \/ Unsupported(a)
  PROVE  Steps(a)
<1>1. /\ At(a, "sinks") /\ UNCHANGED told /\ proxy[a].refusal = "none"
      /\ NextLeg(a) \in Elements(EnvOf(a).spec)
  BY NextLegLemma DEF BuildTmpFile, BuildOwnFile, BuildStderr, BuildRemote, BuildBucket, Unsupported
<1>2. ASSUME Build(a, NextLeg(a)), UNCHANGED log \/ log' = [log EXCEPT ![a] = @ \cup {"not hardened"}]
      PROVE  Steps(a)
  <2>1. /\ log' \in [Accounts -> SUBSET Lines] /\ log[a] \subseteq log'[a]
        /\ \A b \in Accounts : b # a => log'[b] = log[b]
    <3>1. log \in [Accounts -> SUBSET Lines]
      BY DEF Types
    <3>2. CASE UNCHANGED log
      BY <3>1, <3>2
    <3>3. CASE log' = [log EXCEPT ![a] = @ \cup {"not hardened"}]
      <4>1. "not hardened" \in Lines
        BY DEF Lines
      <4>2. QED
        BY <3>1, <3>3, <4>1
    <3>4. QED
      BY <1>2, <3>2, <3>3
  <2>2. QED
    BY <1>1, <1>2, <2>1, BuildLemma DEF Steps
<1>3. ASSUME NEW reason \in {"cannot open", "no key", "no boto3", "unsupported"}, Refuse(a, reason),
             UNCHANGED <<sinks, log>>,
             reason = "cannot open" => NextLeg(a) \in Files,
             reason = "no key" => ~EnvOf(a).apiKey /\ NextLeg(a) \in {"https", "HTTPS"},
             reason = "no boto3" => NextLeg(a) = "s3",
             reason = "unsupported" => NextLeg(a) = "nonsense"
      PROVE  Steps(a)
  <2>1. reason \in Reasons
    BY DEF Reasons
  <2>2. Types' /\ Sound(a)' /\ \A b \in Accounts : b # a => proxy'[b] = proxy[b]
    BY <1>1, <1>3, <2>1, RefusedLemma
  <2>3. QED
    BY <1>1, <1>3, <2>2 DEF Steps
<1>4. CASE BuildTmpFile(a)
  <2>1. CASE OpenOwned(a) \/ OpenShared(a)
    BY <1>2, <1>4, <2>1 DEF BuildTmpFile, OpenOwned, OpenShared
  <2>2. CASE OpenFails(a)
    BY <1>3, <1>4, <2>2 DEF BuildTmpFile, OpenFails, Files
  <2>3. QED
    BY <1>4, <2>1, <2>2 DEF BuildTmpFile
<1>5. CASE BuildOwnFile(a) \/ BuildStderr(a)
  <2>1. CASE OpenFails(a) /\ NextLeg(a) = "own file"
    BY <1>3, <2>1 DEF OpenFails, Files
  <2>2. CASE Build(a, NextLeg(a)) /\ UNCHANGED log
    BY <1>2, <2>2
  <2>3. QED
    BY <1>5, <2>1, <2>2 DEF BuildOwnFile, BuildStderr
<1>6. CASE BuildRemote(a)
  BY <1>2, <1>3, <1>6 DEF BuildRemote
<1>7. CASE BuildBucket(a)
  BY <1>2, <1>3, <1>7 DEF BuildBucket
<1>8. CASE Unsupported(a)
  BY <1>3, <1>8 DEF Unsupported
<1>9. QED
  BY <1>4, <1>5, <1>6, <1>7, <1>8

LEMMA SpawnLemma ==
  ASSUME Types, NEW a \in Accounts, Sound(a), Spawn(a) \/ SpawnFails(a)
  PROVE  Steps(a)
<1>1. At(a, "spawn") /\ UNCHANGED <<sinks, told, log>> /\ proxy[a].refusal = "none"
  BY DEF Spawn, SpawnFails, Sound, Reasoned, At
<1>2. CASE Spawn(a)
  <2>1. /\ proxy' \in [Accounts -> Proxy] /\ proxy'[a].pc = "running" /\ EnvOf(a)' = EnvOf(a)
        /\ proxy'[a].refusal = "none" /\ \A b \in Accounts : b # a => proxy'[b] = proxy[b]
    BY <1>1, <1>2, GoToLemma DEF Spawn, Pcs, EnvOf
  <2>2. Built(a) /\ Told(a) /\ Guarded(a)
    BY DEF Sound
  <2>3. Built(a)' /\ Told(a)'
    BY <1>1, <2>1, <2>2 DEF Built, Told, At
  <2>4. Guarded(a)' /\ Reasoned(a)'
    BY <1>1, <2>1, <2>2 DEF Guarded, Reasoned, At
  <2>5. QED
    BY <1>1, <2>1, <2>3, <2>4 DEF Steps, Sound, Types
<1>3. CASE SpawnFails(a)
  <2>1. Refuse(a, "cannot spawn") /\ EnvOf(a).args = "command" /\ "cannot spawn" \in Reasons
    BY <1>3 DEF SpawnFails, Reasons
  <2>2. Types' /\ Sound(a)' /\ \A b \in Accounts : b # a => proxy'[b] = proxy[b]
    BY <1>1, <2>1, RefusedLemma
  <2>3. QED
    BY <1>1, <2>2 DEF Steps
<1>4. QED
  BY <1>2, <1>3

LEMMA EndLemma == ASSUME Types, NEW a \in Accounts, Sound(a), End(a) PROVE Steps(a)
<1>1. /\ proxy'[a] = Off /\ sinks'[a] = <<>>
      /\ \A b \in Accounts : b # a =>
           proxy'[b] = proxy[b] /\ sinks'[b] = sinks[b] /\ told'[b] = told[b] /\ log'[b] = log[b]
  BY DEF End, Types
<1>2. Off \in Proxy /\ <<>> \in Seq(AllLegs) /\ Len(<<>>) = 0
  BY NothingSetType, EmptySeq DEF Off, Proxy, Pcs, Reasons
<1>3. proxy' \in [Accounts -> Proxy]
  BY <1>2 DEF End, Types
<1>4. /\ sinks' \in [Accounts -> Seq(AllLegs)] /\ told' \in [Accounts -> Files \cup {"nothing"}]
      /\ log' \in [Accounts -> SUBSET Lines]
  BY <1>2 DEF End, Types
<1>5. proxy'[a].pc = "off" /\ proxy'[a].refusal = "none" /\ Len(sinks'[a]) = 0
  BY <1>1, <1>2 DEF Off
<1>6. Sound(a)'
  <2>1. Built(a)'
    BY <1>1, <1>5 DEF Built, At
  <2>2. Told(a)'
    BY <1>5 DEF Told
  <2>3. Guarded(a)' /\ Reasoned(a)'
    BY <1>1, <1>5 DEF Guarded, Reasoned, At
  <2>4. QED
    BY <2>1, <2>2, <2>3 DEF Sound
<1>7. QED
  BY <1>1, <1>3, <1>4, <1>6 DEF Steps, Types

\* The file that the accounts share has its type, whoever opens it.
LEMMA TmpFileLemma ==
  ASSUME tmpFile \in {NoFile} \cup [owner : Accounts, shared : BOOLEAN],
         NEW a \in Accounts, OpenOwned(a) \/ UNCHANGED tmpFile
  PROVE  tmpFile' \in {NoFile} \cup [owner : Accounts, shared : BOOLEAN]
<1>1. CASE OpenOwned(a)
  <2>1. tmpFile' = [owner |-> a, shared |-> FALSE]
    BY <1>1 DEF OpenOwned
  <2>2. QED
    BY <2>1
<1>2. QED
  BY <1>1

-----------------------------------------------------------------------------
(* The invariant.                                                          *)

\* Whatever the accounts set, and in whatever order their proxies start and end,
\* every account's start is sound.
THEOREM Invariance == Spec => []IInv
<1>1. ASSUME Init PROVE IInv
  <2>1. Off \in Proxy /\ <<>> \in Seq(AllLegs) /\ Len(<<>>) = 0
    BY NothingSetType, EmptySeq DEF Off, Proxy, Pcs, Reasons
  <2>2. Types
    BY <1>1, <2>1 DEF Init, Types
  <2>3. tmpFile \in {NoFile} \cup [owner : Accounts, shared : BOOLEAN]
    BY <1>1 DEF Init
  <2>4. ASSUME NEW a \in Accounts PROVE Sound(a)
    <3>1. proxy[a].pc = "off" /\ proxy[a].refusal = "none" /\ sinks[a] = <<>> /\ Len(sinks[a]) = 0
      BY <1>1, <2>1 DEF Init, Off
    <3>2. Built(a)
      BY <3>1 DEF Built, At
    <3>3. Told(a)
      BY <3>1 DEF Told
    <3>4. Guarded(a) /\ Reasoned(a)
      BY <3>1 DEF Guarded, Reasoned, At
    <3>5. QED
      BY <3>2, <3>3, <3>4 DEF Sound
  <2>5. QED
    BY <2>2, <2>3, <2>4, TypesLemma DEF IInv
<1>2. ASSUME IInv, [Next]_vars PROVE IInv'
  <2>1. Types /\ TypeOK /\ \A a \in Accounts : Sound(a)
    BY <1>2, TypesLemma DEF IInv
  <2>2. ASSUME NEW a \in Accounts, Steps(a), OpenOwned(a) \/ UNCHANGED tmpFile PROVE IInv'
    <3>1. tmpFile' \in {NoFile} \cup [owner : Accounts, shared : BOOLEAN]
      BY <2>1, <2>2, TmpFileLemma, TypesLemma
    <3>2. TypeOK'
      BY <2>2, <3>1, NextTypesLemma DEF Steps
    <3>3. ASSUME NEW b \in Accounts PROVE Sound(b)'
      BY <2>1, <2>2, OthersLemma DEF Steps
    <3>4. QED
      BY <3>2, <3>3 DEF IInv
  <2>3. ASSUME UNCHANGED <<proxy, sinks, told, log>>,
               tmpFile' \in {NoFile} \cup [owner : Accounts, shared : BOOLEAN]
        PROVE  IInv'
    <3>1. Types'
      BY <2>1, <2>3 DEF Types
    <3>2. ASSUME NEW b \in Accounts PROVE Sound(b)'
      BY <2>1, <2>3, OthersLemma
    <3>3. QED
      BY <2>3, <3>1, <3>2, NextTypesLemma DEF IInv
  <2>4. CASE UNCHANGED vars
    BY <2>1, <2>3, <2>4 DEF vars, TypeOK
  <2>5. CASE TmpFileChanges
    BY <2>3, <2>5 DEF TmpFileChanges
  <2>6. ASSUME NEW a \in Accounts, Launch(a) PROVE IInv'
    BY <2>1, <2>2, <2>6, LaunchLemma DEF Launch
  <2>7. ASSUME NEW a \in Accounts, LogWarnings(a) PROVE IInv'
    BY <2>1, <2>2, <2>7, LogWarningsLemma DEF LogWarnings
  <2>8. ASSUME NEW a \in Accounts, NEW fits \in BOOLEAN, TellAgent(a, fits) PROVE IInv'
    BY <2>1, <2>2, <2>8, TellAgentLemma DEF TellAgent
  <2>9. ASSUME NEW a \in Accounts, Guard(a) PROVE IInv'
    BY <2>1, <2>2, <2>9, GuardLemma DEF Guard
  <2>10. ASSUME NEW a \in Accounts,
               BuildTmpFile(a) \/ BuildOwnFile(a) \/ BuildStderr(a) \/ BuildRemote(a) \/ BuildBucket(a) \/ Unsupported(a)
        PROVE  IInv'
    <3>1. Steps(a)
      BY <2>1, <2>10, BuildsLemma
    <3>2. OpenOwned(a) \/ UNCHANGED tmpFile
      BY <2>10 DEF BuildTmpFile, OpenShared, OpenFails, BuildOwnFile, BuildStderr, BuildRemote, BuildBucket, Unsupported
    <3>3. QED
      BY <2>2, <3>1, <3>2
  <2>11. ASSUME NEW a \in Accounts, Spawn(a) \/ SpawnFails(a) PROVE IInv'
    BY <2>1, <2>2, <2>11, SpawnLemma DEF Spawn, SpawnFails
  <2>12. ASSUME NEW a \in Accounts, End(a) PROVE IInv'
    BY <2>1, <2>2, <2>12, EndLemma DEF End
  <2>13. QED
    BY <1>2, <2>4, <2>5, <2>6, <2>7, <2>8, <2>9, <2>10, <2>11, <2>12 DEF Next
<1>3. QED
  BY <1>1, <1>2, PTL DEF Spec

\* Every variable keeps its type.
THEOREM TypeCorrect == Spec => []TypeOK
<1>1. IInv => TypeOK
  BY DEF IInv
<1>2. QED
  BY <1>1, Invariance, PTL

\* emitter.py: a misconfiguration raises at start(), never a silent no-emit.  A
\* server that runs has all the sinks of its list, and what is left out is told.
THEOREM NoSilentStart == Spec => []NothingIsSilent
<1>1. ASSUME IInv PROVE NothingIsSilent
  <2> SUFFICES ASSUME NEW a \in Accounts, At(a, "running")
               PROVE  /\ sinks[a] = EnvOf(a).spec
                      /\ told[a] \in Elements(sinks[a]) \cup {"nothing"}
                      /\ FileLegs(sinks[a]) # {} => told[a] # "nothing" \/ "event line dropped" \in log[a]
                      /\ EnvOf(a).settings = "retired" => "retired setting" \in log[a]
    BY DEF NothingIsSilent
  <2>1. EnvOf(a) \in Env
    BY <1>1, TypesLemma DEF IInv, Types, Proxy, EnvOf
  <2>2. sinks[a] = EnvOf(a).spec
    BY <1>1 DEF IInv, Sound, Built, At
  <2>3. EnvOf(a).settings = "retired" => "retired setting" \in log[a]
    BY <1>1 DEF IInv, Sound, Told, At
  <2> DEFINE path == FindFileSinkPath(EnvOf(a).spec)
  <2>4. told[a] = path \/ (told[a] = "nothing" /\ "event line dropped" \in log[a])
    BY <1>1 DEF IInv, Sound, Told, At
  <2>5. /\ path \in Elements(EnvOf(a).spec) \cup {"nothing"}
        /\ FileLegs(EnvOf(a).spec) # {} => path # "nothing"
    BY <2>1, PathLemma DEF FindFileSinkPath
  <2> HIDE DEF path
  <2>6. QED
    BY <2>2, <2>3, <2>4, <2>5
<1>2. QED
  BY <1>1, Invariance, PTL

\* config.py: what carries a placeholder must never leak to a remote collector.  It
\* reaches none whose scheme the guards know, which is one in lower case.
THEOREM NoPlaceholderLeaves == Spec => []PlaceholderStaysHome
<1>1. ASSUME IInv PROVE PlaceholderStaysHome
  <2>1. ASSUME NEW a \in Accounts, Placeholder(EnvOf(a)) PROVE Elements(sinks[a]) \cap {"https", "s3"} = {}
    <3>1. Elements(sinks[a]) \subseteq Elements(EnvOf(a).spec)
      <4>1. EnvOf(a) \in Env /\ DOMAIN sinks[a] = 1 .. Len(sinks[a])
        BY <1>1, TypesLemma, LenProperties DEF IInv, Types, Proxy, EnvOf
      <4>2. DOMAIN EnvOf(a).spec = 1 .. Len(EnvOf(a).spec)
        BY <4>1, EnvType
      <4>3. \A i \in 1 .. Len(sinks[a]) : i \in 1 .. Len(EnvOf(a).spec) /\ sinks[a][i] = EnvOf(a).spec[i]
        BY <1>1 DEF IInv, Sound, Built
      <4>4. QED
        BY <4>1, <4>2, <4>3 DEF Elements
    <3>2. CASE sinks[a] = <<>>
      BY <3>2 DEF Elements
    <3>3. CASE sinks[a] # <<>>
      <4>1. GuardsPass(EnvOf(a))
        BY <1>1, <3>3 DEF IInv, Sound, Guarded
      <4>2. \A leg \in Elements(EnvOf(a).spec) : leg \notin {"https", "s3"}
        BY <2>1, <4>1 DEF GuardsPass, IsRemote
      <4>3. QED
        BY <3>1, <4>2
    <3>4. QED
      BY <3>2, <3>3
  <2>2. ASSUME NEW a \in Accounts, proxy[a].refusal = "placeholder" PROVE sinks[a] = <<>>
    BY <1>1, <2>2 DEF IInv, Sound, Reasoned
  <2>3. QED
    BY <2>1, <2>2 DEF PlaceholderStaysHome
<1>2. QED
  BY <1>1, Invariance, PTL

\* The wrapped server is lost to a mistake in the settings, a command that cannot be
\* run, an extra that is not installed or an event file that cannot be opened, be it the
\* default one; and to nothing else.
THEOREM OnlyMistakesAreFatal == Spec => []OnlyMistakesRefuse
<1>1. ASSUME IInv PROVE OnlyMistakesRefuse
  <2> SUFFICES ASSUME NEW a \in Accounts, proxy[a].refusal # "none"
               PROVE  \/ Misconfigured(EnvOf(a))
                      \/ proxy[a].refusal = "cannot spawn" /\ EnvOf(a).args = "command"
                      \/ proxy[a].refusal = "no boto3" /\ "s3" \in Elements(EnvOf(a).spec)
                      \/ proxy[a].refusal = "cannot open" /\ Elements(EnvOf(a).spec) \cap Files # {}
    BY DEF OnlyMistakesRefuse
  <2>1. Reasoned(a) /\ proxy[a].refusal \in Reasons
    BY <1>1, TypesLemma DEF IInv, Sound, Types, Proxy
  <2>2. CASE proxy[a].refusal = "placeholder"
    <3>1. /\ Placeholder(EnvOf(a))
          /\ \E leg \in Elements(EnvOf(a).spec) : leg \in {"https", "s3"}
      BY <2>1, <2>2 DEF Reasoned, GuardsPass, IsRemote
    <3>2. QED
      BY <3>1 DEF Misconfigured
  <2>3. CASE proxy[a].refusal = "no sink"
    <3>1. Elements(EnvOf(a).spec) = {}
      <4>1. EnvOf(a).spec = <<>>
        BY <2>1, <2>3 DEF Reasoned
      <4>2. DOMAIN EnvOf(a).spec = {}
        BY <4>1
      <4>3. QED
        BY <4>2 DEF Elements
    <3>2. QED
      BY <3>1 DEF Misconfigured
  <2>4. CASE proxy[a].refusal \in {"usage", "bad setting", "no key", "unsupported"}
    BY <2>1, <2>4 DEF Reasoned, Misconfigured
  <2>5. CASE proxy[a].refusal \in {"cannot spawn", "no boto3", "cannot open"}
    BY <2>1, <2>5 DEF Reasoned
  <2>6. QED
    BY <2>1, <2>2, <2>3, <2>4, <2>5 DEF Reasons
<1>2. QED
  BY <1>1, Invariance, PTL
=============================================================================
