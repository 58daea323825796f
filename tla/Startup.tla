------------------------------ MODULE Startup -------------------------------
(***************************************************************************)
(* How a proxy comes up: main reads its arguments, _bootstrap reads the    *)
(* environment, tells the agent where the events are, and has the emitter  *)
(* build its sinks; only then is the wrapped server spawned, or the bridge *)
(* opened.  To the MCP client the proxy is the server, so that whatever    *)
(* raises on the way takes the server away.                                *)
(*                                                                         *)
(* The accounts of one machine start proxies of their own.  They meet in   *)
(* one place: the default event file is a fixed name in /tmp, and whoever  *)
(* creates it keeps it for himself.                                        *)
(***************************************************************************)
EXTENDS Naturals, Sequences

CONSTANTS
  Accounts,        \* the accounts of the machine, one proxy each at a time
  Guests,          \* those of them that set nothing, as the quick start has it
  Legs,            \* the sinks that BATON_EVENT_SINK may name
  MaxLegs,         \* how many of them it names at most
  Nobody           \* the owner of a default event file that does not exist

(* A leg is a sink of the spec, told apart by what startup does with it: the *)
(* default file, one in the account's own directory, stderr, a collector     *)
(* (http or https) whose scheme is in lower case, one whose scheme is not, a *)
(* bucket, and what no sink can be made of.                                  *)
AllLegs == {"tmp file", "own file", "stderr", "https", "HTTPS", "s3", "nonsense"}

ASSUME StartupAssumption ==
  /\ Guests \subseteq Accounts
  /\ Legs \subseteq AllLegs
  /\ MaxLegs \in Nat
  /\ Nobody \notin Accounts

VARIABLES
  proxy,       \* per account: where its proxy is, its environment, why it refused
  sinks,       \* per account: the sinks that the emitter has built
  told,        \* per account: the event file the agent is told to read
  log,         \* per account: what the operator was warned of
  tmpFile      \* the default event file: its owner, and whether others may append to it

vars == <<proxy, sinks, told, log, tmpFile>>

Files == {"tmp file", "own file"}
Specs == UNION {[1 .. n -> Legs] : n \in 0 .. MaxLegs}

\* What an account has set.  Unset variables have their defaults: DEFAULT_EVENT_SINK,
\* and "local" for the vendor and the consent token.
DefaultSpec == <<"stderr", "tmp file">>

Env == [spec     : Specs \cup {DefaultSpec},
        consent  : {"local", "real"},
        vendor   : {"local", "real"},
        apiKey   : BOOLEAN,
        settings : {"valid", "retired", "bad"},
        args     : {"command", "url", "wrong"}]

NothingSet == [spec |-> DefaultSpec, consent |-> "local", vendor |-> "local",
               apiKey |-> FALSE, settings |-> "valid", args |-> "command"]

NoFile == [owner |-> Nobody, shared |-> FALSE]
EnvsOf(a) == IF a \in Guests THEN {NothingSet} ELSE Env

Off == [pc |-> "off", env |-> NothingSet, refusal |-> "none"]

Init ==
  /\ proxy = [a \in Accounts |-> Off]
  /\ sinks = [a \in Accounts |-> <<>>]
  /\ told = [a \in Accounts |-> "nothing"]
  /\ log = [a \in Accounts |-> {}]
  /\ tmpFile \in {NoFile} \cup [owner : Accounts, shared : BOOLEAN]

At(a, pc) == proxy[a].pc = pc
EnvOf(a) == proxy[a].env

GoTo(a, pc) == proxy' = [proxy EXCEPT ![a].pc = pc]

\* The process ends with a message or a traceback, and its sinks with it.
Refuse(a, reason) ==
  proxy' = [proxy EXCEPT ![a] = [pc |-> "refused", env |-> @.env, refusal |-> reason]]

-----------------------------------------------------------------------------
(* main and from_env.                                                      *)

\* Mutant: a retired setting is a bad one.
RetiredIsBad(settings) == settings # "valid"

IsBad(settings) == settings = "bad"

\* A new process: main wants --url or a command, and not both; from_env raises for
\* a value that no mode has, and coerces a retired one (the off of
\* BATON_INTENT_PARAM, BATON_PROACTIVE) ...
Launch(a) ==
  /\ At(a, "off")
  /\ \E env \in EnvsOf(a) :
       LET refusal == IF env.args = "wrong" THEN "usage"
                      ELSE IF IsBad(env.settings) THEN "bad setting" ELSE "none"
       IN  proxy' = [proxy EXCEPT ![a] = [pc |-> IF refusal = "none" THEN "log" ELSE "refused",
                                          env |-> env, refusal |-> refusal]]
  /\ UNCHANGED <<sinks, told, log, tmpFile>>

\* ... which is told of a step later, once the log file is set up.
LogWarnings(a) ==
  /\ At(a, "log")
  /\ log' = [log EXCEPT ![a] = IF EnvOf(a).settings = "retired"
                               THEN @ \cup {"retired setting"} ELSE @]
  /\ GoTo(a, "tell")
  /\ UNCHANGED <<sinks, told, tmpFile>>

FileLegs(spec) == {i \in DOMAIN spec : spec[i] \in Files}
First(I) == CHOOSE i \in I : \A j \in I : i <= j

\* Mutant: the spec is read as one URL.
PathOfWhole(spec) == IF Len(spec) = 1 /\ spec[1] \in Files THEN spec[1] ELSE "nothing"

\* find_file_sink_path: the first file leg.
FindFileSinkPath(spec) == IF FileLegs(spec) = {} THEN "nothing" ELSE spec[First(FileLegs(spec))]

\* _Injection.create: the line with the path goes into the instructions if it fits.
TellAgent(a, fits) ==
  /\ At(a, "tell")
  /\ LET path == FindFileSinkPath(EnvOf(a).spec)
     IN  /\ told' = [told EXCEPT ![a] = IF fits THEN path ELSE "nothing"]
         /\ log' = [log EXCEPT ![a] = IF path # "nothing" /\ ~fits
                                      THEN @ \cup {"event line dropped"} ELSE @]
  /\ GoTo(a, "guard")
  /\ UNCHANGED <<sinks, tmpFile>>

-----------------------------------------------------------------------------
(* Emitter.start: the guards, the sinks, the drain thread.                 *)

Elements(s) == {s[i] : i \in DOMAIN s}

\* A prefix test, which knows the scheme in lower case only.
IsRemote(leg) == leg \in {"https", "s3"}

Placeholder(env) == "local" \in {env.consent, env.vendor}

\* Mutant: the vendor guard is forgotten.
GuardsConsentOnly(env) ==
  ~(env.consent = "local" /\ \E leg \in Elements(env.spec) : IsRemote(leg))

\* _guard_remote_consent and _guard_remote_vendor: no sink has been built by now.
GuardsPass(env) == ~(Placeholder(env) /\ \E leg \in Elements(env.spec) : IsRemote(leg))

Guard(a) ==
  /\ At(a, "guard")
  /\ IF ~GuardsPass(EnvOf(a)) THEN Refuse(a, "placeholder")
     ELSE IF EnvOf(a).spec = <<>> THEN Refuse(a, "no sink")
     ELSE GoTo(a, "sinks")
  /\ UNCHANGED <<sinks, told, log, tmpFile>>

NextLeg(a) == EnvOf(a).spec[Len(sinks[a]) + 1]

Build(a, leg) ==
  /\ sinks' = [sinks EXCEPT ![a] = Append(@, leg)]
  /\ IF Len(sinks[a]) + 1 = Len(EnvOf(a).spec) THEN GoTo(a, "spawn") ELSE UNCHANGED proxy

\* FileSink: the file is opened to append, and created 0600; then its mode is set
\* to 0600, which only its owner may do, and which is passed over if it fails.
OpenOwned(a) ==
  /\ tmpFile.owner \in {a, Nobody}
  /\ tmpFile' = [owner |-> a, shared |-> FALSE]
  /\ Build(a, "tmp file")
  /\ UNCHANGED log

OpenShared(a) ==
  /\ tmpFile.owner \notin {a, Nobody} /\ tmpFile.shared
  /\ Build(a, "tmp file")
  /\ log' = [log EXCEPT ![a] = @ \cup {"not hardened"}]
  /\ UNCHANGED tmpFile

\* What os.open raises the start raises: for another account's file, one the kernel
\* protects in a directory like /tmp, a directory that is missing, full or read-only.
OpenFails(a) ==
  /\ Refuse(a, "cannot open")
  /\ UNCHANGED <<sinks, log, tmpFile>>

BuildTmpFile(a) ==
  /\ At(a, "sinks") /\ NextLeg(a) = "tmp file"
  /\ OpenOwned(a) \/ OpenShared(a) \/ OpenFails(a)
  /\ UNCHANGED told

\* The account's own directory: the file is there, or created, or it cannot be.
BuildOwnFile(a) ==
  /\ At(a, "sinks") /\ NextLeg(a) = "own file"
  /\ \/ Build(a, "own file") /\ UNCHANGED <<log, tmpFile>>
     \/ OpenFails(a)
  /\ UNCHANGED told

\* A sink that always can be built.
BuildStderr(a) ==
  /\ At(a, "sinks") /\ NextLeg(a) = "stderr"
  /\ Build(a, "stderr")
  /\ UNCHANGED <<told, log, tmpFile>>

\* HttpSink wants BATON_API_KEY; urlparse reads a scheme in any case.
BuildRemote(a) ==
  /\ At(a, "sinks") /\ NextLeg(a) \in {"https", "HTTPS"}
  /\ IF EnvOf(a).apiKey THEN Build(a, NextLeg(a)) ELSE Refuse(a, "no key") /\ UNCHANGED sinks
  /\ UNCHANGED <<told, log, tmpFile>>

\* S3Sink wants boto3, which is an extra.
BuildBucket(a) ==
  /\ At(a, "sinks") /\ NextLeg(a) = "s3"
  /\ \/ Build(a, "s3")
     \/ Refuse(a, "no boto3") /\ UNCHANGED sinks
  /\ UNCHANGED <<told, log, tmpFile>>

\* A scheme that no sink has, a file without a path.
Unsupported(a) ==
  /\ At(a, "sinks") /\ NextLeg(a) = "nonsense"
  /\ Refuse(a, "unsupported")
  /\ UNCHANGED <<sinks, told, log, tmpFile>>

-----------------------------------------------------------------------------
(* run_proxy and run_http_proxy.                                           *)

\* The child is spawned, or the bridge opened, which asks nothing of its upstream.
Spawn(a) ==
  /\ At(a, "spawn")
  /\ GoTo(a, "running")
  /\ UNCHANGED <<sinks, told, log, tmpFile>>

SpawnFails(a) ==
  /\ At(a, "spawn") /\ EnvOf(a).args = "command"
  /\ Refuse(a, "cannot spawn")
  /\ UNCHANGED <<sinks, told, log, tmpFile>>

\* The process is over, and its sinks are closed.
End(a) ==
  /\ proxy[a].pc \in {"running", "refused"}
  /\ proxy' = [proxy EXCEPT ![a] = Off]
  /\ sinks' = [sinks EXCEPT ![a] = <<>>]
  /\ told' = [told EXCEPT ![a] = "nothing"]
  /\ log' = [log EXCEPT ![a] = {}]
  /\ UNCHANGED tmpFile

\* The owner removes the file, or an older proxy leaves one open to others.
TmpFileChanges ==
  /\ tmpFile' \in {NoFile} \cup [owner : Accounts, shared : {TRUE}]
  /\ Nobody \in {tmpFile.owner, tmpFile'.owner} \/ tmpFile'.owner = tmpFile.owner
  /\ UNCHANGED <<proxy, sinks, told, log>>

Next ==
  \/ \E a \in Accounts :
       \/ Launch(a)
       \/ LogWarnings(a)
       \/ \E fits \in BOOLEAN : TellAgent(a, fits)
       \/ Guard(a)
       \/ BuildTmpFile(a)
       \/ BuildOwnFile(a)
       \/ BuildStderr(a)
       \/ BuildRemote(a)
       \/ BuildBucket(a)
       \/ Unsupported(a)
       \/ Spawn(a)
       \/ SpawnFails(a)
       \/ End(a)
  \/ TmpFileChanges

Spec == Init /\ [][Next]_vars

-----------------------------------------------------------------------------
(* Correctness.                                                            *)

\* Every variable has its type.
TypeOK ==
  /\ proxy \in [Accounts -> [pc : {"off", "log", "tell", "guard", "sinks", "spawn",
                                   "running", "refused"},
                             env : Env,
                             refusal : {"none", "usage", "bad setting", "placeholder", "no sink",
                                        "cannot open", "no key", "no boto3", "unsupported",
                                        "cannot spawn"}]]
  /\ sinks \in [Accounts -> Seq(AllLegs)]
  /\ told \in [Accounts -> Files \cup {"nothing"}]
  /\ log \in [Accounts -> SUBSET {"retired setting", "event line dropped", "not hardened"}]
  /\ tmpFile \in {NoFile} \cup [owner : Accounts, shared : BOOLEAN]

\* emitter.py: "misconfig [...] raises at start() -- never a silent no-emit".  A
\* server that runs has every sink it was given, in order; its agent is told of a
\* file that is one of them, or the operator that it is not; and a setting that
\* is ignored is never passed over in silence.
NothingIsSilent ==
  \A a \in Accounts : At(a, "running") =>
    /\ sinks[a] = EnvOf(a).spec
    /\ told[a] \in Elements(sinks[a]) \cup {"nothing"}
    /\ FileLegs(sinks[a]) # {} => told[a] # "nothing" \/ "event line dropped" \in log[a]
    /\ EnvOf(a).settings = "retired" => "retired setting" \in log[a]

\* config.py: "placeholder-tagged events must never leak to a remote collector".
\* None reaches one whose scheme is written in lower case, and a proxy refused
\* for it has opened, and created, nothing.
PlaceholderStaysHome ==
  \A a \in Accounts :
    /\ Placeholder(EnvOf(a)) => Elements(sinks[a]) \cap {"https", "s3"} = {}
    /\ proxy[a].refusal = "placeholder" => sinks[a] = <<>>

\* What an account can have got wrong.
Misconfigured(env) ==
  LET legs == Elements(env.spec)
  IN  \/ env.args = "wrong" \/ env.settings = "bad"
      \/ legs = {} \/ "nonsense" \in legs
      \/ legs \cap {"https", "HTTPS"} # {} /\ ~env.apiKey
      \/ legs \cap {"https", "s3"} # {} /\ Placeholder(env)

\* The wrapped server is lost to a mistake in the account's own settings, or to one of
\* three things outside them: a command that cannot be run, an extra that is not
\* installed, an event file that cannot be opened; to nothing that a default, a retired
\* setting or the order of the starts does beside that.  The file is the weak spot: an
\* account that sets nothing gets the one of the whole machine in /tmp, and is refused
\* when another has created it first, or nobody can.
OnlyMistakesRefuse ==
  \A a \in Accounts : proxy[a].refusal # "none" =>
    \/ Misconfigured(EnvOf(a))
    \/ proxy[a].refusal = "cannot spawn" /\ EnvOf(a).args = "command"
    \/ proxy[a].refusal = "no boto3" /\ "s3" \in Elements(EnvOf(a).spec)
    \/ proxy[a].refusal = "cannot open" /\ Elements(EnvOf(a).spec) \cap Files # {}
=============================================================================
