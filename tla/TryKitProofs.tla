---------------------------- MODULE TryKitProofs ----------------------------
(***************************************************************************)
(* The safety of the trial for any servers and any number of runs, kills,  *)
(* edits and saves.                                                        *)
(***************************************************************************)
EXTENDS TryKit, TLAPS

\* The record fits the file it names: it is the kit's wrap, an uninstall that was
\* killed has taken it away, or other hands have been there.
Fits(record) ==
  \/ record.mode \in tampered
  \/ OurWrap(EntryOf(record.mode), record)
  \/ record.mode = "in place" /\ config.entry = record.original
  \/ record.mode = "project" /\ EntryOf("project") = NoEntry

\* A record of an in-place wrap holds what the wrap replaced.
Faithful(record) ==
  /\ ~record.original.wrapped
  /\ record.mode = "in place" => record.original = theirs

Recorded == Readable => Fits(state) /\ Faithful(state)

Copied(entry) == \E copy \in backups : copy.entry = entry

\* What the kit replaced in the config is in a backup.
BackedUp ==
  /\ theirs # NoEntry => Copied(theirs)
  /\ kit.pc = "write config" => Copied(kit.record.original)

\* A setup that is on its way: nothing has changed since it read the files.
SettingUp ==
  LET record == kit.record
  IN  /\ kit.pc \in {"back up", "write config", "write mcp"} =>
           /\ state = NoFile /\ record \in Record
           /\ ~record.original.wrapped /\ record.wrapped = WrapOf(record.original)
           /\ config.entry = record.original
      /\ kit.pc \in {"back up", "write config"} =>
           /\ record.mode = "in place"
           /\ kit.read \in Config /\ kit.read.rest >= began
      /\ kit.pc = "write mcp" => record.mode = "project" /\ mcp = NoFile
      /\ kit.pc \in {"open state", "write state"} =>
           /\ record \in Record /\ Faithful(record)
           /\ OurWrap(EntryOf(record.mode), record)

\* A second setup: it works on the record and the file as they are.
TurningOn ==
  LET record == kit.record
  IN  /\ kit.pc \in {"turn on", "write reports"} =>
           /\ Readable /\ record \in Record
           /\ record.mode = state.mode /\ record.original = state.original
           /\ OurWrap(EntryOf(record.mode), record) /\ OurWrap(record.wrapped, state)
      /\ kit.pc = "turn on" => config.rest >= began
      /\ kit.pc = "write reports" =>
           IF record.mode = "in place" THEN kit.read \in Config /\ kit.read.rest >= began
                                       ELSE mcp # NoFile /\ kit.read = mcp

\* An uninstall that is on its way.
Uninstalling ==
  LET record == kit.record
  IN  /\ kit.pc \in {"restore", "verify", "remove", "forget"} => Readable /\ record = state
      /\ kit.pc \in {"restore", "verify"} => record.mode = "in place"
      /\ kit.pc = "restore" => kit.read \in Config /\ kit.read.rest >= began
      /\ kit.pc = "remove" => record.mode = "project" /\ mcp # NoFile /\ kit.read = mcp
      /\ kit.pc = "forget" /\ record.mode = "in place" => config.entry = record.original

\* What a command has said still holds.
Claims ==
  /\ kit.pc # "idle" => verdict = "none"
  /\ verdict = "edited" => Readable /\ state.mode \in tampered
  /\ verdict \in {"stale", "the wrap is gone"} =>
       Readable /\ (state.mode \in tampered \/ EntryOf(state.mode) \in {state.original, NoEntry})

IInv == TypeOK /\ Recorded /\ BackedUp /\ SettingUp /\ TurningOn /\ Uninstalling /\ Claims

-----------------------------------------------------------------------------
(* Types and frames.                                                       *)

Pcs == {"idle", "back up", "write config", "write mcp", "open state", "write state",
        "turn on", "write reports", "restore", "verify", "remove", "forget"}
Kits == [pc : Pcs, read : Config \cup Mcp \cup {NoFile}, record : Record \cup {NoFile}]
Verdicts == {"none", "no such server", "not wrappable", "somebody else's wrap", "leftover",
             "wrapped", "stale", "unreadable", "nothing to reverse", "edited", "unverified",
             "restored", "in place", "the wrap is gone", "trial ended", "not set up"}
Counts == [commands : 0 .. MaxCommands, crashes : 0 .. MaxCrashes,
           edits : 0 .. MaxEdits, saves : 0 .. MaxSaves]

LEMMA TypesLemma ==
  TypeOK <=> /\ config \in Config
             /\ mcp \in Mcp \cup {NoFile}
             /\ state \in Record \cup {NoFile, Torn}
             /\ backups \subseteq Config
             /\ kit \in Kits
             /\ verdict \in Verdicts
             /\ captured \in BOOLEAN
             /\ theirs \in Entry \cup {NoEntry}
             /\ tampered \subseteq Modes
             /\ began \in Nat
             /\ used \in Counts
BY DEF TypeOK, Kits, Pcs, Verdicts, Counts

LEMMA NextTypesLemma ==
  ASSUME config' \in Config, mcp' \in Mcp \cup {NoFile}, state' \in Record \cup {NoFile, Torn},
         backups' \subseteq Config, kit' \in Kits, verdict' \in Verdicts, captured' \in BOOLEAN,
         theirs' \in Entry \cup {NoEntry}, tampered' \subseteq Modes, began' \in Nat,
         used' \in Counts
  PROVE  TypeOK'
BY DEF TypeOK, Kits, Pcs, Verdicts, Counts

LEMMA UsedLemma ==
  ASSUME used \in Counts,
         \/ Used("commands") /\ used.commands < MaxCommands
         \/ Used("crashes") /\ used.crashes < MaxCrashes
         \/ Used("edits") /\ used.edits < MaxEdits
         \/ Used("saves") /\ used.saves < MaxSaves
         \/ UNCHANGED used
  PROVE  used' \in Counts
BY KitAssumption DEF Counts, Used

LEMMA WrapLemma ==
  ASSUME NEW entry \in Entry
  PROVE  WrapOf(entry) \in Entry /\ OldWrapOf(entry) \in Entry /\ entry # NoEntry
<1>1. WrapOf(entry) \in Entry
  BY DEF Entry, WrapOf
<1>2. OldWrapOf(entry) \in Entry
  BY DEF Entry, OldWrapOf
<1>3. entry # NoEntry
  BY KitAssumption DEF Entry, NoEntry
<1>4. QED
  BY <1>1, <1>2, <1>3

LEMMA EntryOfLemma ==
  ASSUME TypeOK, NEW mode \in Modes
  PROVE  EntryOf(mode) \in Entry \cup {NoEntry}
BY DEF TypeOK, EntryOf, Config, Mcp

\* A state file that can be read holds a record.
LEMMA ReadableLemma ==
  ASSUME TypeOK, Readable
  PROVE  state \in Record /\ state.mode \in Modes /\ state.original \in Entry /\ state.wrapped \in Entry
BY DEF TypeOK, Readable, Record

LEMMA RecordLemma ==
  ASSUME NEW record \in Record
  PROVE  record # NoFile /\ record # Torn
BY KitAssumption

\* What is idle has nothing under way.
LEMMA IdleLemma ==
  ASSUME kit'.pc = "idle"
  PROVE  SettingUp' /\ TurningOn' /\ Uninstalling'
BY DEF SettingUp, TurningOn, Uninstalling

\* A record keeps its standing while the files it is about are left alone.
LEMMA StandsLemma ==
  ASSUME NEW record \in Record, UNCHANGED <<config, mcp, theirs, tampered>>
  PROVE  (Fits(record) => Fits(record)') /\ (Faithful(record) => Faithful(record)')
BY DEF Fits, Faithful, EntryOf, OurWrap

LEMMA RecordedLemma ==
  ASSUME Recorded, UNCHANGED <<config, mcp, state, theirs, tampered>>
  PROVE  Recorded'
BY DEF Recorded, Readable, Fits, Faithful, EntryOf, OurWrap

LEMMA CopiedLemma ==
  ASSUME backups \subseteq backups', NEW entry, Copied(entry)
  PROVE  \E copy \in backups' : copy.entry = entry
BY DEF Copied

\* A command has read nothing older than what was there when it began.
LEMMA FreshLemma ==
  ASSUME TypeOK, began' = config.rest
  PROVE  config.rest >= began' /\ config.rest \in Nat
<1>1. config.rest \in Nat
  BY DEF TypeOK, Config
<1>2. config.rest >= config.rest
  BY <1>1
<1>3. QED
  BY <1>1, <1>2

-----------------------------------------------------------------------------
(* Commands that write nothing, and the begin of those that do.            *)

LEMMA TellLemma ==
  ASSUME IInv, NEW words \in Verdicts, Tell(words),
         words = "edited" => Readable /\ state.mode \in tampered,
         words \in {"stale", "the wrap is gone"} =>
           Readable /\ (state.mode \in tampered \/ EntryOf(state.mode) \in {state.original, NoEntry})
  PROVE  IInv'
<1>1. /\ UNCHANGED <<files, captured, kit, history>> /\ kit.pc = "idle" /\ verdict' = words
      /\ Used("commands") /\ used.commands < MaxCommands
  BY DEF Tell, Runs
<1>2. TypeOK'
  BY <1>1, TypesLemma, NextTypesLemma, UsedLemma DEF IInv, files, history
<1>3. Recorded'
  BY <1>1, RecordedLemma DEF IInv, files, history
<1>4. BackedUp'
  BY <1>1 DEF IInv, BackedUp, Copied, files, history
<1>5. SettingUp' /\ TurningOn' /\ Uninstalling'
  BY <1>1, IdleLemma
<1>6. Claims'
  BY <1>1 DEF Claims, Readable, EntryOf, files, history
<1>7. QED
  BY <1>2, <1>3, <1>4, <1>5, <1>6 DEF IInv

\* What begins: a command that has read what it needs.
LEMMA GoLemma ==
  ASSUME IInv, NEW pc \in Pcs, pc # "idle", NEW read \in Config \cup Mcp \cup {NoFile},
         NEW record \in Record, Go(pc, read, record)
  PROVE  /\ TypeOK' /\ Recorded' /\ Claims' /\ (theirs' # NoEntry => Copied(theirs)')
         /\ kit' = [pc |-> pc, read |-> read, record |-> record]
         /\ began' = config.rest /\ UNCHANGED <<files, theirs, tampered>>
<1>1. /\ UNCHANGED <<files, captured, theirs, tampered>> /\ kit.pc = "idle" /\ verdict' = "none"
      /\ Used("commands") /\ used.commands < MaxCommands /\ began' = config.rest
      /\ kit' = [pc |-> pc, read |-> read, record |-> record]
  BY DEF Go, Runs
<1>2. TypeOK'
  <2>1. kit' \in Kits /\ verdict' \in Verdicts
    BY <1>1 DEF Kits, Verdicts
  <2>2. began' \in Nat
    BY <1>1, TypesLemma DEF IInv, Config
  <2>3. QED
    BY <1>1, <2>1, <2>2, TypesLemma, NextTypesLemma, UsedLemma DEF IInv, files
<1>3. Recorded'
  BY <1>1, RecordedLemma DEF IInv, files
<1>4. theirs' # NoEntry => Copied(theirs)'
  BY <1>1 DEF IInv, BackedUp, Copied, files
<1>5. Claims'
  BY <1>1 DEF Claims
<1>6. QED
  BY <1>1, <1>2, <1>3, <1>4, <1>5

\* The commands that end where they began.
LEMMA TellsLemma ==
  ASSUME IInv,
         \/ SetupFindsNoEntry \/ SetupCannotCarry \/ SetupFindsAWrap \/ SetupFindsALeftover
         \/ SetupFindsAnEdit \/ StateIsUnreadable
         \/ UninstallRefuses \/ UninstallFindsAnEdit \/ UninstallProjectFindsAnEdit
         \/ ReceiptFindsTheWrap \/ ReceiptFindsNoWrap \/ ReceiptFindsNoState
  PROVE  IInv'
<1>1. \A words \in {"no such server", "not wrappable", "somebody else's wrap", "leftover", "unreadable",
                    "nothing to reverse", "in place", "trial ended", "not set up"} :
        Tell(words) => IInv'
  BY TellLemma DEF Verdicts
<1>2. ASSUME Readable, ~OurWrap(EntryOf(state.mode), state),
             Tell("stale") \/ Tell("the wrap is gone")
      PROVE  IInv'
  <2>1. Fits(state) /\ state.mode \in Modes
    BY <1>2, ReadableLemma DEF IInv, Recorded
  <2>2. state.mode \in tampered \/ EntryOf(state.mode) \in {state.original, NoEntry}
    BY <1>2, <2>1 DEF Fits, EntryOf
  <2>3. QED
    BY <1>2, <2>2, TellLemma DEF Verdicts
<1>3. ASSUME Readable, Tell("edited"),
             \/ state.mode = "in place" /\ config.entry # state.original /\ ~OurWrap(config.entry, state)
             \/ /\ state.mode = "project" /\ EntryOf("project") # NoEntry
                /\ ~OurWrap(EntryOf("project"), state)
      PROVE  IInv'
  <2>1. Fits(state)
    BY <1>3 DEF IInv, Recorded
  <2>2. state.mode \in tampered
    BY <1>3, <2>1 DEF Fits, EntryOf
  <2>3. QED
    BY <1>3, <2>2, TellLemma DEF Verdicts
<1>4. CASE SetupFindsNoEntry \/ SetupCannotCarry \/ SetupFindsAWrap \/ SetupFindsALeftover
  BY <1>1, <1>4 DEF SetupFindsNoEntry, SetupCannotCarry, SetupFindsAWrap, SetupFindsALeftover
<1>5. CASE StateIsUnreadable \/ UninstallRefuses \/ ReceiptFindsTheWrap \/ ReceiptFindsNoState
  BY <1>1, <1>5 DEF StateIsUnreadable, UninstallRefuses, ReceiptFindsTheWrap, ReceiptFindsNoState
<1>6. CASE SetupFindsAnEdit \/ ReceiptFindsNoWrap
  BY <1>2, <1>6 DEF SetupFindsAnEdit, ReceiptFindsNoWrap
<1>7. CASE UninstallFindsAnEdit \/ UninstallProjectFindsAnEdit
  BY <1>3, <1>7 DEF UninstallFindsAnEdit, UninstallProjectFindsAnEdit
<1>8. QED
  BY <1>4, <1>5, <1>6, <1>7

LEMMA SetupLemma == ASSUME IInv, NEW mode \in Modes, Setup(mode) PROVE IInv'
<1> DEFINE pc == IF mode = "in place" THEN "back up" ELSE "write mcp"
           record == [mode |-> mode, original |-> config.entry, wrapped |-> WrapOf(config.entry)]
<1>1. /\ Go(pc, config, record) /\ state = NoFile /\ config.entry # NoEntry /\ ~config.entry.wrapped
      /\ mode = "project" => mcp = NoFile
  BY DEF Setup
<1>2. config \in Config /\ config.entry \in Entry /\ config.rest \in Nat
  BY <1>1, TypesLemma DEF IInv, Config
<1>3. record \in Record /\ record.mode = mode /\ record.original = config.entry
      /\ record.wrapped = WrapOf(config.entry)
  BY <1>2, WrapLemma DEF Record
<1>4. pc \in Pcs /\ pc # "idle"
  BY DEF Pcs
<1> HIDE DEF record
<1>5. /\ TypeOK' /\ Recorded' /\ Claims' /\ (theirs' # NoEntry => Copied(theirs)')
      /\ kit' = [pc |-> pc, read |-> config, record |-> record]
      /\ began' = config.rest /\ UNCHANGED <<files, theirs, tampered>>
  BY <1>1, <1>2, <1>3, <1>4, GoLemma
<1>6. kit'.pc = pc /\ kit'.read = config /\ kit'.record = record /\ UNCHANGED <<config, mcp, state>>
  BY <1>5 DEF files
<1>7. BackedUp'
  BY <1>5, <1>6 DEF BackedUp
<1>8. SettingUp'
  <2>1. config.rest >= began'
    BY <1>5, FreshLemma DEF IInv
  <2>2. pc = "back up" <=> mode = "in place"
    BY DEF Modes
  <2>3. pc = "write mcp" <=> mode = "project"
    BY DEF Modes
  <2> HIDE DEF pc
  <2>4. pc \in {"back up", "write mcp"}
    BY <2>2, <2>3 DEF Modes
  <2>5. /\ state' = NoFile /\ ~record.original.wrapped /\ config'.entry = record.original
        /\ record.wrapped = WrapOf(record.original)
    BY <1>1, <1>3, <1>6
  <2>6. kit'.pc = "back up" => record.mode = "in place" /\ kit'.read \in Config /\ kit'.read.rest >= began'
    BY <1>2, <1>3, <1>6, <2>1, <2>2
  <2>7. kit'.pc = "write mcp" => record.mode = "project" /\ mcp' = NoFile
    BY <1>1, <1>3, <1>6, <2>3
  <2>8. kit'.pc \in {"back up", "write mcp"}
    BY <1>6, <2>4
  <2>9. QED
    BY <1>3, <1>6, <2>5, <2>6, <2>7, <2>8 DEF SettingUp
<1>9. TurningOn' /\ Uninstalling'
  BY <1>6 DEF TurningOn, Uninstalling
<1>10. QED
  BY <1>5, <1>7, <1>8, <1>9 DEF IInv

LEMMA SetupAgainLemma == ASSUME IInv, SetupAgain PROVE IInv'
<1>1. Go("turn on", NoFile, state) /\ Readable /\ OurWrap(EntryOf(state.mode), state)
  BY DEF SetupAgain
<1>2. state \in Record /\ config.rest \in Nat
  BY <1>1, ReadableLemma, TypesLemma DEF IInv, Config
<1>3. /\ TypeOK' /\ Recorded' /\ Claims' /\ (theirs' # NoEntry => Copied(theirs)')
      /\ kit' = [pc |-> "turn on", read |-> NoFile, record |-> state]
      /\ began' = config.rest /\ UNCHANGED <<files, theirs, tampered>>
  BY <1>1, <1>2, GoLemma DEF Pcs
<1>4. /\ kit'.pc = "turn on" /\ kit'.record = state /\ Readable'
      /\ UNCHANGED <<config, mcp, state>>
  BY <1>1, <1>3 DEF files, Readable
<1>5. BackedUp' /\ SettingUp' /\ Uninstalling'
  BY <1>3, <1>4 DEF BackedUp, SettingUp, Uninstalling
<1>6. TurningOn'
  <2>1. OurWrap(EntryOf(state.mode), state)' /\ OurWrap(state.wrapped, state)
    BY <1>1, <1>2, <1>4, WrapLemma DEF OurWrap, EntryOf, Record
  <2>2. config'.rest >= began'
    BY <1>3, <1>4, FreshLemma DEF IInv
  <2>3. OurWrap(EntryOf(kit.record.mode), kit.record)' /\ OurWrap(kit.record.wrapped, state)'
    BY <1>4, <2>1 DEF OurWrap, EntryOf
  <2>4. QED
    BY <1>2, <1>4, <2>2, <2>3 DEF TurningOn
<1>7. QED
  BY <1>3, <1>5, <1>6 DEF IInv

LEMMA UninstallLemma == ASSUME IInv, Uninstall \/ UninstallProject PROVE IInv'
<1> DEFINE pc == IF Uninstall THEN "restore"
                 ELSE IF EntryOf("project") = NoEntry THEN "forget" ELSE "remove"
           read == IF Uninstall THEN config ELSE mcp
<1>1. /\ Go(pc, read, state) /\ Readable
      /\ state.mode = IF Uninstall THEN "in place" ELSE "project"
  BY DEF Uninstall, UninstallProject
<1>2. /\ state \in Record /\ config \in Config /\ config.rest \in Nat
      /\ read \in Config \cup Mcp \cup {NoFile} /\ pc \in Pcs /\ pc # "idle"
  BY <1>1, ReadableLemma, TypesLemma DEF IInv, Config, Pcs
<1>3. pc = "remove" => mcp # NoFile
  BY DEF EntryOf
<1>4. /\ pc \in {"restore", "forget", "remove"}
      /\ pc = "restore" => read = config /\ state.mode = "in place"
      /\ pc \in {"forget", "remove"} => read = mcp /\ state.mode = "project"
  BY <1>1
<1> HIDE DEF pc, read
<1>5. /\ TypeOK' /\ Recorded' /\ Claims' /\ (theirs' # NoEntry => Copied(theirs)')
      /\ kit' = [pc |-> pc, read |-> read, record |-> state]
      /\ began' = config.rest /\ UNCHANGED <<files, theirs, tampered>>
  BY <1>1, <1>2, GoLemma
<1>6. /\ kit'.pc = pc /\ kit'.read = read /\ kit'.record = state /\ Readable'
      /\ UNCHANGED <<config, mcp, state>>
  BY <1>1, <1>5 DEF files, Readable
<1>7. BackedUp' /\ SettingUp' /\ TurningOn'
  BY <1>4, <1>5, <1>6 DEF BackedUp, SettingUp, TurningOn
<1>8. Uninstalling'
  <2>1. pc = "restore" => read \in Config /\ read.rest >= began'
    BY <1>2, <1>4, <1>5, FreshLemma DEF IInv
  <2>2. state' = state
    BY <1>6
  <2>3. QED
    BY <1>3, <1>4, <1>6, <2>1, <2>2 DEF Uninstalling
<1>9. QED
  BY <1>5, <1>7, <1>8 DEF IInv

-----------------------------------------------------------------------------
(* The steps of a command.                                                 *)

LEMMA StepLemma ==
  ASSUME IInv, NEW from \in Pcs, NEW to \in Pcs, from # "idle", Step(from, to)
  PROVE  /\ kit.pc = from /\ kit'.pc = to /\ kit'.read = kit.read /\ kit'.record = kit.record
         /\ kit' \in Kits /\ verdict = "none" /\ (UNCHANGED verdict => Claims')
<1>1. kit \in Kits /\ kit.pc = from /\ kit' = [kit EXCEPT !.pc = to]
  BY TypesLemma DEF IInv, Step
<1>2. /\ kit'.pc = to /\ kit'.read = kit.read /\ kit'.record = kit.record
      /\ kit' \in Kits
  BY <1>1 DEF Kits
<1>3. verdict = "none"
  BY <1>1 DEF IInv, Claims
<1>4. UNCHANGED verdict => Claims'
  BY <1>3 DEF Claims
<1>5. QED
  BY <1>1, <1>2, <1>3, <1>4

LEMMA EndLemma ==
  ASSUME NEW result \in {"none", "wrapped", "unverified", "restored"}, End(result)
  PROVE  /\ kit' \in Kits /\ kit'.pc = "idle" /\ verdict' = result /\ verdict' \in Verdicts
         /\ Claims' /\ SettingUp' /\ TurningOn' /\ Uninstalling'
<1>1. kit' = Idle /\ verdict' = result
  BY DEF End
<1>2. kit' \in Kits /\ kit'.pc = "idle"
  BY <1>1 DEF Idle, Kits, Pcs
<1>3. verdict' \in Verdicts /\ Claims'
  BY <1>1, <1>2 DEF Verdicts, Claims
<1>4. QED
  BY <1>1, <1>2, <1>3, IdleLemma

LEMMA BackUpLemma == ASSUME IInv, BackUp PROVE IInv'
<1>1. /\ Step("back up", "write config") /\ backups' = backups \cup {config}
      /\ UNCHANGED <<config, mcp, state, captured, verdict, theirs, tampered, began, used>>
  BY DEF BackUp, history
<1>2. /\ kit.pc = "back up" /\ kit'.pc = "write config" /\ kit'.read = kit.read
      /\ kit'.record = kit.record /\ kit' \in Kits /\ Claims'
  BY <1>1, StepLemma DEF Pcs
<1>3. TypeOK'
  BY <1>1, <1>2, TypesLemma, NextTypesLemma DEF IInv
<1>4. Recorded'
  BY <1>1, RecordedLemma DEF IInv
<1>5. config.entry = kit.record.original
  BY <1>2 DEF IInv, SettingUp
<1>6. BackedUp'
  BY <1>1, <1>2, <1>5 DEF IInv, BackedUp, Copied
<1>7. SettingUp'
  BY <1>1, <1>2 DEF IInv, SettingUp
<1>8. TurningOn' /\ Uninstalling'
  BY <1>2 DEF TurningOn, Uninstalling
<1>9. QED
  BY <1>2, <1>3, <1>4, <1>6, <1>7, <1>8 DEF IInv

LEMMA WriteConfigLemma == ASSUME IInv, WriteConfig PROVE IInv'
<1>1. /\ Step("write config", "open state") /\ theirs' = kit.record.original
      /\ config' = [entry |-> kit.record.wrapped, rest |-> kit.read.rest]
      /\ tampered' = tampered \ {"in place"}
      /\ UNCHANGED <<mcp, state, backups, captured, verdict, began, used>>
  BY DEF WriteConfig, Rewrite
<1>2. /\ kit.pc = "write config" /\ kit'.pc = "open state"
      /\ kit'.record = kit.record /\ kit' \in Kits /\ Claims'
  BY <1>1, StepLemma DEF Pcs
<1>3. /\ state = NoFile /\ kit.record \in Record /\ kit.record.mode = "in place"
      /\ ~kit.record.original.wrapped /\ kit.record.wrapped = WrapOf(kit.record.original)
      /\ kit.read \in Config
  BY <1>2 DEF IInv, SettingUp
<1>4. kit.record.original \in Entry /\ kit.record.wrapped \in Entry /\ kit.read.rest \in Nat
  BY <1>3 DEF Record, Config
<1>5. config' \in Config /\ config'.entry = kit.record.wrapped
  BY <1>1, <1>4 DEF Config
<1>6. TypeOK'
  BY <1>1, <1>2, <1>4, <1>5, TypesLemma, NextTypesLemma DEF IInv
<1>7. Recorded'
  BY <1>1, <1>3 DEF Recorded, Readable
<1>8. BackedUp'
  BY <1>1, <1>2 DEF IInv, BackedUp, Copied
<1>9. SettingUp'
  <2>1. OurWrap(EntryOf("in place"), kit.record)'
    BY <1>2, <1>4, <1>5, WrapLemma DEF OurWrap, EntryOf
  <2>2. Faithful(kit.record)'
    BY <1>1, <1>2, <1>3 DEF Faithful
  <2>3. QED
    BY <1>2, <1>3, <2>1, <2>2 DEF SettingUp
<1>10. TurningOn' /\ Uninstalling'
  BY <1>2 DEF TurningOn, Uninstalling
<1>11. QED
  BY <1>2, <1>6, <1>7, <1>8, <1>9, <1>10 DEF IInv

LEMMA WriteMcpLemma == ASSUME IInv, WriteMcp PROVE IInv'
<1>1. /\ Step("write mcp", "open state") /\ tampered' = tampered \ {"project"}
      /\ mcp' = [entry |-> kit.record.wrapped, others |-> FALSE]
      /\ UNCHANGED <<config, state, backups, captured, verdict, theirs, began, used>>
  BY DEF WriteMcp
<1>2. /\ kit.pc = "write mcp" /\ kit'.pc = "open state"
      /\ kit'.record = kit.record /\ kit' \in Kits /\ Claims'
  BY <1>1, StepLemma DEF Pcs
<1>3. /\ state = NoFile /\ kit.record \in Record /\ kit.record.mode = "project"
      /\ ~kit.record.original.wrapped
  BY <1>2 DEF IInv, SettingUp
<1>4. kit.record.wrapped \in Entry
  BY <1>3 DEF Record
<1>5. mcp' \in Mcp /\ mcp'.entry = kit.record.wrapped
  BY <1>1, <1>4 DEF Mcp
<1>6. mcp' # NoFile
  BY <1>5, KitAssumption
<1>7. TypeOK'
  BY <1>1, <1>2, <1>5, TypesLemma, NextTypesLemma DEF IInv
<1>8. Recorded'
  BY <1>1, <1>3 DEF Recorded, Readable
<1>9. BackedUp'
  BY <1>1, <1>2 DEF IInv, BackedUp, Copied
<1>10. SettingUp'
  <2>1. OurWrap(EntryOf("project"), kit.record)'
    BY <1>2, <1>4, <1>5, <1>6, WrapLemma DEF OurWrap, EntryOf
  <2>2. Faithful(kit.record)'
    BY <1>2, <1>3 DEF Faithful
  <2>3. QED
    BY <1>2, <1>3, <2>1, <2>2 DEF SettingUp
<1>11. TurningOn' /\ Uninstalling'
  BY <1>2 DEF TurningOn, Uninstalling
<1>12. QED
  BY <1>2, <1>7, <1>8, <1>9, <1>10, <1>11 DEF IInv

LEMMA OpenStateLemma == ASSUME IInv, OpenState PROVE IInv'
<1>1. /\ Step("open state", "write state") /\ state' = Torn
      /\ UNCHANGED <<config, mcp, backups, captured, verdict, theirs, tampered, began, used>>
  BY DEF OpenState, history
<1>2. /\ kit.pc = "open state" /\ kit'.pc = "write state"
      /\ kit'.record = kit.record /\ kit' \in Kits /\ Claims'
  BY <1>1, StepLemma DEF Pcs
<1>3. TypeOK'
  BY <1>1, <1>2, TypesLemma, NextTypesLemma DEF IInv
<1>4. Recorded'
  BY <1>1 DEF Recorded, Readable
<1>5. BackedUp'
  BY <1>1, <1>2 DEF IInv, BackedUp, Copied
<1>6. SettingUp'
  BY <1>1, <1>2 DEF IInv, SettingUp, Faithful, OurWrap, EntryOf
<1>7. TurningOn' /\ Uninstalling'
  BY <1>2 DEF TurningOn, Uninstalling
<1>8. QED
  BY <1>2, <1>3, <1>4, <1>5, <1>6, <1>7 DEF IInv

LEMMA WriteStateLemma == ASSUME IInv, WriteState PROVE IInv'
<1>1. /\ kit.pc = "write state" /\ state' = kit.record /\ End("wrapped")
      /\ UNCHANGED <<config, mcp, backups, captured, theirs, tampered, began, used>>
  BY DEF WriteState, history
<1>2. /\ kit' \in Kits /\ kit'.pc = "idle" /\ verdict' \in Verdicts
      /\ Claims' /\ SettingUp' /\ TurningOn' /\ Uninstalling'
  BY <1>1, EndLemma
<1>3. /\ kit.record \in Record /\ Faithful(kit.record)
      /\ OurWrap(EntryOf(kit.record.mode), kit.record)
  BY <1>1 DEF IInv, SettingUp
<1>4. TypeOK'
  BY <1>1, <1>2, <1>3, TypesLemma, NextTypesLemma DEF IInv
<1>5. Fits(kit.record)
  BY <1>3 DEF Fits
<1>6. Recorded'
  BY <1>1, <1>3, <1>5 DEF Recorded, Fits, Faithful, OurWrap, EntryOf
<1>7. BackedUp'
  BY <1>1, <1>2 DEF IInv, BackedUp, Copied
<1>8. QED
  BY <1>2, <1>4, <1>6, <1>7 DEF IInv

\* A command that ends and leaves the files as they are.
LEMMA EndsLemma ==
  ASSUME IInv, NEW result \in {"none", "wrapped", "unverified", "restored"}, End(result),
         UNCHANGED <<files, captured, history>>, used' \in Counts
  PROVE  IInv'
<1>1. /\ kit' \in Kits /\ verdict' \in Verdicts
      /\ Claims' /\ SettingUp' /\ TurningOn' /\ Uninstalling' /\ kit'.pc = "idle"
  BY EndLemma
<1>2. TypeOK'
  BY <1>1, TypesLemma, NextTypesLemma DEF IInv, files, history
<1>3. Recorded'
  BY RecordedLemma DEF IInv, files, history
<1>4. BackedUp'
  BY <1>1 DEF IInv, BackedUp, Copied, files, history
<1>5. QED
  BY <1>1, <1>2, <1>3, <1>4 DEF IInv

LEMMA ReportsAreSettledLemma == ASSUME IInv, ReportsAreSettled PROVE IInv'
BY EndsLemma, TypesLemma DEF ReportsAreSettled, IInv

LEMMA CrashLemma == ASSUME IInv, Crash PROVE IInv'
<1>1. End("none") /\ UNCHANGED <<files, captured, history>>
  BY DEF Crash
<1>2. used' \in Counts
  BY UsedLemma, TypesLemma DEF Crash, IInv
<1>3. QED
  BY <1>1, <1>2, EndsLemma

\* The entry the reports are turned on in is still the kit's wrap.
LEMMA TurnOnReportsLemma == ASSUME IInv, TurnOnReports PROVE IInv'
<1> DEFINE entry == EntryOf(kit.record.mode)
           record == [kit.record EXCEPT !.wrapped = [entry EXCEPT !.annotate = "on"]]
<1>1. /\ kit.pc = "turn on"
      /\ kit' = [pc |-> "write reports", read |-> FileOf(kit.record.mode), record |-> record]
      /\ UNCHANGED <<config, mcp, state, backups, captured, verdict, theirs, tampered, began, used>>
  BY DEF TurnOnReports, files, history
<1>2. /\ Readable /\ kit.record \in Record /\ kit.record.mode = state.mode
      /\ kit.record.original = state.original
      /\ OurWrap(entry, kit.record) /\ OurWrap(kit.record.wrapped, state)
      /\ config.rest >= began /\ verdict = "none" /\ state \in Record
  BY <1>1, ReadableLemma DEF IInv, TurningOn, Claims
<1>3. kit.record.mode \in Modes /\ kit.record.original \in Entry /\ entry \in Entry
  <2>1. kit.record.mode \in Modes /\ kit.record.original \in Entry
    BY <1>2 DEF Record
  <2>2. entry \in Entry \cup {NoEntry}
    BY <2>1, EntryOfLemma DEF IInv
  <2>3. QED
    BY <1>2, <2>1, <2>2 DEF OurWrap
<1>4. /\ record.mode = kit.record.mode /\ record.original = kit.record.original
      /\ record.wrapped \in Entry /\ record.wrapped.launches = entry.launches
      /\ record.wrapped.wrapped = entry.wrapped /\ record \in Record
  BY <1>2, <1>3 DEF Record, Entry
<1>5. entry # NoEntry /\ record.wrapped # NoEntry
  BY <1>3, <1>4, WrapLemma
<1> HIDE DEF record
<1>6. /\ kit'.pc = "write reports" /\ kit'.record = record
      /\ kit'.read = FileOf(kit.record.mode)
  BY <1>1
<1>7. /\ config \in Config /\ mcp \in Mcp \cup {NoFile}
  BY TypesLemma DEF IInv
<1>8. kit' \in Kits
  BY <1>1, <1>4, <1>7 DEF Kits, Pcs, FileOf
<1>9. TypeOK'
  BY <1>1, <1>8, TypesLemma, NextTypesLemma DEF IInv
<1>10. Recorded'
  BY <1>1, RecordedLemma DEF IInv
<1>11. BackedUp' /\ SettingUp' /\ Uninstalling' /\ Claims'
  BY <1>1, <1>2, <1>6 DEF IInv, BackedUp, Copied, SettingUp, Uninstalling, Claims
<1>12. TurningOn'
  <2>1. Readable' /\ state' = state
    BY <1>1, <1>2 DEF Readable
  <2>2. OurWrap(EntryOf(kit.record.mode), kit.record)'
    BY <1>1, <1>4, <1>5, <1>6 DEF OurWrap, EntryOf
  <2>3. OurWrap(kit.record.wrapped, state)'
    BY <1>2, <1>4, <1>5, <1>6, <2>1 DEF OurWrap
  <2>4. record.mode = "in place" => kit'.read \in Config /\ kit'.read.rest >= began'
    BY <1>1, <1>2, <1>4, <1>6, <1>7 DEF FileOf
  <2>5. record.mode # "in place" => mcp' # NoFile /\ kit'.read = mcp'
    BY <1>1, <1>4, <1>5, <1>6 DEF FileOf, EntryOf
  <2>6. QED
    BY <1>2, <1>4, <1>6, <2>1, <2>2, <2>3, <2>4, <2>5 DEF TurningOn
<1>13. QED
  BY <1>9, <1>10, <1>11, <1>12 DEF IInv

LEMMA WriteReportsLemma == ASSUME IInv, WriteReports PROVE IInv'
<1>1. /\ Step("write reports", "open state")
      /\ UNCHANGED <<state, backups, captured, verdict, theirs, began, used>>
      /\ kit.record.mode = "in place" =>
           /\ config' = [entry |-> kit.record.wrapped, rest |-> kit.read.rest]
           /\ tampered' = tampered \ {"in place"} /\ mcp' = mcp
      /\ kit.record.mode # "in place" =>
           mcp' = [kit.read EXCEPT !.entry = kit.record.wrapped] /\ UNCHANGED <<config, tampered>>
  BY DEF WriteReports, Rewrite
<1>2. /\ kit.pc = "write reports" /\ kit'.pc = "open state"
      /\ kit'.record = kit.record /\ kit' \in Kits /\ Claims'
  BY <1>1, StepLemma DEF Pcs
<1>3. /\ Readable /\ kit.record \in Record /\ kit.record.mode = state.mode
      /\ kit.record.original = state.original /\ OurWrap(kit.record.wrapped, state)
      /\ kit.record.mode = "in place" => kit.read \in Config
      /\ kit.record.mode # "in place" => mcp # NoFile /\ kit.read = mcp
  BY <1>2 DEF IInv, TurningOn
<1>4. /\ kit.record.wrapped \in Entry /\ kit.record.mode \in Modes /\ config \in Config
      /\ mcp \in Mcp \cup {NoFile} /\ tampered \subseteq Modes /\ state \in Record
  BY <1>3, TypesLemma, ReadableLemma DEF IInv, Record
<1>5. config' \in Config /\ mcp' \in Mcp \cup {NoFile} /\ EntryOf(kit.record.mode)' = kit.record.wrapped
  <2>1. CASE kit.record.mode = "in place"
    <3>1. kit.read.rest \in Nat
      BY <1>3, <2>1 DEF Config
    <3>2. config' = [entry |-> kit.record.wrapped, rest |-> kit.read.rest] /\ mcp' = mcp
      BY <1>1, <2>1
    <3>3. config' \in Config /\ config'.entry = kit.record.wrapped
      BY <1>4, <3>1, <3>2 DEF Config
    <3>4. QED
      BY <1>2, <1>4, <2>1, <3>2, <3>3 DEF EntryOf
  <2>2. CASE kit.record.mode # "in place"
    <3>1. mcp \in Mcp /\ mcp' = [mcp EXCEPT !.entry = kit.record.wrapped] /\ config' = config
      BY <1>1, <1>3, <1>4, <2>2
    <3>2. mcp' \in Mcp /\ mcp'.entry = kit.record.wrapped
      BY <1>4, <3>1 DEF Mcp
    <3>3. mcp' # NoFile
      BY <3>2, KitAssumption
    <3>4. QED
      BY <1>2, <1>4, <2>2, <3>1, <3>2, <3>3 DEF EntryOf
  <2>3. QED
    BY <2>1, <2>2
<1>6. TypeOK'
  <2>1. tampered' \subseteq Modes
    BY <1>1, <1>4
  <2>2. QED
    BY <1>1, <1>2, <1>5, <2>1, TypesLemma, NextTypesLemma DEF IInv
<1>7. Faithful(state) /\ state' = state /\ theirs' = theirs
  BY <1>1, <1>3 DEF IInv, Recorded
<1>8. Recorded'
  <2>1. OurWrap(EntryOf(state.mode), state)'
    BY <1>2, <1>3, <1>5, <1>7 DEF OurWrap
  <2>2. Fits(state)'
    BY <2>1 DEF Fits
  <2>3. Faithful(state)'
    BY <1>7 DEF Faithful
  <2>4. QED
    BY <2>2, <2>3 DEF Recorded
<1>9. BackedUp'
  BY <1>1, <1>2 DEF IInv, BackedUp, Copied
<1>10. SettingUp'
  <2>1. OurWrap(EntryOf(kit.record.mode), kit.record)'
    BY <1>2, <1>4, <1>5, WrapLemma DEF OurWrap
  <2>2. Faithful(kit.record)'
    BY <1>2, <1>3, <1>7 DEF Faithful
  <2>3. QED
    BY <1>2, <1>3, <2>1, <2>2 DEF SettingUp
<1>11. TurningOn' /\ Uninstalling'
  BY <1>2 DEF TurningOn, Uninstalling
<1>12. QED
  BY <1>2, <1>6, <1>8, <1>9, <1>10, <1>11 DEF IInv

LEMMA RestoreLemma == ASSUME IInv, Restore PROVE IInv'
<1>1. /\ Step("restore", "verify") /\ tampered' = tampered \ {"in place"}
      /\ config' = [entry |-> kit.record.original, rest |-> kit.read.rest]
      /\ UNCHANGED <<mcp, state, backups, captured, verdict, theirs, began, used>>
  BY DEF Restore, Rewrite
<1>2. /\ kit.pc = "restore" /\ kit'.pc = "verify"
      /\ kit'.record = kit.record /\ kit' \in Kits /\ Claims'
  BY <1>1, StepLemma DEF Pcs
<1>3. Readable /\ kit.record = state /\ state.mode = "in place" /\ kit.read \in Config
  BY <1>2 DEF IInv, Uninstalling
<1>4. state.original \in Entry /\ kit.read.rest \in Nat
  BY <1>3, ReadableLemma DEF IInv, Config
<1>5. config' \in Config /\ config'.entry = state.original
  BY <1>1, <1>3, <1>4 DEF Config
<1>6. TypeOK'
  <2>1. tampered' \subseteq Modes
    BY <1>1, TypesLemma DEF IInv
  <2>2. QED
    BY <1>1, <1>2, <1>5, <2>1, TypesLemma, NextTypesLemma DEF IInv
<1>7. Recorded'
  <2>1. Fits(state)'
    BY <1>1, <1>3, <1>5 DEF Fits
  <2>2. Faithful(state)'
    BY <1>1, <1>3 DEF IInv, Recorded, Faithful
  <2>3. QED
    BY <2>1, <2>2 DEF Recorded
<1>8. BackedUp' /\ SettingUp' /\ TurningOn'
  BY <1>1, <1>2 DEF IInv, BackedUp, Copied, SettingUp, TurningOn
<1>9. Uninstalling'
  BY <1>1, <1>2, <1>3 DEF Uninstalling, Readable
<1>10. QED
  BY <1>2, <1>6, <1>7, <1>8, <1>9 DEF IInv

LEMMA VerifyLemma == ASSUME IInv, Verify PROVE IInv'
<1>1. CASE config.entry # kit.record.original
  <2>1. End("unverified") /\ UNCHANGED <<files, captured, history, used>>
    BY <1>1 DEF Verify
  <2>2. used' \in Counts
    BY <2>1, TypesLemma DEF IInv
  <2>3. QED
    BY <2>1, <2>2, EndsLemma
<1>2. CASE config.entry = kit.record.original
  <2>1. /\ Step("verify", "forget") /\ UNCHANGED verdict
        /\ UNCHANGED <<config, mcp, state, backups, captured, theirs, tampered, began, used>>
    BY <1>2 DEF Verify, Step, files, history
  <2>2. /\ kit.pc = "verify" /\ kit'.pc = "forget"
        /\ kit'.record = kit.record /\ kit' \in Kits /\ Claims'
    BY <2>1, StepLemma DEF Pcs
  <2>3. TypeOK'
    BY <2>1, <2>2, TypesLemma, NextTypesLemma DEF IInv
  <2>4. Recorded'
    BY <2>1, RecordedLemma DEF IInv
  <2>5. BackedUp' /\ SettingUp' /\ TurningOn'
    BY <2>1, <2>2 DEF IInv, BackedUp, Copied, SettingUp, TurningOn
  <2>6. Uninstalling'
    BY <1>2, <2>1, <2>2 DEF IInv, Uninstalling, Readable
  <2>7. QED
    BY <2>2, <2>3, <2>4, <2>5, <2>6 DEF IInv
<1>3. QED
  BY <1>1, <1>2

LEMMA RemoveMcpLemma == ASSUME IInv, RemoveMcp PROVE IInv'
<1>1. /\ Step("remove", "forget")
      /\ mcp' = IF kit.read.others THEN [kit.read EXCEPT !.entry = NoEntry] ELSE NoFile
      /\ UNCHANGED <<config, state, backups, captured, verdict, theirs, tampered, began, used>>
  BY DEF RemoveMcp, history
<1>2. /\ kit.pc = "remove" /\ kit'.pc = "forget"
      /\ kit'.record = kit.record /\ kit' \in Kits /\ Claims'
  BY <1>1, StepLemma DEF Pcs
<1>3. Readable /\ kit.record = state /\ state.mode = "project" /\ mcp # NoFile /\ kit.read = mcp
  BY <1>2 DEF IInv, Uninstalling
<1>4. mcp \in Mcp
  BY <1>3, TypesLemma DEF IInv
<1>5. mcp' \in Mcp \cup {NoFile} /\ EntryOf("project")' = NoEntry
  BY <1>1, <1>3, <1>4 DEF Mcp, EntryOf
<1>6. TypeOK'
  BY <1>1, <1>2, <1>5, TypesLemma, NextTypesLemma DEF IInv
<1>7. Recorded'
  <2>1. Fits(state)'
    BY <1>1, <1>3, <1>5 DEF Fits
  <2>2. Faithful(state)'
    BY <1>1, <1>3 DEF IInv, Recorded, Faithful
  <2>3. QED
    BY <2>1, <2>2 DEF Recorded
<1>8. BackedUp' /\ SettingUp' /\ TurningOn'
  BY <1>1, <1>2 DEF IInv, BackedUp, Copied, SettingUp, TurningOn
<1>9. Uninstalling'
  BY <1>1, <1>2, <1>3 DEF Uninstalling, Readable
<1>10. QED
  BY <1>2, <1>6, <1>7, <1>8, <1>9 DEF IInv

LEMMA ForgetLemma == ASSUME IInv, Forget PROVE IInv'
<1>1. /\ kit.pc = "forget" /\ state' = NoFile /\ End("restored")
      /\ UNCHANGED <<config, mcp, backups, captured, theirs, tampered, began, used>>
  BY DEF Forget, history
<1>2. /\ kit' \in Kits /\ verdict' \in Verdicts
      /\ Claims' /\ SettingUp' /\ TurningOn' /\ Uninstalling' /\ kit'.pc = "idle"
  BY <1>1, EndLemma
<1>3. TypeOK'
  BY <1>1, <1>2, TypesLemma, NextTypesLemma DEF IInv
<1>4. Recorded'
  BY <1>1 DEF Recorded, Readable
<1>5. BackedUp'
  BY <1>1, <1>2 DEF IInv, BackedUp, Copied
<1>6. QED
  BY <1>2, <1>3, <1>4, <1>5 DEF IInv

-----------------------------------------------------------------------------
(* Other hands.                                                            *)

LEMMA ClientSavesLemma == ASSUME IInv, ClientSaves PROVE IInv'
<1>1. /\ config' = [config EXCEPT !.rest = @ + 1] /\ Used("saves") /\ used.saves < MaxSaves
      /\ UNCHANGED <<mcp, state, backups, captured, kit, verdict, theirs, tampered, began>>
  BY DEF ClientSaves, history
<1>2. config \in Config /\ began \in Nat
  BY TypesLemma DEF IInv
<1>3. config' \in Config /\ config'.entry = config.entry /\ config'.rest = config.rest + 1
      /\ config.rest \in Nat
  BY <1>1, <1>2 DEF Config
<1>4. TypeOK'
  BY <1>1, <1>3, UsedLemma, TypesLemma, NextTypesLemma DEF IInv
<1>5. Recorded'
  BY <1>1, <1>3 DEF IInv, Recorded, Readable, Fits, Faithful, OurWrap, EntryOf
<1>6. BackedUp'
  BY <1>1 DEF IInv, BackedUp, Copied
<1>7. SettingUp'
  BY <1>1, <1>3 DEF IInv, SettingUp, Faithful, OurWrap, EntryOf
<1>8. TurningOn'
  <2>1. config.rest >= began => config'.rest >= began
    BY <1>2, <1>3
  <2>2. QED
    BY <1>1, <1>3, <2>1 DEF IInv, TurningOn, Readable, OurWrap, EntryOf
<1>9. Uninstalling'
  BY <1>1, <1>3 DEF IInv, Uninstalling, Readable
<1>10. Claims'
  BY <1>1, <1>3 DEF IInv, Claims, Readable, EntryOf
<1>11. QED
  BY <1>4, <1>5, <1>6, <1>7, <1>8, <1>9, <1>10 DEF IInv

LEMMA SessionLemma == ASSUME IInv, Session PROVE IInv'
<1>1. /\ captured' = TRUE
      /\ UNCHANGED <<config, mcp, state, backups, kit, verdict, theirs, tampered, began, used>>
  BY DEF Session, files, history
<1>2. TypeOK'
  BY <1>1, TypesLemma, NextTypesLemma DEF IInv
<1>3. Recorded' /\ BackedUp'
  BY <1>1, RecordedLemma DEF IInv, BackedUp, Copied
<1>4. SettingUp' /\ TurningOn' /\ Uninstalling' /\ Claims'
  BY <1>1, ZenonT(40) DEF IInv, SettingUp, TurningOn, Uninstalling, Claims, Readable, Faithful, OurWrap, EntryOf
<1>5. QED
  BY <1>2, <1>3, <1>4 DEF IInv

\* What an edit leaves of a record: its file is marked, or only the choice about the
\* reports differs.
LEMMA TamperLemma ==
  ASSUME NEW mode, NEW before \in Entry \cup {NoEntry}, NEW after \in Entry \cup {NoEntry},
         NEW record, ~record.original.wrapped, Tamper(mode, before, after)
  PROVE  /\ tampered \subseteq tampered' /\ tampered' \subseteq tampered \cup {mode}
         /\ mode \in tampered' \/ (/\ before # record.original /\ before # NoEntry
                                   /\ OurWrap(before, record) => OurWrap(after, record))
<1>1. CASE before.wrapped /\ [before EXCEPT !.annotate = after.annotate] = after
  <2>1. before # record.original /\ before # NoEntry /\ before \in Entry
    BY <1>1 DEF NoEntry
  <2>2. after.launches = before.launches /\ after.wrapped = before.wrapped
    BY <1>1, <2>1 DEF Entry
  <2>3. after # NoEntry
    BY <1>1, <2>2 DEF NoEntry
  <2>4. QED
    BY <1>1, <2>1, <2>2, <2>3 DEF Tamper, OurWrap
<1>2. CASE ~(before.wrapped /\ [before EXCEPT !.annotate = after.annotate] = after)
  BY <1>2 DEF Tamper
<1>3. QED
  BY <1>1, <1>2

\* An edit of one file leaves the record of the other as it is.
LEMMA UntouchedLemma ==
  ASSUME Fits(state), state' = state, tampered \subseteq tampered',
         \/ state.mode = "project" /\ mcp' = mcp
         \/ state.mode = "in place" /\ config' = config
  PROVE  Fits(state)'
<1>1. EntryOf(state.mode)' = EntryOf(state.mode)
  BY DEF EntryOf
<1>2. CASE state.mode \in tampered
  BY <1>2 DEF Fits
<1>3. CASE OurWrap(EntryOf(state.mode), state)
  BY <1>1, <1>3 DEF Fits
<1>4. CASE state.mode = "in place" /\ config.entry = state.original
  BY <1>4 DEF Fits
<1>5. CASE state.mode = "project" /\ EntryOf("project") = NoEntry
  BY <1>1, <1>5 DEF Fits
<1>6. QED
  BY <1>2, <1>3, <1>4, <1>5 DEF Fits

\* An edit is made between commands.
LEMMA EditsLemma ==
  ASSUME IInv, Edits, kit' = kit, config' \in Config, mcp' \in Mcp \cup {NoFile},
         state' \in Record \cup {NoFile, Torn}, tampered' \subseteq Modes, Recorded',
         UNCHANGED <<backups, captured, theirs, began>>
  PROVE  IInv'
<1>1. kit.pc = "idle" /\ verdict' = "none" /\ Used("edits") /\ used.edits < MaxEdits
  BY DEF Edits
<1>2. TypeOK'
  <2>1. verdict' \in Verdicts
    BY <1>1 DEF Verdicts
  <2>2. QED
    BY <1>1, <2>1, UsedLemma, TypesLemma, NextTypesLemma DEF IInv
<1>3. SettingUp' /\ TurningOn' /\ Uninstalling'
  BY <1>1, IdleLemma
<1>4. BackedUp' /\ Claims'
  BY <1>1 DEF IInv, BackedUp, Copied, Claims
<1>5. QED
  BY <1>2, <1>3, <1>4 DEF IInv

LEMMA EntryChangesLemma ==
  ASSUME IInv, NEW entry \in Entry \cup {NoEntry}, EntryChanges(entry)
  PROVE  IInv'
<1>1. /\ Edits /\ config' = [config EXCEPT !.entry = entry]
      /\ Tamper("in place", config.entry, entry)
      /\ UNCHANGED <<mcp, state, backups, captured, kit, theirs, began>>
  BY DEF EntryChanges
<1>2. config \in Config /\ config.entry \in Entry \cup {NoEntry} /\ tampered \subseteq Modes
  BY TypesLemma DEF IInv, Config
<1>3. config' \in Config /\ config'.entry = entry
  BY <1>1, <1>2 DEF Config
<1>4. tampered' \subseteq Modes
  BY <1>1, <1>2 DEF Tamper, Modes
<1>5. ASSUME Readable PROVE Fits(state)' /\ Faithful(state)'
  <2>1. Fits(state) /\ Faithful(state) /\ ~state.original.wrapped /\ state.mode \in Modes
    BY <1>5, ReadableLemma DEF IInv, Recorded, Faithful
  <2>2. /\ tampered \subseteq tampered'
        /\ "in place" \in tampered' \/ (/\ config.entry # state.original /\ config.entry # NoEntry
                                        /\ OurWrap(config.entry, state) => OurWrap(entry, state))
    BY <1>1, <1>2, <2>1, TamperLemma
  <2>3. ASSUME state.mode = "in place" PROVE Fits(state)'
    <3>1. "in place" \in tampered \/ OurWrap(config.entry, state) \/ config.entry = state.original
      BY <2>1, <2>3 DEF Fits, EntryOf
    <3>2. "in place" \in tampered' \/ OurWrap(entry, state)
      BY <2>2, <3>1
    <3>3. EntryOf(state.mode)' = entry /\ state' = state
      BY <1>1, <1>3, <2>3 DEF EntryOf
    <3>4. QED
      BY <2>3, <3>2, <3>3 DEF Fits
  <2>4. ASSUME state.mode = "project" PROVE Fits(state)'
    BY <1>1, <2>1, <2>2, <2>4, UntouchedLemma
  <2>5. Fits(state)'
    BY <2>1, <2>3, <2>4 DEF Modes
  <2>6. QED
    BY <1>1, <2>1, <2>5 DEF Faithful
<1>6. Recorded'
  BY <1>1, <1>5 DEF Recorded, Readable
<1>7. QED
  BY <1>1, <1>3, <1>4, <1>6, EditsLemma, TypesLemma DEF IInv

LEMMA McpChangesLemma ==
  ASSUME IInv, NEW entry \in Entry \cup {NoEntry}, NEW others \in BOOLEAN, McpChanges(entry, others)
  PROVE  IInv'
<1>1. /\ Edits /\ mcp # NoFile /\ mcp' = [entry |-> entry, others |-> others]
      /\ Tamper("project", mcp.entry, entry)
      /\ UNCHANGED <<config, state, backups, captured, kit, theirs, began>>
  BY DEF McpChanges
<1>2. mcp \in Mcp /\ mcp.entry \in Entry \cup {NoEntry} /\ tampered \subseteq Modes
  BY <1>1, TypesLemma DEF IInv, Mcp
<1>3. mcp' \in Mcp /\ mcp'.entry = entry /\ mcp' # NoFile
  BY <1>1, KitAssumption DEF Mcp
<1>4. tampered' \subseteq Modes
  BY <1>1, <1>2 DEF Tamper, Modes
<1>5. ASSUME Readable PROVE Fits(state)' /\ Faithful(state)'
  <2>1. Fits(state) /\ Faithful(state) /\ ~state.original.wrapped /\ state.mode \in Modes
    BY <1>5, ReadableLemma DEF IInv, Recorded, Faithful
  <2>2. /\ tampered \subseteq tampered'
        /\ "project" \in tampered' \/ (/\ mcp.entry # NoEntry
                                       /\ OurWrap(mcp.entry, state) => OurWrap(entry, state))
    BY <1>1, <1>2, <2>1, TamperLemma
  <2>3. ASSUME state.mode = "in place" PROVE Fits(state)'
    BY <1>1, <2>1, <2>2, <2>3, UntouchedLemma
  <2>4. ASSUME state.mode = "project" PROVE Fits(state)'
    <3>1. EntryOf("project") = mcp.entry
      BY <1>1 DEF EntryOf
    <3>2. "project" \in tampered \/ OurWrap(mcp.entry, state) \/ mcp.entry = NoEntry
      BY <2>1, <2>4, <3>1 DEF Fits
    <3>3. "project" \in tampered' \/ OurWrap(entry, state)
      BY <2>2, <3>2
    <3>4. EntryOf(state.mode)' = entry /\ state' = state
      BY <1>1, <1>3, <2>4 DEF EntryOf
    <3>5. QED
      BY <2>4, <3>3, <3>4 DEF Fits
  <2>5. Fits(state)'
    BY <2>1, <2>3, <2>4 DEF Modes
  <2>6. QED
    BY <1>1, <2>1, <2>5 DEF Faithful
<1>6. Recorded'
  BY <1>1, <1>5 DEF Recorded, Readable
<1>7. QED
  BY <1>1, <1>3, <1>4, <1>6, EditsLemma, TypesLemma DEF IInv

LEMMA FilesDeletedLemma == ASSUME IInv, McpDeleted \/ StateDeleted PROVE IInv'
<1>1. CASE McpDeleted
  <2>1. /\ Edits /\ mcp' = NoFile /\ tampered' = tampered \cup {"project"}
        /\ UNCHANGED <<config, state, backups, captured, kit, theirs, began>>
    BY <1>1 DEF McpDeleted
  <2>2. Recorded'
    <3>1. ASSUME Readable PROVE Fits(state)' /\ Faithful(state)'
      <4>1. Fits(state) /\ Faithful(state) /\ state.mode \in Modes
        BY <3>1, ReadableLemma DEF IInv, Recorded
      <4>2. ASSUME state.mode = "in place" PROVE Fits(state)'
        BY <2>1, <4>1, <4>2, UntouchedLemma
      <4>3. ASSUME state.mode = "project" PROVE Fits(state)'
        BY <2>1, <4>3 DEF Fits
      <4>4. QED
        BY <2>1, <4>1, <4>2, <4>3 DEF Modes, Faithful
    <3>2. QED
      BY <2>1, <3>1 DEF Recorded, Readable
  <2>3. tampered' \subseteq Modes
    BY <2>1, TypesLemma DEF IInv, Modes
  <2>4. QED
    BY <2>1, <2>2, <2>3, EditsLemma, TypesLemma DEF IInv
<1>2. CASE StateDeleted
  <2>1. /\ Edits /\ state' = NoFile
        /\ UNCHANGED <<config, mcp, backups, captured, kit, theirs, tampered, began>>
    BY <1>2 DEF StateDeleted, history
  <2>2. Recorded'
    BY <2>1 DEF Recorded, Readable
  <2>3. QED
    BY <2>1, <2>2, EditsLemma, TypesLemma DEF IInv
<1>3. QED
  BY <1>1, <1>2

-----------------------------------------------------------------------------
(* The invariant.                                                          *)

LEMMA InitLemma == Init => IInv
<1> SUFFICES ASSUME Init PROVE IInv
  OBVIOUS
<1>1. /\ kit = Idle /\ verdict = "none" /\ captured = FALSE /\ tampered = {} /\ began = 0
      /\ used = [commands |-> 0, crashes |-> 0, edits |-> 0, saves |-> 0]
  BY DEF Init
<1>2. PICK original \in Entry :
        /\ ~original.wrapped
        /\ \/ config = [entry |-> original, rest |-> 0] /\ mcp = NoFile
              /\ state = NoFile /\ backups = {} /\ theirs = NoEntry
           \/ /\ config = [entry |-> original, rest |-> 0]
              /\ mcp = [entry |-> OldWrapOf(original), others |-> FALSE]
              /\ state = [mode |-> "project", original |-> original, wrapped |-> OldWrapOf(original)]
              /\ backups = {} /\ theirs = NoEntry
           \/ /\ config = [entry |-> OldWrapOf(original), rest |-> 0] /\ mcp = NoFile
              /\ state = [mode |-> "in place", original |-> original, wrapped |-> OldWrapOf(original)]
              /\ backups = {[entry |-> original, rest |-> 0]} /\ theirs = original
  BY DEF Init
<1> DEFINE wrapped == OldWrapOf(original)
           plain == [entry |-> original, rest |-> 0]
           aside == [mode |-> "project", original |-> original, wrapped |-> wrapped]
           inside == [mode |-> "in place", original |-> original, wrapped |-> wrapped]
           file == [entry |-> wrapped, others |-> FALSE]
<1>3. wrapped \in Entry /\ original # NoEntry /\ wrapped # NoEntry
  BY WrapLemma
<1>4. /\ plain \in Config /\ plain.entry = original /\ [entry |-> wrapped, rest |-> 0] \in Config
      /\ file \in Mcp /\ file.entry = wrapped
  BY <1>3 DEF Config, Mcp
<1>5. aside \in Record /\ inside \in Record
  BY <1>3 DEF Record, Modes
<1>6. file # NoFile
  BY <1>4, KitAssumption
<1>7. kit.pc = "idle" /\ kit \in Kits /\ verdict \in Verdicts /\ used \in Counts
  BY <1>1, KitAssumption DEF Kits, Pcs, Idle, Verdicts, Counts
<1>8. \/ config = plain /\ mcp = NoFile /\ state = NoFile /\ backups = {} /\ theirs = NoEntry
      \/ config = plain /\ mcp = file /\ state = aside /\ backups = {} /\ theirs = NoEntry
      \/ config = [entry |-> wrapped, rest |-> 0] /\ mcp = NoFile
         /\ state = inside /\ backups = {plain} /\ theirs = original
  BY <1>2
<1>9. OurWrap(wrapped, aside) /\ OurWrap(wrapped, inside)
  BY <1>3 DEF OurWrap
<1> HIDE DEF wrapped, plain, file
<1>10. TypeOK
  <2>1. config \in Config /\ mcp \in Mcp \cup {NoFile} /\ backups \subseteq Config
    BY <1>4, <1>8
  <2>2. state \in Record \cup {NoFile, Torn}
    BY <1>5, <1>8
  <2>3. theirs \in Entry \cup {NoEntry}
    BY <1>8
  <2>4. captured \in BOOLEAN /\ tampered \subseteq Modes /\ began \in Nat
    BY <1>1
  <2>5. QED
    BY <1>7, <2>1, <2>2, <2>3, <2>4, TypesLemma
<1>11. Recorded
  <2>1. CASE state = NoFile
    BY <2>1 DEF Recorded, Readable
  <2>2. CASE state = aside /\ mcp = file
    <3>1. EntryOf("project") = wrapped
      BY <1>4, <1>6, <2>2 DEF EntryOf
    <3>2. OurWrap(EntryOf(state.mode), state)
      BY <1>9, <2>2, <3>1
    <3>3. QED
      BY <1>2, <2>2, <3>2 DEF Recorded, Fits, Faithful
  <2>3. CASE state = inside /\ config = [entry |-> wrapped, rest |-> 0] /\ theirs = original
    <3>1. EntryOf("in place") = wrapped
      BY <2>3 DEF EntryOf
    <3>2. OurWrap(EntryOf(state.mode), state)
      BY <1>9, <2>3, <3>1
    <3>3. QED
      BY <1>2, <2>3, <3>2 DEF Recorded, Fits, Faithful
  <2>4. QED
    BY <1>8, <2>1, <2>2, <2>3
<1>12. BackedUp
  <2>1. theirs # NoEntry => Copied(theirs)
    BY <1>4, <1>8 DEF Copied
  <2>2. QED
    BY <1>7, <2>1 DEF BackedUp
<1>13. SettingUp /\ TurningOn /\ Uninstalling /\ Claims
  BY <1>1, <1>7 DEF SettingUp, TurningOn, Uninstalling, Claims
<1>14. QED
  BY <1>10, <1>11, <1>12, <1>13 DEF IInv

LEMMA NextLemma == IInv /\ [Next]_vars => IInv'
<1> SUFFICES ASSUME IInv, [Next]_vars PROVE IInv'
  OBVIOUS
<1>1. CASE Command
  BY <1>1, TellsLemma, SetupLemma, SetupAgainLemma, UninstallLemma DEF Command
<1>2. CASE KitGoesOn
  BY <1>2, BackUpLemma, WriteConfigLemma, WriteMcpLemma, OpenStateLemma, WriteStateLemma,
     ReportsAreSettledLemma, TurnOnReportsLemma, WriteReportsLemma,
     RestoreLemma, VerifyLemma, RemoveMcpLemma, ForgetLemma DEF KitGoesOn
<1>3. CASE Crash
  BY <1>3, CrashLemma
<1>4. CASE OtherHands
  BY <1>4, ClientSavesLemma, SessionLemma, EntryChangesLemma, McpChangesLemma,
     FilesDeletedLemma DEF OtherHands
<1>5. CASE UNCHANGED vars
  <2>1. UNCHANGED <<config, mcp, state, backups, captured, kit, verdict, theirs, tampered, began, used>>
    BY <1>5 DEF vars, files, history
  <2>2. TypeOK'
    BY <2>1, TypesLemma, NextTypesLemma DEF IInv
  <2>3. Recorded' /\ BackedUp'
    BY <2>1, RecordedLemma DEF IInv, BackedUp, Copied
  <2>4. SettingUp' /\ TurningOn' /\ Uninstalling' /\ Claims'
    BY <2>1, ZenonT(40) DEF IInv, SettingUp, TurningOn, Uninstalling, Claims, Readable, Faithful, OurWrap, EntryOf
  <2>5. QED
    BY <2>2, <2>3, <2>4 DEF IInv
<1>6. QED
  BY <1>1, <1>2, <1>3, <1>4, <1>5 DEF Next

\* The inductive invariant: a state file that can be read fits the file it names, or
\* other hands have been there; what was replaced is backed up before it is; and each
\* command, wherever it is, still knows what it read (cmd_setup, cmd_uninstall).
THEOREM Invariance == Spec => []IInv
BY InitLemma, NextLemma, PTL DEF Spec

\* Every variable has its type (the files of a trial, and the command that runs).
THEOREM TypeCorrect == Spec => []TypeOK
<1>1. IInv => TypeOK
  BY DEF IInv
<1>2. QED
  BY <1>1, Invariance, PTL

\* As long as the config holds the kit's wrap of an entry, a file of the kit holds the
\* entry, wherever setup or uninstall was killed and whatever was deleted.
THEOREM OriginalsSurvive == Spec => []OriginalIsRecoverable
<1>1. IInv => OriginalIsRecoverable
  BY DEF IInv, BackedUp, Copied, OriginalIsRecoverable
<1>2. QED
  BY <1>1, Invariance, PTL

\* is_still_our_wrap, wrap_is_gone: the kit takes only what other hands did for an edit.
THEOREM EditsAreReal == Spec => []EditsAreRealEdits
<1>1. IInv => EditsAreRealEdits
  BY DEF IInv, Claims, EditsAreRealEdits
<1>2. QED
  BY <1>1, Invariance, PTL

\* apply_unwrap and restored_matches_on_disk: the record goes when the entry is back.
THEOREM UninstallRestores == Spec => UninstallRestoresTheOriginal
<1>1. ASSUME IInv, Next, Readable, state.mode = "in place", state' = NoFile, verdict' = "restored"
      PROVE  config.entry = theirs
  <2>1. state # NoFile /\ verdict' # "none"
    BY <1>1 DEF Readable
  <2>2. Forget
    <3>1. CASE Command
      BY <1>1, <2>1, <3>1 DEF Command, Setup, SetupFindsNoEntry, SetupCannotCarry, SetupFindsAWrap,
         SetupFindsALeftover, SetupAgain, SetupFindsAnEdit, StateIsUnreadable, UninstallRefuses,
         Uninstall, UninstallFindsAnEdit, UninstallProject, UninstallProjectFindsAnEdit,
         ReceiptFindsTheWrap, ReceiptFindsNoWrap, ReceiptFindsNoState, Go, Tell, files
    <3>2. CASE KitGoesOn
      <4>1. BackUp \/ WriteConfig \/ WriteMcp \/ ReportsAreSettled \/ TurnOnReports \/ WriteReports
            \/ Restore \/ Verify \/ RemoveMcp => state' = state
        BY DEF BackUp, WriteConfig, WriteMcp, ReportsAreSettled, TurnOnReports, WriteReports,
           Restore, Verify, RemoveMcp, files
      <4>2. OpenState => state' = Torn
        BY DEF OpenState
      <4>3. WriteState => verdict' = "wrapped"
        BY DEF WriteState, End
      <4>4. QED
        BY <1>1, <2>1, <3>2, <4>1, <4>2, <4>3, KitAssumption DEF KitGoesOn
    <3>3. CASE Crash
      BY <1>1, <3>3 DEF Crash, End
    <3>4. CASE OtherHands
      BY <1>1, <2>1, <3>4 DEF OtherHands, ClientSaves, Session, EntryChanges, McpChanges, McpDeleted,
         StateDeleted, Edits, files
    <3>5. QED
      BY <1>1, <3>1, <3>2, <3>3, <3>4 DEF Next
  <2>3. kit.pc = "forget"
    BY <2>2 DEF Forget
  <2>4. kit.record = state /\ config.entry = state.original
    BY <1>1, <2>3 DEF IInv, Uninstalling
  <2>5. state.original = theirs
    BY <1>1 DEF IInv, Recorded, Faithful
  <2>6. QED
    BY <2>4, <2>5
<1>2. IInv /\ [Next]_vars =>
        [Readable /\ state.mode = "in place" /\ state' = NoFile /\ verdict' = "restored"
         => config.entry = theirs]_vars
  BY <1>1
<1>3. QED
  BY <1>2, Invariance, PTL DEF Spec, UninstallRestoresTheOriginal

\* remove_project_config: the file goes only if it held nothing but the wrap.
THEOREM OthersStay == Spec => OthersAreKept
<1>1. ASSUME IInv, Next, mcp # NoFile, kit.pc # "idle", mcp.others
      PROVE  mcp' # NoFile /\ mcp'.others
  <2>1. mcp \in Mcp
    BY <1>1, TypesLemma DEF IInv
  <2>2. CASE WriteMcp
    BY <1>1, <2>2 DEF WriteMcp, Step, IInv, SettingUp
  <2>3. CASE WriteReports \/ RemoveMcp
    <3>1. mcp' = mcp \/ (kit.read = mcp /\ \E entry \in Entry \cup {NoEntry} :
                                              mcp' = [mcp EXCEPT !.entry = entry])
      <4>1. CASE RemoveMcp
        BY <1>1, <4>1 DEF RemoveMcp, Step, IInv, Uninstalling
      <4>2. CASE WriteReports /\ kit.record.mode = "in place"
        BY <4>2 DEF WriteReports
      <4>3. CASE WriteReports /\ kit.record.mode # "in place"
        <5>1. kit.read = mcp /\ kit.record \in Record /\ mcp' = [kit.read EXCEPT !.entry = kit.record.wrapped]
          BY <1>1, <4>3 DEF WriteReports, Step, IInv, TurningOn
        <5>2. QED
          BY <5>1 DEF Record
      <4>4. QED
        BY <2>3, <4>1, <4>2, <4>3
    <3>2. \A entry \in Entry \cup {NoEntry} : [mcp EXCEPT !.entry = entry] \in Mcp
                                              /\ [mcp EXCEPT !.entry = entry].others = mcp.others
      BY <2>1 DEF Mcp
    <3>3. QED
      BY <1>1, <3>1, <3>2, KitAssumption, ZenonT(40)
  <2>4. CASE ~(WriteMcp \/ WriteReports \/ RemoveMcp)
    <3>1. mcp' = mcp
      BY <1>1, <2>4 DEF Next, Command, KitGoesOn, OtherHands,
         Setup, SetupFindsNoEntry, SetupCannotCarry, SetupFindsAWrap,
         SetupFindsALeftover, SetupAgain, SetupFindsAnEdit, StateIsUnreadable, UninstallRefuses,
         Uninstall, UninstallFindsAnEdit, UninstallProject, UninstallProjectFindsAnEdit,
         ReceiptFindsTheWrap, ReceiptFindsNoWrap, ReceiptFindsNoState, Go, Tell, Runs,
         BackUp, WriteConfig, OpenState, WriteState, ReportsAreSettled, TurnOnReports, Restore, Verify,
         Forget, Crash, ClientSaves, Session, EntryChanges, McpChanges, McpDeleted, StateDeleted,
         Edits, files
    <3>2. QED
      BY <1>1, <3>1
  <2>5. QED
    BY <2>2, <2>3, <2>4
<1>2. IInv /\ [Next]_vars =>
        [mcp # NoFile /\ kit.pc # "idle" /\ mcp.others => mcp' # NoFile /\ mcp'.others]_vars
  BY <1>1
<1>3. QED
  BY <1>2, Invariance, PTL DEF Spec, OthersAreKept

\* write_atomically after read_config: only what the client saves while a command runs
\* can be undone by it.
THEOREM ChangesStay == Spec => UnrelatedChangesAreKept
<1>1. ASSUME IInv, Next, config'.rest < config.rest PROVE config'.rest >= began
  <2>1. config \in Config
    BY <1>1, TypesLemma DEF IInv
  <2>2. CASE WriteConfig \/ Restore \/ (WriteReports /\ kit.record.mode = "in place")
    <3>1. config'.rest = kit.read.rest
      <4>1. CASE WriteConfig \/ (WriteReports /\ kit.record.mode = "in place")
        <5>1. config' = [entry |-> kit.record.wrapped, rest |-> kit.read.rest]
          BY <4>1 DEF WriteConfig, WriteReports, Rewrite
        <5>2. QED
          BY <5>1
      <4>2. CASE Restore
        <5>1. config' = [entry |-> kit.record.original, rest |-> kit.read.rest]
          BY <4>2 DEF Restore, Rewrite
        <5>2. QED
          BY <5>1
      <4>3. QED
        BY <2>2, <4>1, <4>2
    <3>2. kit.read.rest >= began
      BY <1>1, <2>2 DEF WriteConfig, Restore, WriteReports, Step, IInv, SettingUp, TurningOn, Uninstalling
    <3>3. QED
      BY <3>1, <3>2
  <2>3. CASE ClientSaves \/ \E entry \in Entry \cup {NoEntry} : EntryChanges(entry)
    <3>1. config.rest \in Nat /\ config'.rest \in {config.rest, config.rest + 1}
      BY <2>1, <2>3 DEF ClientSaves, EntryChanges, Config
    <3>2. QED
      BY <1>1, <3>1
  <2>4. CASE ~(WriteConfig \/ Restore \/ (WriteReports /\ kit.record.mode = "in place"))
             /\ ~(ClientSaves \/ \E entry \in Entry \cup {NoEntry} : EntryChanges(entry))
    <3>1. WriteReports => config' = config
      BY <2>4 DEF WriteReports
    <3>2. Command => config' = config
      BY DEF Command, Setup, SetupFindsNoEntry, SetupCannotCarry, SetupFindsAWrap,
         SetupFindsALeftover, SetupAgain, SetupFindsAnEdit, StateIsUnreadable, UninstallRefuses,
         Uninstall, UninstallFindsAnEdit, UninstallProject, UninstallProjectFindsAnEdit,
         ReceiptFindsTheWrap, ReceiptFindsNoWrap, ReceiptFindsNoState, Go, Tell, files
    <3>3. BackUp \/ WriteMcp \/ OpenState \/ WriteState \/ ReportsAreSettled \/ TurnOnReports
          \/ Verify \/ RemoveMcp \/ Forget \/ Crash => config' = config
      BY DEF BackUp, WriteMcp, OpenState, WriteState, ReportsAreSettled, TurnOnReports,
         Verify, RemoveMcp, Forget, Crash, files
    <3>4. Session \/ McpDeleted \/ StateDeleted
          \/ (\E entry \in Entry \cup {NoEntry}, others \in BOOLEAN : McpChanges(entry, others))
          => config' = config
      BY DEF Session, McpChanges, McpDeleted, StateDeleted, files
    <3>5. ASSUME Command \/ Crash PROVE config' = config
      BY <3>2, <3>3, <3>5
    <3>6. ASSUME KitGoesOn PROVE config' = config
      <4>1. ~WriteConfig /\ ~Restore
        BY <2>4
      <4>2. \/ BackUp \/ WriteMcp \/ OpenState \/ WriteState \/ ReportsAreSettled \/ TurnOnReports
            \/ Verify \/ RemoveMcp \/ Forget \/ WriteReports
        BY <3>6, <4>1 DEF KitGoesOn
      <4>3. QED
        BY <3>1, <3>3, <4>2
    <3>7. ASSUME OtherHands PROVE config' = config
      BY <2>4, <3>4, <3>7 DEF OtherHands
    <3>8. config' = config
      BY <1>1, <3>5, <3>6, <3>7 DEF Next
    <3>9. config.rest \in Nat
      BY <2>1 DEF Config
    <3>10. QED
      BY <1>1, <3>8, <3>9
  <2>5. QED
    BY <2>2, <2>3, <2>4
<1>2. IInv /\ [Next]_vars => [config'.rest < config.rest => config'.rest >= began]_vars
  BY <1>1
<1>3. QED
  BY <1>2, Invariance, PTL DEF Spec, UnrelatedChangesAreKept

-----------------------------------------------------------------------------
(* The one window in which the kit can lose track of its own wrap.         *)

\* The wrap is in the config and its record nowhere: a kill here, between two writes.
KilledBeforeTheRecord ==
  Crash /\ kit.pc = "open state" /\ kit.record.mode = "in place" /\ state = NoFile

\* A wrap in the config has its record, on disk, on its way or cut off by a kill; or
\* it is not the kit's.
InPlaceRecord ==
  \/ Readable /\ state.mode = "in place"
  \/ kit.pc \in {"open state", "write state"} /\ kit.record.mode = "in place"
  \/ kit.pc = "idle" /\ state = Torn
NotTheKits == theirs = NoEntry \/ "in place" \in tampered
Owned ==
  /\ config.entry.wrapped => InPlaceRecord \/ NotTheKits
  /\ kit.pc = "write state" => state = Torn
  /\ kit.pc = "open state" /\ Readable => state.mode = kit.record.mode

\* A step that leaves the files as they are and is not a kill.
LEMMA OwnedStillLemma ==
  ASSUME Owned, UNCHANGED <<config, state, theirs, tampered>>,
         kit.pc \notin {"open state", "write state"}, state # Torn \/ kit' = kit,
         kit'.pc \notin {"open state", "write state"}
  PROVE  Owned'
BY DEF Owned, InPlaceRecord, NotTheKits, Readable

\* Every step keeps the wrap and its record together, and the kit to the truth.
LEMMA OwnedStepLemma ==
  ASSUME IInv, Owned, DisownsNoWrapOfItsOwn, [Next]_vars,
         ~KilledBeforeTheRecord, ~StateDeleted
  PROVE  Owned' /\ DisownsNoWrapOfItsOwn'
<1>0. /\ config \in Config /\ kit \in Kits /\ verdict \in Verdicts
      /\ state \in Record \cup {NoFile, Torn} /\ NoFile # Torn
      /\ theirs \in Entry \cup {NoEntry} /\ ~NoEntry.wrapped
  BY TypesLemma, KitAssumption DEF IInv, NoEntry
<1>1. ASSUME verdict' \notin {"somebody else's wrap", "trial ended"} PROVE DisownsNoWrapOfItsOwn'
  BY <1>1 DEF DisownsNoWrapOfItsOwn
<1>2. kit.pc # "idle" => verdict = "none"
  BY DEF IInv, Claims
<1>3. ASSUME NEW words, Tell(words),
             words \in {"somebody else's wrap", "trial ended"} => state = NoFile
      PROVE  Owned' /\ DisownsNoWrapOfItsOwn'
  <2>1. /\ UNCHANGED <<config, state, theirs, tampered, kit>> /\ kit.pc = "idle"
        /\ verdict' = words
    BY <1>3 DEF Tell, Runs, files, history
  <2>2. Owned'
    BY <2>1, OwnedStillLemma
  <2>3. state = NoFile /\ config.entry.wrapped => NotTheKits
    BY <1>0, <2>1 DEF Owned, InPlaceRecord, Readable
  <2>4. QED
    BY <1>3, <2>1, <2>2, <2>3 DEF DisownsNoWrapOfItsOwn, NotTheKits
<1>4. ASSUME NEW pc, NEW read, NEW record, Go(pc, read, record), state # Torn,
             pc \notin {"open state", "write state"}
      PROVE  Owned' /\ DisownsNoWrapOfItsOwn'
  <2>1. /\ UNCHANGED <<config, state, theirs, tampered>> /\ kit.pc = "idle"
        /\ kit'.pc = pc /\ verdict' = "none"
    BY <1>4 DEF Go, Runs, files, history
  <2>2. QED
    BY <1>1, <1>4, <2>1, OwnedStillLemma
<1>5. CASE Command
  <2>1. CASE \E mode \in Modes : Setup(mode)
    <3>1. PICK mode \in Modes : Setup(mode)
      BY <2>1
    <3>2. (IF mode = "in place" THEN "back up" ELSE "write mcp") \notin {"open state", "write state"}
      OBVIOUS
    <3>3. state # Torn
      BY <1>0, <3>1 DEF Setup
    <3>4. QED
      BY <1>4, <3>1, <3>2, <3>3 DEF Setup
  <2>2. CASE SetupAgain \/ Uninstall \/ UninstallProject
    BY <1>4, <2>2 DEF SetupAgain, Uninstall, UninstallProject, Readable
  <2>3. CASE SetupFindsNoEntry \/ SetupCannotCarry \/ SetupFindsAWrap \/ SetupFindsALeftover
             \/ SetupFindsAnEdit \/ StateIsUnreadable \/ UninstallRefuses \/ UninstallFindsAnEdit
             \/ UninstallProjectFindsAnEdit \/ ReceiptFindsTheWrap \/ ReceiptFindsNoWrap
             \/ ReceiptFindsNoState
    BY <1>3, <2>3
    DEF SetupFindsNoEntry, SetupCannotCarry, SetupFindsAWrap, SetupFindsALeftover,
        SetupFindsAnEdit, StateIsUnreadable, UninstallRefuses, UninstallFindsAnEdit,
        UninstallProjectFindsAnEdit, ReceiptFindsTheWrap, ReceiptFindsNoWrap, ReceiptFindsNoState
  <2>4. QED
    BY <1>5, <2>1, <2>2, <2>3 DEF Command
<1>6. ASSUME kit.pc # "idle", verdict' \in {"none", "wrapped", "unverified", "restored"}
      PROVE  DisownsNoWrapOfItsOwn'
  BY <1>1, <1>6
<1>7. CASE KitGoesOn
  <2>1. kit.pc # "idle" /\ verdict' \in {"none", "wrapped", "unverified", "restored"}
    BY <1>2, <1>7
    DEF KitGoesOn, BackUp, WriteConfig, WriteMcp, OpenState, WriteState, ReportsAreSettled,
        TurnOnReports, WriteReports, Restore, Verify, RemoveMcp, Forget, Step, End
  <2>2. DisownsNoWrapOfItsOwn'
    BY <1>6, <2>1
  <2>3. CASE BackUp \/ ReportsAreSettled \/ TurnOnReports \/ Verify \/ RemoveMcp
    <3>1. /\ UNCHANGED <<config, state, theirs, tampered>>
          /\ kit.pc \in {"back up", "turn on", "verify", "remove"}
          /\ kit'.pc \in {"write config", "idle", "write reports", "forget"}
      <4>1. BackUp \/ RemoveMcp => /\ UNCHANGED <<config, state, theirs, tampered>>
                                  /\ kit.pc \in {"back up", "remove"}
                                  /\ kit'.pc \in {"write config", "forget"}
        BY <1>0 DEF BackUp, RemoveMcp, Step, history, Kits
      <4>2. ASSUME ReportsAreSettled
            PROVE  /\ UNCHANGED <<config, state, theirs, tampered>>
                   /\ kit.pc = "turn on" /\ kit'.pc = "idle"
        <5>1. kit.pc = "turn on" /\ kit' = Idle /\ UNCHANGED <<files, history>>
          BY <4>2 DEF ReportsAreSettled, End
        <5>2. QED
          BY <5>1 DEF Idle, files, history
      <4>3. ASSUME TurnOnReports
            PROVE  /\ UNCHANGED <<config, state, theirs, tampered>>
                   /\ kit.pc = "turn on" /\ kit'.pc = "write reports"
        <5> DEFINE record == [kit.record EXCEPT !.wrapped =
                                [EntryOf(kit.record.mode) EXCEPT !.annotate = "on"]]
        <5>1. /\ kit.pc = "turn on" /\ UNCHANGED <<files, history>>
              /\ kit' = [pc |-> "write reports", read |-> FileOf(kit.record.mode),
                         record |-> record]
          BY <4>3 DEF TurnOnReports
        <5> HIDE DEF record
        <5>2. QED
          BY <5>1 DEF files, history
      <4>4. Verify => /\ UNCHANGED <<config, state, theirs, tampered>>
                      /\ kit.pc = "verify" /\ kit'.pc \in {"forget", "idle"}
        BY <1>0 DEF Verify, End, Idle, files, history, Kits
      <4>5. QED
        BY <2>3, <4>1, <4>2, <4>3, <4>4
    <3>2. state # Torn
      BY <1>0, <3>1 DEF IInv, SettingUp, TurningOn, Uninstalling, Readable
    <3>3. QED
      BY <2>2, <3>1, <3>2, OwnedStillLemma
  <2>4. CASE WriteConfig
    BY <1>0, <2>2, <2>4
    DEF WriteConfig, Step, Kits, Owned, InPlaceRecord, Readable, IInv, SettingUp
  <2>5. CASE WriteMcp
    BY <1>0, <2>2, <2>5
    DEF WriteMcp, Step, Kits, Owned, InPlaceRecord, NotTheKits, Readable, IInv, SettingUp
  <2>6. CASE OpenState
    <3>1. /\ kit.pc = "open state" /\ kit'.pc = "write state" /\ kit'.record = kit.record
          /\ UNCHANGED <<config, theirs, tampered>> /\ state' = Torn
      BY <1>0, <2>6 DEF OpenState, Step, Kits, history
    <3>2. Readable /\ state.mode = "in place" => kit.record.mode = "in place"
      BY <3>1 DEF Owned
    <3>3. QED
      BY <1>0, <2>2, <3>1, <3>2 DEF Owned, InPlaceRecord, NotTheKits, Readable
  <2>7. CASE WriteState
    <3>1. /\ kit.pc = "write state" /\ kit'.pc = "idle" /\ state' = kit.record
          /\ UNCHANGED <<config, theirs, tampered>> /\ state = Torn
      BY <1>0, <2>7 DEF WriteState, End, Idle, history, Owned
    <3>2. kit.record # NoFile /\ kit.record # Torn
      BY <3>1, RecordLemma DEF IInv, SettingUp
    <3>3. QED
      BY <1>0, <2>2, <3>1, <3>2 DEF Owned, InPlaceRecord, NotTheKits, Readable
  <2>8. CASE WriteReports
    <3>1. /\ kit.pc = "write reports" /\ kit'.pc = "open state" /\ kit'.record = kit.record
          /\ UNCHANGED <<state, theirs>>
          /\ kit.record.mode # "in place" => UNCHANGED <<config, tampered>>
      BY <1>0, <2>8 DEF WriteReports, Step, Kits
    <3>2. Readable /\ kit.record.mode = state.mode
      BY <3>1 DEF IInv, TurningOn
    <3>3. QED
      BY <1>0, <2>2, <3>1, <3>2 DEF Owned, InPlaceRecord, NotTheKits, Readable
  <2>9. CASE Restore
    <3>1. /\ kit.pc = "restore" /\ kit'.pc = "verify" /\ config'.entry = kit.record.original
      BY <1>0, <2>9 DEF Restore, Rewrite, Step, Kits
    <3>2. kit.record = state /\ Readable /\ ~state.original.wrapped
      BY <3>1 DEF IInv, Uninstalling, Recorded, Faithful
    <3>3. QED
      BY <2>2, <3>1, <3>2 DEF Owned
  <2>10. CASE Forget
    <3>1. /\ kit.pc = "forget" /\ kit'.pc = "idle" /\ UNCHANGED <<config, theirs, tampered>>
          /\ state' = NoFile
      BY <1>0, <2>10 DEF Forget, End, Idle, history
    <3>2. kit.record = state /\ Readable /\ ~state.original.wrapped
      BY <3>1 DEF IInv, Uninstalling, Recorded, Faithful
    <3>3. state.mode = "in place" => ~config.entry.wrapped
      BY <3>1, <3>2 DEF IInv, Uninstalling
    <3>4. QED
      BY <1>0, <2>2, <3>1, <3>2, <3>3 DEF Owned, InPlaceRecord, NotTheKits, Readable
  <2>11. QED
    BY <1>7, <2>3, <2>4, <2>5, <2>6, <2>7, <2>8, <2>9, <2>10 DEF KitGoesOn
<1>8. CASE Crash
  <2>1. /\ kit.pc # "idle" /\ kit'.pc = "idle" /\ verdict' = "none"
        /\ UNCHANGED <<config, state, theirs, tampered>>
    BY <1>8 DEF Crash, End, Idle, files, history
  <2>2. kit.pc = "open state" /\ kit.record.mode = "in place" => state # NoFile
    BY <1>8 DEF KilledBeforeTheRecord
  <2>3. InPlaceRecord => InPlaceRecord'
    BY <1>0, <2>1, <2>2 DEF Owned, InPlaceRecord, Readable
  <2>4. QED
    BY <1>1, <2>1, <2>3 DEF Owned, NotTheKits
<1>9. CASE OtherHands
  <2>1. kit' = kit
    BY <1>9 DEF OtherHands, ClientSaves, Session, EntryChanges, McpChanges, McpDeleted, StateDeleted
  <2>2. CASE ClientSaves \/ Session
    <3>1. /\ config'.entry = config.entry /\ UNCHANGED <<state, theirs, tampered, verdict>>
      BY <1>0, <2>2 DEF ClientSaves, Session, files, history, Config
    <3>2. QED
      BY <2>1, <3>1 DEF Owned, InPlaceRecord, NotTheKits, Readable, DisownsNoWrapOfItsOwn
  <2>3. ASSUME NEW entry \in Entry \cup {NoEntry}, EntryChanges(entry)
        PROVE  Owned' /\ DisownsNoWrapOfItsOwn'
    <3>1. /\ config'.entry = entry /\ UNCHANGED <<state, theirs>> /\ verdict' = "none"
          /\ \/ config.entry.wrapped /\ tampered' = tampered
             \/ "in place" \in tampered'
      BY <1>0, <2>3 DEF EntryChanges, Edits, Tamper, Config
    <3>2. QED
      BY <1>1, <2>1, <3>1 DEF Owned, InPlaceRecord, NotTheKits, Readable
  <2>4. CASE McpDeleted \/ \E entry \in Entry \cup {NoEntry}, others \in BOOLEAN :
                              McpChanges(entry, others)
    <3>1. /\ UNCHANGED <<config, state, theirs>> /\ verdict' = "none"
          /\ tampered \subseteq tampered'
      BY <2>4 DEF McpChanges, McpDeleted, Edits, Tamper
    <3>2. QED
      BY <1>1, <2>1, <3>1 DEF Owned, InPlaceRecord, NotTheKits, Readable
  <2>5. QED
    BY <1>9, <2>2, <2>3, <2>4 DEF OtherHands
<1>10. CASE UNCHANGED vars
  BY <1>10 DEF vars, files, history, Owned, InPlaceRecord, NotTheKits, Readable, DisownsNoWrapOfItsOwn
<1>11. QED
  BY <1>5, <1>7, <1>8, <1>9, <1>10 DEF Next

\* The kit never says of a wrap of its own that somebody else did it, or that its trial
\* is over, unless a setup was killed between its last two files or a person deleted the
\* record: every other kill and every edit of an entry leaves it to the truth.
THEOREM OnlyALostRecordDisowns ==
  Spec /\ [][~KilledBeforeTheRecord /\ ~StateDeleted]_vars => []DisownsNoWrapOfItsOwn
<1>1. Init => Owned /\ DisownsNoWrapOfItsOwn
  <2> SUFFICES ASSUME Init PROVE Owned /\ DisownsNoWrapOfItsOwn
    OBVIOUS
  <2>1. kit.pc = "idle" /\ verdict = "none"
    BY DEF Init, Idle
  <2>2. PICK original \in Entry :
          \/ theirs = NoEntry
          \/ state = [mode |-> "in place", original |-> original, wrapped |-> OldWrapOf(original)]
    BY DEF Init
  <2>3. theirs = NoEntry \/ (Readable /\ state.mode = "in place")
    <3> DEFINE record == [mode |-> "in place", original |-> original,
                          wrapped |-> OldWrapOf(original)]
    <3>1. theirs = NoEntry \/ state = record
      BY <2>2
    <3>2. record \in Record /\ record.mode = "in place"
      BY WrapLemma DEF Record, Modes
    <3> HIDE DEF record
    <3>3. record # NoFile /\ record # Torn
      BY <3>2, RecordLemma
    <3>4. QED
      BY <3>1, <3>2, <3>3 DEF Readable
  <2>4. QED
    BY <2>1, <2>3 DEF Owned, InPlaceRecord, NotTheKits, DisownsNoWrapOfItsOwn
<1>2. IInv /\ Owned /\ DisownsNoWrapOfItsOwn /\ [Next]_vars
        /\ [~KilledBeforeTheRecord /\ ~StateDeleted]_vars
      => (Owned /\ DisownsNoWrapOfItsOwn)'
  <2>1. IInv /\ Owned /\ DisownsNoWrapOfItsOwn /\ [Next]_vars
          /\ ~KilledBeforeTheRecord /\ ~StateDeleted
        => (Owned /\ DisownsNoWrapOfItsOwn)'
    BY OwnedStepLemma
  <2>2. Owned /\ DisownsNoWrapOfItsOwn /\ UNCHANGED vars => (Owned /\ DisownsNoWrapOfItsOwn)'
    BY DEF vars, files, history, Owned, InPlaceRecord, NotTheKits, Readable, DisownsNoWrapOfItsOwn
  <2>3. QED
    BY <2>1, <2>2
<1>3. QED
  BY <1>1, <1>2, Invariance, PTL DEF Spec
=============================================================================
