------------------------------- MODULE TryKit -------------------------------
(***************************************************************************)
(* try/kit.py: setup wraps one server entry in the proxy, uninstall puts   *)
(* the original back.  A trial lasts for days.  Its files are all there is *)
(* of it: the config of the MCP client or, in project mode, the kit's own  *)
(* .mcp.json; state.json, which records what was wrapped; and the backups. *)
(* A command reads them, decides, and writes them one at a time, and may   *)
(* be killed between any two writes.                                       *)
(*                                                                         *)
(* Between commands a person, or the client with a copy of its own, may    *)
(* leave any entry in the config; while a command runs the client rewrites *)
(* the rest of its file.                                                   *)
(***************************************************************************)
EXTENDS Naturals

CONSTANTS
  Servers,         \* what an entry may launch: the identity of all its other keys
  Uncarried,       \* those of them that the proxy cannot stand in for
  MaxCommands,     \* how many times the kit is run
  MaxCrashes,      \* how many runs are killed
  MaxEdits,        \* how often other hands change an entry or a file of the kit
  MaxSaves,        \* how often the client rewrites the rest of its config
  NoFile, Torn     \* a file that is not there, and a state file cut off by a kill

\* An entry: what it launches, directly or through the proxy, and BATON_ANNOTATE.
Entry == [launches : Servers, wrapped : BOOLEAN, annotate : {"on", "off", "unset"}]
NoEntry == [launches |-> "nothing", wrapped |-> FALSE, annotate |-> "unset"]
Modes == {"in place", "project"}

Config == [entry : Entry \cup {NoEntry}, rest : Nat]
Mcp == [entry : Entry \cup {NoEntry}, others : BOOLEAN]
Record == [mode : Modes, original : Entry, wrapped : Entry]

ASSUME KitAssumption ==
  /\ Servers # {} /\ Uncarried \subseteq Servers /\ "nothing" \notin Servers
  /\ {MaxCommands, MaxCrashes, MaxEdits, MaxSaves} \subseteq Nat
  /\ NoFile \notin Mcp \cup Record /\ Torn \notin Record /\ NoFile # Torn

VARIABLES
  config,     \* the client's config: the server's entry, and the version of the rest
  mcp,        \* .mcp.json: NoFile, or its entry and whether it holds others
  state,      \* state.json: NoFile, Torn, or the record of a wrap
  backups,    \* the copies of config that setup took
  kit,        \* the command that runs: where it is, what it read, what it will record
  verdict,    \* what the last command told its caller
  captured,   \* is there an event in events.jsonl?
  theirs,     \* the entry that the kit's last wrap of config replaced
  tampered,   \* modes whose entry other hands have changed since the kit wrote it
  began,      \* the version of the rest of config when the command began
  used        \* commands, crashes, edits and saves so far

files == <<config, mcp, state, backups>>
history == <<theirs, tampered, began>>
vars == <<files, captured, kit, verdict, history, used>>

Idle == [pc |-> "idle", read |-> NoFile, record |-> NoFile]

\* is_wrappable, http_bridge: a command, or a url with a bearer token and no other
\* header; the proxy sends that token, and nothing the client keeps to itself.
Wrappable(entry) == entry.wrapped \/ entry.launches \notin Uncarried

WrapOf(entry) == [entry EXCEPT !.wrapped = TRUE, !.annotate = "on"]

\* What an older kit left behind: it wrote no BATON_ANNOTATE.
OldWrapOf(entry) == [entry EXCEPT !.wrapped = TRUE]

Used(what) == used' = [used EXCEPT ![what] = @ + 1]

Init ==
  /\ kit = Idle
  /\ verdict = "none"
  /\ captured = FALSE
  /\ tampered = {}
  /\ began = 0
  /\ used = [commands |-> 0, crashes |-> 0, edits |-> 0, saves |-> 0]
  /\ \E original \in {e \in Entry : ~e.wrapped /\ e.annotate = "unset"} :
       \/ /\ config = [entry |-> original, rest |-> 0]
          /\ mcp = NoFile
          /\ state = NoFile
          /\ backups = {}
          /\ theirs = NoEntry
       \/ /\ Wrappable(original)
          /\ config = [entry |-> original, rest |-> 0]
          /\ mcp = [entry |-> OldWrapOf(original), others |-> FALSE]
          /\ state = [mode |-> "project", original |-> original, wrapped |-> OldWrapOf(original)]
          /\ backups = {}
          /\ theirs = NoEntry
       \/ /\ Wrappable(original)
          /\ config = [entry |-> OldWrapOf(original), rest |-> 0]
          /\ mcp = NoFile
          /\ state = [mode |-> "in place", original |-> original, wrapped |-> OldWrapOf(original)]
          /\ backups = {[entry |-> original, rest |-> 0]}
          /\ theirs = original

-----------------------------------------------------------------------------
(* What a command reads.                                                   *)

Readable == state \notin {NoFile, Torn}

\* current_entry, of the file the state names.
EntryOf(mode) ==
  IF mode = "in place" THEN config.entry
  ELSE IF mcp = NoFile THEN NoEntry ELSE mcp.entry

FileOf(mode) == IF mode = "in place" THEN config ELSE mcp

\* A mistake: the entries compared as they are.
OurWrapExactly(entry, record) == entry = record.wrapped

\* is_still_our_wrap: equal but for BATON_ANNOTATE.
OurWrap(entry, record) ==
  /\ entry # NoEntry
  /\ entry.launches = record.wrapped.launches
  /\ entry.wrapped = record.wrapped.wrapped

Runs == kit.pc = "idle" /\ used.commands < MaxCommands /\ Used("commands")

\* A command that has something to say and nothing to write.
Tell(words) ==
  /\ Runs
  /\ verdict' = words
  /\ UNCHANGED <<files, captured, kit, history>>

\* A command that goes on: where to, what it has read, what it will record.
Go(pc, read, record) ==
  /\ Runs
  /\ kit' = [pc |-> pc, read |-> read, record |-> record]
  /\ verdict' = "none"
  /\ began' = config.rest
  /\ UNCHANGED <<files, captured, theirs, tampered>>

Step(from, to) == kit.pc = from /\ kit' = [kit EXCEPT !.pc = to]

End(result) == kit' = Idle /\ verdict' = result

-----------------------------------------------------------------------------
(* setup.                                                                  *)

\* cmd_setup finds the entry and wraps a copy of it.
Setup(mode) ==
  /\ state = NoFile
  /\ config.entry # NoEntry /\ Wrappable(config.entry) /\ ~config.entry.wrapped
  /\ mode = "project" => mcp = NoFile
  /\ Go(IF mode = "in place" THEN "back up" ELSE "write mcp", config,
        [mode |-> mode, original |-> config.entry, wrapped |-> WrapOf(config.entry)])

SetupFindsNoEntry ==
  /\ state = NoFile /\ config.entry = NoEntry
  /\ Tell("no such server")

SetupCannotCarry ==
  /\ state = NoFile /\ config.entry # NoEntry /\ ~Wrappable(config.entry)
  /\ Tell("not wrappable")

SetupFindsAWrap ==
  /\ state = NoFile /\ config.entry.wrapped
  /\ Tell("somebody else's wrap")

SetupFindsALeftover ==
  /\ state = NoFile
  /\ config.entry # NoEntry /\ Wrappable(config.entry) /\ ~config.entry.wrapped
  /\ mcp # NoFile
  /\ Tell("leftover")

\* A second setup: the wrap is there, and only its reports may need to go on.
SetupAgain ==
  /\ Readable /\ OurWrap(EntryOf(state.mode), state)
  /\ Go("turn on", NoFile, state)

SetupFindsAnEdit ==
  /\ Readable /\ ~OurWrap(EntryOf(state.mode), state)
  /\ Tell("stale")

\* load_state, in every command.
StateIsUnreadable ==
  /\ state = Torn
  /\ Tell("unreadable")

\* A mistake: the state file is trusted to be written.
BackUpNothing ==
  /\ Step("back up", "write config")
  /\ UNCHANGED <<files, captured, verdict, history, used>>

\* The whole config is copied as it is now, not as it was read.
BackUp ==
  /\ Step("back up", "write config")
  /\ backups' = backups \cup {config}
  /\ UNCHANGED <<config, mcp, state, captured, verdict, history, used>>

\* write_atomically: what was read of the rest comes back with the new entry.
Rewrite(entry) ==
  /\ config' = [entry |-> entry, rest |-> kit.read.rest]
  /\ tampered' = tampered \ {"in place"}

WriteConfig ==
  /\ Step("write config", "open state")
  /\ Rewrite(kit.record.wrapped)
  /\ theirs' = kit.record.original
  /\ UNCHANGED <<mcp, state, backups, captured, verdict, began, used>>

WriteMcp ==
  /\ Step("write mcp", "open state")
  /\ mcp' = [entry |-> kit.record.wrapped, others |-> FALSE]
  /\ tampered' = tampered \ {"project"}
  /\ UNCHANGED <<config, state, backups, captured, verdict, theirs, began, used>>

\* write_state_file truncates, and then writes.
OpenState ==
  /\ Step("open state", "write state")
  /\ state' = Torn
  /\ UNCHANGED <<config, mcp, backups, captured, verdict, history, used>>

WriteState ==
  /\ kit.pc = "write state"
  /\ state' = kit.record
  /\ End("wrapped")
  /\ UNCHANGED <<config, mcp, backups, captured, history, used>>

\* turn_on_reports reads the file once more; a key that is there, in the record
\* or in the entry, is the person's choice.
ReportsAreSettled ==
  /\ kit.pc = "turn on"
  /\ kit.record.wrapped.annotate # "unset" \/ EntryOf(kit.record.mode).annotate # "unset"
  /\ End("wrapped")
  /\ UNCHANGED <<files, captured, history, used>>

\* A mistake: the entry that is found is recorded as the original.
TurnOnReportsAnew ==
  /\ kit.pc = "turn on"
  /\ kit.record.wrapped.annotate = "unset" /\ EntryOf(kit.record.mode).annotate = "unset"
  /\ kit' = [pc     |-> "write reports",
             read   |-> FileOf(kit.record.mode),
             record |-> [kit.record EXCEPT
                           !.original = EntryOf(kit.record.mode),
                           !.wrapped = [EntryOf(kit.record.mode) EXCEPT !.annotate = "on"]]]
  /\ UNCHANGED <<files, captured, verdict, history, used>>

TurnOnReports ==
  /\ kit.pc = "turn on"
  /\ kit.record.wrapped.annotate = "unset" /\ EntryOf(kit.record.mode).annotate = "unset"
  /\ kit' = [pc     |-> "write reports",
             read   |-> FileOf(kit.record.mode),
             record |-> [kit.record EXCEPT !.wrapped =
                           [EntryOf(kit.record.mode) EXCEPT !.annotate = "on"]]]
  /\ UNCHANGED <<files, captured, verdict, history, used>>

WriteReports ==
  /\ Step("write reports", "open state")
  /\ IF kit.record.mode = "in place"
     THEN Rewrite(kit.record.wrapped) /\ UNCHANGED mcp
     ELSE /\ mcp' = [kit.read EXCEPT !.entry = kit.record.wrapped]
          /\ UNCHANGED <<config, tampered>>
  /\ UNCHANGED <<state, backups, captured, verdict, theirs, began, used>>

-----------------------------------------------------------------------------
(* uninstall.                                                              *)

UninstallRefuses ==
  /\ state = NoFile
  /\ Tell("nothing to reverse")

\* apply_unwrap restores our wrap, and takes an entry that is the original again
\* for restored.
Uninstall ==
  /\ Readable /\ state.mode = "in place"
  /\ config.entry = state.original \/ OurWrap(config.entry, state)
  /\ Go("restore", config, state)

UninstallFindsAnEdit ==
  /\ Readable /\ state.mode = "in place"
  /\ config.entry # state.original /\ ~OurWrap(config.entry, state)
  /\ Tell("edited")

\* A mistake: the backup is copied over the config.
RestoreBackup ==
  /\ Step("restore", "verify")
  /\ \E copy \in backups : config' = copy
  /\ tampered' = tampered \ {"in place"}
  /\ UNCHANGED <<mcp, state, backups, captured, verdict, theirs, began, used>>

Restore ==
  /\ Step("restore", "verify")
  /\ Rewrite(kit.record.original)
  /\ UNCHANGED <<mcp, state, backups, captured, verdict, theirs, began, used>>

\* restored_matches_on_disk: the record goes only if the entry is back.
Verify ==
  /\ kit.pc = "verify"
  /\ IF config.entry = kit.record.original
     THEN kit' = [kit EXCEPT !.pc = "forget"] /\ UNCHANGED verdict
     ELSE End("unverified")
  /\ UNCHANGED <<files, captured, history, used>>

\* remove_project_config: the file or the entry is gone, holds our wrap, or was edited.
UninstallProject ==
  /\ Readable /\ state.mode = "project"
  /\ EntryOf("project") = NoEntry \/ OurWrap(EntryOf("project"), state)
  /\ Go(IF EntryOf("project") = NoEntry THEN "forget" ELSE "remove", mcp, state)

UninstallProjectFindsAnEdit ==
  /\ Readable /\ state.mode = "project"
  /\ EntryOf("project") # NoEntry /\ ~OurWrap(EntryOf("project"), state)
  /\ Tell("edited")

\* A mistake: the kit wrote the file, so the file goes.
RemoveMcpWhole ==
  /\ Step("remove", "forget")
  /\ mcp' = NoFile
  /\ UNCHANGED <<config, state, backups, captured, verdict, history, used>>

\* The file goes if it held nothing else, and is rewritten without the entry if it did.
RemoveMcp ==
  /\ Step("remove", "forget")
  /\ mcp' = IF kit.read.others THEN [kit.read EXCEPT !.entry = NoEntry] ELSE NoFile
  /\ UNCHANGED <<config, state, backups, captured, verdict, history, used>>

Forget ==
  /\ kit.pc = "forget"
  /\ state' = NoFile
  /\ End("restored")
  /\ UNCHANGED <<config, mcp, backups, captured, history, used>>

-----------------------------------------------------------------------------
(* receipt, which only reads.                                              *)

ReceiptFindsTheWrap ==
  /\ Readable /\ OurWrap(EntryOf(state.mode), state)
  /\ Tell("in place")

ReceiptFindsNoWrap ==
  /\ Readable /\ ~OurWrap(EntryOf(state.mode), state)
  /\ Tell("the wrap is gone")

\* Without a state file the events decide.
ReceiptFindsNoState ==
  /\ state = NoFile
  /\ Tell(IF captured THEN "trial ended" ELSE "not set up")

-----------------------------------------------------------------------------
(* Crashes and other hands.                                                *)

Crash ==
  /\ kit.pc # "idle" /\ used.crashes < MaxCrashes
  /\ End("none")
  /\ Used("crashes")
  /\ UNCHANGED <<files, captured, history>>

\* The client writes its config back with a change outside the entry.
ClientSaves ==
  /\ used.saves < MaxSaves
  /\ config' = [config EXCEPT !.rest = @ + 1]
  /\ Used("saves")
  /\ UNCHANGED <<mcp, state, backups, captured, kit, verdict, history>>

\* The client launches what its config says, and what is wrapped leaves events.
Session ==
  /\ config.entry.wrapped \/ EntryOf("project").wrapped
  /\ ~captured /\ captured' = TRUE
  /\ UNCHANGED <<files, kit, verdict, history, used>>

Edits == kit.pc = "idle" /\ used.edits < MaxEdits /\ Used("edits") /\ verdict' = "none"

\* The BATON_ANNOTATE of a wrap is the person's to change.
Tamper(mode, before, after) ==
  tampered' = IF before.wrapped /\ [before EXCEPT !.annotate = after.annotate] = after
              THEN tampered ELSE tampered \cup {mode}

\* A person edits, restores or removes the entry, or the client writes back an
\* entry it had kept.
EntryChanges(entry) ==
  /\ Edits /\ entry # config.entry
  /\ config' = [config EXCEPT !.entry = entry]
  /\ Tamper("in place", config.entry, entry)
  /\ UNCHANGED <<mcp, state, backups, captured, kit, theirs, began>>

\* The kit's own file: an entry edited, another server added, the file deleted.
McpChanges(entry, others) ==
  /\ Edits /\ mcp # NoFile
  /\ mcp.others => others
  /\ mcp' = [entry |-> entry, others |-> others]
  /\ Tamper("project", mcp.entry, entry)
  /\ UNCHANGED <<config, state, backups, captured, kit, theirs, began>>

McpDeleted ==
  /\ Edits /\ mcp # NoFile
  /\ mcp' = NoFile
  /\ tampered' = tampered \cup {"project"}
  /\ UNCHANGED <<config, state, backups, captured, kit, theirs, began>>

\* What two refusals tell the person to do.
StateDeleted ==
  /\ Edits /\ state # NoFile
  /\ state' = NoFile
  /\ UNCHANGED <<config, mcp, backups, captured, kit, history>>

Command ==
  \/ \E mode \in Modes : Setup(mode)
  \/ SetupFindsNoEntry \/ SetupCannotCarry \/ SetupFindsAWrap \/ SetupFindsALeftover
  \/ SetupAgain \/ SetupFindsAnEdit \/ StateIsUnreadable
  \/ UninstallRefuses \/ Uninstall \/ UninstallFindsAnEdit
  \/ UninstallProject \/ UninstallProjectFindsAnEdit
  \/ ReceiptFindsTheWrap \/ ReceiptFindsNoWrap \/ ReceiptFindsNoState

KitGoesOn ==
  \/ BackUp \/ WriteConfig \/ WriteMcp \/ OpenState \/ WriteState
  \/ ReportsAreSettled \/ TurnOnReports \/ WriteReports
  \/ Restore \/ Verify \/ RemoveMcp \/ Forget

OtherHands ==
  \/ ClientSaves \/ Session
  \/ \E entry \in Entry \cup {NoEntry} : EntryChanges(entry)
  \/ \E entry \in Entry \cup {NoEntry}, others \in BOOLEAN : McpChanges(entry, others)
  \/ McpDeleted
  \/ StateDeleted

Next == Command \/ KitGoesOn \/ Crash \/ OtherHands

Spec == Init /\ [][Next]_vars

-----------------------------------------------------------------------------
(* Correctness.                                                            *)

\* Every variable has its type.
TypeOK ==
  /\ config \in Config
  /\ mcp \in Mcp \cup {NoFile}
  /\ state \in Record \cup {NoFile, Torn}
  /\ backups \subseteq Config
  /\ kit \in [pc : {"idle", "back up", "write config", "write mcp", "open state", "write state",
                    "turn on", "write reports", "restore", "verify", "remove", "forget"},
              read : Config \cup Mcp \cup {NoFile},
              record : Record \cup {NoFile}]
  /\ verdict \in {"none", "no such server", "not wrappable", "somebody else's wrap", "leftover",
                  "wrapped", "stale", "unreadable", "nothing to reverse", "edited", "unverified",
                  "restored", "in place", "the wrap is gone", "trial ended", "not set up"}
  /\ captured \in BOOLEAN
  /\ theirs \in Entry \cup {NoEntry}
  /\ tampered \subseteq Modes
  /\ began \in Nat
  /\ used \in [commands : 0 .. MaxCommands, crashes : 0 .. MaxCrashes,
               edits : 0 .. MaxEdits, saves : 0 .. MaxSaves]

\* The original entry is never lost: as long as the config holds the kit's wrap
\* of it, the state file or a backup holds the entry itself, whenever a run of
\* the kit was killed and whatever the person deleted.
OriginalIsRecoverable ==
  theirs # NoEntry /\ config.entry.launches = theirs.launches /\ config.entry.wrapped =>
    \/ Readable /\ state.original = theirs
    \/ \E copy \in backups : copy.entry = theirs

\* Uninstall refuses an edited entry, and only that: a run of the kit that was
\* killed, and a choice about the reports, are never taken for somebody's edit.
\* Setup and receipt say that the entry is not the one setup wrote only when it
\* was edited, or when an uninstall that was killed had put the original back.
EditsAreRealEdits ==
  /\ verdict = "edited" => state.mode \in tampered
  /\ verdict \in {"stale", "the wrap is gone"} =>
       \/ state.mode \in tampered
       \/ EntryOf(state.mode) \in {state.original, NoEntry}

\* The trap that apply_unwrap avoids: the record is dropped only when the config
\* holds, to the letter, the entry it held before setup, whatever was done to
\* either in between.
UninstallRestoresTheOriginal ==
  [][Readable /\ state.mode = "in place" /\ state' = NoFile /\ verdict' = "restored"
     => config.entry = theirs]_vars

\* A server somebody added to .mcp.json is never deleted with the wrap.
OthersAreKept ==
  [][mcp # NoFile /\ kit.pc # "idle" /\ mcp.others
     => mcp' # NoFile /\ mcp'.others]_vars

\* try/SECURITY.md: "Uninstall restores into the file as it is then, not by copying
\* the backup over it, because your client rewrites that file continuously."  A
\* write of the kit may undo what the client saved while the command ran, and
\* never what it saved before.
UnrelatedChangesAreKept ==
  [][config'.rest < config.rest => config'.rest >= began]_vars

\* What is said of a wrap in the config for which there is no state file: by setup,
\* "this kit did not do it", and by receipt, "a trial that has already been ended".
DisownsNoWrapOfItsOwn ==
  verdict \in {"somebody else's wrap", "trial ended"} /\ config.entry.wrapped =>
    theirs = NoEntry \/ "in place" \in tampered
=============================================================================
