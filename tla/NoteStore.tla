------------------------------- MODULE NoteStore -------------------------------
(***************************************************************************)
(* The SDK's note store: encrypted notes in memory, marked when spent,     *)
(* exported into backups and imported from them.  Whatever encrypts or     *)
(* decrypts awaits the platform's crypto, and calls that overlap take      *)
(* their other steps in between.                                           *)
(*                                                                         *)
(* A note is told apart by its id; of its contents nothing depends.  All   *)
(* stores are one owner's and hold the same key.  A backup is what its     *)
(* bytes hold beside what they were sealed with: the tag and the checksum  *)
(* tell when the two differ.                                               *)
(***************************************************************************)
EXTENDS Integers, Sequences, FiniteSets

CONSTANTS
    Stores,      \* the owner's NoteStore objects, on one device or another
    Staleness,   \* stalenessMs, in steps of the clock
    MaxNotes,    \* bound: notes saved over the run
    MaxCalls,    \* bound: calls under way at once
    MaxTime,     \* bound: the last moment
    MaxExports,  \* bound: calls of an export over the run
    MaxReloads   \* bound: how often a store's memory is lost

ASSUME NoteStoreAssumption ==
    /\ Staleness \in Nat /\ MaxNotes \in Nat /\ MaxCalls \in Nat
    /\ MaxTime \in Nat /\ {MaxExports, MaxReloads} \subseteq Nat

VARIABLES
    now,           \* Date.now()
    notes,         \* store -> its Map, in the order of insertion
    lastBackupAt,  \* store -> when exportWithMetadata last returned, or Never
    calls,         \* calls that await the crypto
    backup,        \* the backup the owner keeps: the last an export returned
    drawnNotes,    \* how many note ids have been drawn: 0 .. drawnNotes - 1
    exports,       \* how often an export was called
    reloads,       \* how often a store was lost
    savedAt,       \* history: note -> when it was first stored, or Never
    marked,        \* history: notes some store was told are spent
    copiedAt,      \* history: store -> when the last backup took its copy
    copied         \* history: notes that were in some backup

boundVars == <<drawnNotes, exports, reloads>>
historyVars == <<savedAt, marked, copiedAt, copied>>
noteVars == <<now, notes, lastBackupAt, calls, backup, boundVars, historyVars>>

Never == -1

NoBackup == <<>>

Moments == 0 .. MaxTime

NoteIds == 0 .. MaxNotes - 1

StoredNotes == [id : NoteIds, spent : BOOLEAN, createdAt : Moments]

HasNote(held, id) == \E i \in DOMAIN held : held[i].id = id

Unspent(held) == {i \in DOMAIN held : ~held[i].spent}

-----------------------------------------------------------------------------
(***************************************************************************)
(* Backups.                                                                *)
(***************************************************************************)

\* export: the sealed notes alone; exportWithMetadata: a bundle around them.
Sealed(held) == [holds |-> held, tag |-> held]

Bundle(sealed) == [sealed |-> sealed, checksum |-> sealed, readable |-> TRUE]

\* decryptNote of an export opens it when the tag fits; and a form that trusts it.
OpensUnchecked(sealed) == TRUE

Opens(sealed) == sealed.tag = sealed.holds

\* validateBackupIntegrity: header and metadata can be read, the checksum fits.
BundleValid(bundle) == bundle.readable /\ bundle.checksum = bundle.sealed

\* getBackupWarning, and a form that compares with the oldest note.
OldestUnspent(held) ==
    CHOOSE t \in Moments : /\ \E i \in Unspent(held) : held[i].createdAt = t
                           /\ \A i \in Unspent(held) : held[i].createdAt >= t

NewestUnspent(held) ==
    CHOOSE t \in Moments : /\ \E i \in Unspent(held) : held[i].createdAt = t
                           /\ \A i \in Unspent(held) : held[i].createdAt <= t

WarningByOldest(s) ==
    CASE Unspent(notes[s]) = {} -> "none"
      [] OTHER -> IF lastBackupAt[s] = Never THEN "noBackup"
                  ELSE IF now - lastBackupAt[s] > Staleness THEN "stale"
                  ELSE IF OldestUnspent(notes[s]) > lastBackupAt[s] THEN "newNotes"
                  ELSE "none"

BackupWarning(s) ==
    CASE Unspent(notes[s]) = {} -> "none"
      [] OTHER -> IF lastBackupAt[s] = Never THEN "noBackup"
                  ELSE IF now - lastBackupAt[s] > Staleness THEN "stale"
                  ELSE IF NewestUnspent(notes[s]) > lastBackupAt[s] THEN "newNotes"
                  ELSE "none"

-----------------------------------------------------------------------------
(***************************************************************************)
(* The operations.                                                         *)
(***************************************************************************)
NoteInit ==
    /\ now = 0
    /\ notes = [s \in Stores |-> <<>>]
    /\ lastBackupAt = [s \in Stores |-> Never]
    /\ calls = {} /\ backup = NoBackup /\ drawnNotes = 0
    /\ exports = 0 /\ reloads = 0
    /\ savedAt = [id \in NoteIds |-> Never] /\ marked = {}
    /\ copiedAt = [s \in Stores |-> Never] /\ copied = {}

Called(call) ==
    /\ Cardinality(calls) < MaxCalls
    /\ calls' = calls \cup {call}

\* save draws an id and encrypts; then the note is stored.
SaveCalled(s) ==
    /\ drawnNotes < MaxNotes
    /\ Called([op |-> "save", store |-> s, id |-> drawnNotes])
    /\ drawnNotes' = drawnNotes + 1
    /\ UNCHANGED <<now, notes, lastBackupAt, backup, exports, reloads, historyVars>>

SaveEnds(call) ==
    /\ call.op = "save"
    /\ notes' = [notes EXCEPT ![call.store] =
                    Append(@, [id |-> call.id, spent |-> FALSE, createdAt |-> now])]
    /\ savedAt' = [savedAt EXCEPT ![call.id] = now]
    /\ calls' = calls \ {call}
    /\ UNCHANGED <<now, lastBackupAt, backup, boundVars, marked, copiedAt, copied>>

\* markSpent awaits nothing.
MarkSpent(s) ==
    /\ \E i \in Unspent(notes[s]) :
           /\ notes' = [notes EXCEPT ![s][i].spent = TRUE]
           /\ marked' = marked \cup {notes[s][i].id}
    /\ UNCHANGED <<now, lastBackupAt, calls, backup, boundVars, savedAt, copiedAt, copied>>

\* listUnspent: decrypts one unspent note after the other, in a Map that changes
\* meanwhile.  NextUnspent is where it goes on, or 0 at the end; a form skips a note.
SkippingUnspent(held, from) ==
    LET later == {i \in Unspent(held) : i > from + 1}
    IN  IF later = {} THEN 0 ELSE CHOOSE i \in later : \A j \in later : i <= j

NextUnspent(held, from) ==
    LET later == {i \in Unspent(held) : i > from}
    IN  IF later = {} THEN 0 ELSE CHOOSE i \in later : \A j \in later : i <= j

ListCalled(s) ==
    /\ Unspent(notes[s]) # {}
    /\ Called([op |-> "list", store |-> s, at |-> NextUnspent(notes[s], 0), found |-> {}])
    /\ UNCHANGED <<now, notes, lastBackupAt, backup, boundVars, historyVars>>

ListGoesOn(call) ==
    /\ call.op = "list"
    /\ LET held == notes[call.store]
           next == NextUnspent(held, call.at)
           found == call.found \cup {held[call.at].id}
       IN  calls' = (calls \ {call}) \cup
               (IF next = 0 THEN {} ELSE {[call EXCEPT !.at = next, !.found = found]})
    /\ UNCHANGED <<now, notes, lastBackupAt, backup, boundVars, historyVars>>

\* export copies the notes and encrypts the copy; exportWithMetadata then bundles
\* the backup with its counts of the store, left out here, and takes the time.
ExportCalled(s) ==
    /\ exports < MaxExports
    /\ exports' = exports + 1
    /\ \E withMetadata \in BOOLEAN :
           Called([op |-> "export", store |-> s, copy |-> notes[s], at |-> now,
                   withMetadata |-> withMetadata])
    /\ UNCHANGED <<now, notes, lastBackupAt, backup, drawnNotes, reloads,
                   historyVars>>

ExportEnds(call) ==
    /\ call.op = "export"
    /\ IF call.withMetadata
       THEN /\ backup' = Bundle(Sealed(call.copy))
            /\ lastBackupAt' = [lastBackupAt EXCEPT ![call.store] = now]
            /\ copiedAt' = [copiedAt EXCEPT ![call.store] = call.at]
       ELSE /\ backup' = [sealed |-> Sealed(call.copy)]
            /\ UNCHANGED <<lastBackupAt, copiedAt>>
    /\ copied' = copied \cup {call.copy[i].id : i \in DOMAIN call.copy}
    /\ calls' = calls \ {call}
    /\ UNCHANGED <<now, notes, boundVars, savedAt, marked>>

\* import of the sealed notes of a backup; one that does not open throws and leaves
\* all as it is.
ImportCalled(s) ==
    /\ backup # NoBackup
    /\ Opens(backup.sealed)
    /\ Called([op |-> "import", store |-> s, copy |-> backup.sealed.holds])
    /\ UNCHANGED <<now, notes, lastBackupAt, backup, boundVars, historyVars>>

\* One note after the other goes into the Map; one the Map has is skipped, and a form
\* overwrites it.
Overwritten(held, note) ==
    IF HasNote(held, note.id)
    THEN [i \in DOMAIN held |-> IF held[i].id = note.id THEN note ELSE held[i]]
    ELSE Append(held, note)

Skipped(held, note) == IF HasNote(held, note.id) THEN held ELSE Append(held, note)

WithImported(held, copy) ==
    LET imported[n \in 0 .. Len(copy)] ==
            IF n = 0 THEN held ELSE Skipped(imported[n - 1], copy[n])
    IN  imported[Len(copy)]

ImportEnds(call) ==
    /\ call.op = "import"
    /\ notes' = [notes EXCEPT ![call.store] = WithImported(@, call.copy)]
    /\ calls' = calls \ {call}
    /\ UNCHANGED <<now, lastBackupAt, backup, boundVars, historyVars>>

\* importWithValidation imports into a store of its own, which then takes the place
\* of another; the calls on that one have no effect any more.
RestoreCalled(s) ==
    /\ "checksum" \in DOMAIN backup
    /\ BundleValid(backup) /\ Opens(backup.sealed)
    /\ Called([op |-> "restore", store |-> s, copy |-> backup.sealed.holds])
    /\ UNCHANGED <<now, notes, lastBackupAt, backup, boundVars, historyVars>>

Replaced(s, held) ==
    /\ notes' = [notes EXCEPT ![s] = held]
    /\ lastBackupAt' = [lastBackupAt EXCEPT ![s] = Never]
    /\ copiedAt' = [copiedAt EXCEPT ![s] = Never]
    /\ calls' = {call \in calls : call.store # s}

RestoreEnds(call) ==
    /\ call.op = "restore"
    /\ reloads < MaxReloads
    /\ reloads' = reloads + 1
    /\ Replaced(call.store, call.copy)
    /\ UNCHANGED <<now, backup, drawnNotes, exports, savedAt, marked, copied>>

\* The page is reloaded or the process ends: the Map was in memory only.
Reload(s) ==
    /\ reloads < MaxReloads
    /\ reloads' = reloads + 1
    /\ Replaced(s, <<>>)
    /\ UNCHANGED <<now, backup, drawnNotes, exports, savedAt, marked, copied>>

\* The medium the backup is kept on damages a note in it, or the bundle's header.
BackupDamaged ==
    /\ backup # NoBackup
    /\ \/ /\ backup.sealed.holds # <<>>
          /\ backup' = [backup EXCEPT !.sealed.holds[1].spent = ~@]
       \/ /\ "checksum" \in DOMAIN backup
          /\ backup' = [backup EXCEPT !.readable = FALSE]
    /\ UNCHANGED <<now, notes, lastBackupAt, calls, boundVars, historyVars>>

TimePasses ==
    /\ now < MaxTime
    /\ now' = now + 1
    /\ UNCHANGED <<notes, lastBackupAt, calls, backup, boundVars, historyVars>>

NoteNext ==
    \/ \E s \in Stores : \/ SaveCalled(s) \/ MarkSpent(s) \/ ListCalled(s)
                         \/ ExportCalled(s) \/ ImportCalled(s) \/ RestoreCalled(s)
                         \/ Reload(s)
    \/ \E call \in calls : \/ SaveEnds(call) \/ ListGoesOn(call) \/ ExportEnds(call)
                           \/ ImportEnds(call) \/ RestoreEnds(call)
    \/ BackupDamaged
    \/ TimePasses

NoteSpec == NoteInit /\ [][NoteNext]_noteVars

-----------------------------------------------------------------------------
(***************************************************************************)
(* Safety.                                                                 *)
(***************************************************************************)
\* Silence about backups is justified: when getBackupWarning has nothing to say, every
\* unspent note was put in some backup, or was stored while the last backup was being made.
SilenceJustified ==
    \A s \in Stores : BackupWarning(s) = "none" =>
        \A i \in Unspent(notes[s]) :
            \/ notes[s][i].id \in copied
            \/ notes[s][i].createdAt \in copiedAt[s] .. lastBackupAt[s]

\* Every note of every store is one that was saved, with the time it was saved at, is
\* there once, and is marked spent only if some store was told so: nothing a medium does
\* to a backup, and no overlap of imports with other calls, makes up a note or alters one.
NotesAuthentic ==
    \A s \in Stores : \A i \in DOMAIN notes[s] :
        LET note == notes[s][i]
        IN  /\ note.id \in NoteIds /\ note.createdAt # Never
            /\ note.createdAt = savedAt[note.id]
            /\ \A j \in DOMAIN notes[s] : notes[s][j].id = note.id => i = j
            /\ note.spent => note.id \in marked

\* While a listing is under way, it has found every unspent note it has gone past, and
\* no note twice or out of another store, whatever is saved, marked or imported.
ListingComplete ==
    \A call \in calls : call.op = "list" =>
        LET held == notes[call.store]
        IN  /\ call.at \in DOMAIN held
            /\ {held[i].id : i \in {j \in Unspent(held) : j < call.at}} \subseteq call.found
            /\ call.found \subseteq {held[i].id : i \in 1 .. call.at - 1}

\* A store keeps every note in its place and every spent mark until it is replaced:
\* importing an older backup, in which the note was unspent, does not bring it back.
MarksKept ==
    [][reloads' = reloads =>
           \A s \in Stores : \A i \in DOMAIN notes[s] :
               /\ i \in DOMAIN notes'[s]
               /\ [notes'[s][i] EXCEPT !.spent = FALSE] = [notes[s][i] EXCEPT !.spent = FALSE]
               /\ notes[s][i].spent => notes'[s][i].spent]_noteVars
=============================================================================
