--------------------------- MODULE SdkSecrets_proofs ---------------------------
(***************************************************************************)
(* Proofs about what a user of the SDK holds secrets for: the notes, for   *)
(* any number of stores, notes and calls that overlap, the stealth         *)
(* payments, for any curve and any hash, and the prover: its loader, for   *)
(* any loads and resets that overlap, and the bytes of its proofs, for any *)
(* lengths of hashes, uints, paths and proofs; and about the hooks through *)
(* which the app shows the wallet and the notes.                           *)
(***************************************************************************)
EXTENDS NoteStore, StealthAddress, Prover, WalletHook, Dashboard, Iteration_proofs,
        SequenceTheorems, TLAPS

-----------------------------------------------------------------------------
(***************************************************************************)
(* The note store.  Its inductive invariant.                               *)
(***************************************************************************)
NoteSeqs == Seq(StoredNotes)

MomentsOrNever == Moments \cup {Never}

SaveCall == [op : {"save"}, store : Stores, id : NoteIds]

ListCall == [op : {"list"}, store : Stores, at : Nat, found : SUBSET NoteIds]

ExportCall ==
    [op : {"export"}, store : Stores, copy : NoteSeqs, at : Moments, withMetadata : BOOLEAN]

ImportCall == [op : {"import", "restore"}, store : Stores, copy : NoteSeqs]

NoteTyped ==
    /\ now \in Moments
    /\ notes \in [Stores -> NoteSeqs]
    /\ lastBackupAt \in [Stores -> MomentsOrNever] /\ copiedAt \in [Stores -> MomentsOrNever]
    /\ calls \subseteq SaveCall \cup ListCall \cup ExportCall \cup ImportCall
    /\ backup # NoBackup =>
           /\ "sealed" \in DOMAIN backup
           /\ {"holds", "tag"} \subseteq DOMAIN backup.sealed
           /\ backup.sealed.tag \in NoteSeqs
    /\ drawnNotes \in 0 .. MaxNotes
    /\ reloads \in Nat
    /\ savedAt \in [NoteIds -> MomentsOrNever]

\* Notes as they were saved, once each, and marked only if a store was told.
Genuine(held, saved, marks) ==
    /\ \A i, j \in DOMAIN held : held[i].id = held[j].id => i = j
    /\ \A i \in DOMAIN held : /\ held[i].createdAt = saved[held[i].id]
                              /\ held[i].spent => held[i].id \in marks

IdsOf(held) == {held[i].id : i \in DOMAIN held}

\* Whatever a store may hold one day is genuine already.
AllGenuine ==
    /\ \A s \in Stores : Genuine(notes[s], savedAt, marked)
    /\ \A call \in calls : call \in ExportCall \cup ImportCall =>
           Genuine(call.copy, savedAt, marked)
    /\ backup # NoBackup => Genuine(backup.sealed.tag, savedAt, marked)

\* An id that is drawn is used by one call to save, once.
IdsFresh ==
    /\ \A id \in NoteIds : id >= drawnNotes => savedAt[id] = Never
    /\ \A call \in calls : call \in SaveCall =>
           /\ call.id < drawnNotes /\ savedAt[call.id] = Never
           /\ \A other \in calls : other \in SaveCall /\ other.id = call.id => other = call

\* What was stored before the last backup, or an export under way, took its copy, is in a
\* backup or in that copy.
BackupsHold ==
    /\ \A s \in Stores : lastBackupAt[s] # Never =>
           \A i \in DOMAIN notes[s] :
               notes[s][i].createdAt < copiedAt[s] => notes[s][i].id \in copied
    /\ \A call \in calls : call \in ExportCall =>
           /\ call.at <= now
           /\ \A i \in DOMAIN notes[call.store] :
                  notes[call.store][i].createdAt < call.at =>
                      notes[call.store][i].id \in IdsOf(call.copy) \cup copied
    /\ \A call \in calls : call \in ImportCall => IdsOf(call.copy) \subseteq copied
    /\ backup # NoBackup => IdsOf(backup.sealed.tag) \subseteq copied
    /\ \A s \in Stores : copiedAt[s] <= now

NotesInv == NoteTyped /\ AllGenuine /\ IdsFresh /\ ListingComplete /\ BackupsHold

-----------------------------------------------------------------------------
\* What import makes of the notes a store has and those of a backup.
LEMMA ImportedNotes ==
    ASSUME NEW held \in NoteSeqs, NEW copy \in NoteSeqs
    PROVE  LET all == WithImported(held, copy)
           IN  /\ all \in NoteSeqs
               /\ Len(held) <= Len(all) /\ \A i \in DOMAIN held : all[i] = held[i]
               /\ \A j \in DOMAIN all : j \notin DOMAIN held =>
                      \E k \in DOMAIN copy : all[j] = copy[k]
               /\ (\A i, j \in DOMAIN held : held[i].id = held[j].id => i = j) =>
                      \A i, j \in DOMAIN all : all[i].id = all[j].id => i = j
<1> DEFINE n == Len(copy)
           step == [i \in 1 .. n |-> [h \in NoteSeqs |-> Skipped(h, copy[i])]]
           imported == CHOOSE f : f = [i \in 0 .. n |->
                           IF i = 0 THEN held ELSE Skipped(f[i - 1], copy[i])]
<1>1. n \in Nat /\ DOMAIN copy = 1 .. n /\ \A i \in 1 .. n : copy[i] \in StoredNotes
    BY LenProperties, ElementOfSeq DEF NoteSeqs
<1>2. \A h \in NoteSeqs, note \in StoredNotes : Skipped(h, note) \in NoteSeqs
    BY AppendProperties DEF Skipped, NoteSeqs
<1>3. step \in [1 .. n -> [NoteSeqs -> NoteSeqs]]
    BY <1>1, <1>2
<1>4. PICK f : Iterates(f, n, held, step, NoteSeqs)
    <2>1. held \in NoteSeqs
        OBVIOUS
    <2> HIDE DEF n, step, imported
    <2> QED BY <1>1, <1>3, <2>1, IterationExists
<1>5. f = [i \in 0 .. n |-> IF i = 0 THEN held ELSE Skipped(f[i - 1], copy[i])]
    <2>1. f \in [0 .. n -> NoteSeqs] /\ f[0] = held /\ \A i \in 1 .. n : f[i] = step[i][f[i - 1]]
        BY <1>4 DEF Iterates
    <2>2. \A i \in 1 .. n : f[i - 1] \in NoteSeqs
        <3> HIDE DEF n, step
        <3> QED BY <1>1, <2>1
    <2>3. \A i \in 1 .. n : step[i][f[i - 1]] = Skipped(f[i - 1], copy[i])
        BY <2>2
    <2> HIDE DEF step
    <2> QED BY <1>1, <2>1, <2>3
<1>6. imported = [i \in 0 .. n |-> IF i = 0 THEN held ELSE Skipped(imported[i - 1], copy[i])]
    BY <1>5
<1>7. WithImported(held, copy) = imported[n]
    BY DEF WithImported
<1> HIDE DEF imported
<1>8. imported[0] = held /\ \A i \in 1 .. n : imported[i] = Skipped(imported[i - 1], copy[i])
    BY <1>1, <1>6
<1> DEFINE Good(all) ==
               /\ all \in NoteSeqs
               /\ Len(held) <= Len(all) /\ \A i \in DOMAIN held : all[i] = held[i]
               /\ \A j \in DOMAIN all : j \notin DOMAIN held =>
                      \E k \in DOMAIN copy : all[j] = copy[k]
               /\ (\A i, j \in DOMAIN held : held[i].id = held[j].id => i = j) =>
                      \A i, j \in DOMAIN all : all[i].id = all[j].id => i = j
           T == {i \in 0 .. n : Good(imported[i])}
<1>9. Good(held)
    OBVIOUS
<1>10. ASSUME NEW all, Good(all), NEW k \in 1 .. n PROVE Good(Skipped(all, copy[k]))
    <2>1. CASE HasNote(all, copy[k].id)
        BY <1>10, <2>1 DEF Skipped
    <2>2. CASE ~HasNote(all, copy[k].id)
        <3> DEFINE more == Append(all, copy[k])
        <3>1. Skipped(all, copy[k]) = more
            BY <2>2 DEF Skipped
        <3>2. /\ more \in NoteSeqs /\ Len(more) = Len(all) + 1
              /\ \A i \in 1 .. Len(all) : more[i] = all[i]
              /\ more[Len(all) + 1] = copy[k]
              /\ Len(all) \in Nat /\ DOMAIN all = 1 .. Len(all)
              /\ DOMAIN more = 1 .. Len(all) + 1
              /\ Len(held) \in Nat /\ DOMAIN held = 1 .. Len(held)
            BY <1>1, <1>10, AppendProperties, LenProperties DEF NoteSeqs
        <3> HIDE DEF more
        <3>3. \A i \in 1 .. Len(all) : all[i].id # copy[k].id
            BY <2>2, <3>2 DEF HasNote
        <3>4. ASSUME \A i, j \in DOMAIN held : held[i].id = held[j].id => i = j
              PROVE  \A i, j \in DOMAIN more : more[i].id = more[j].id => i = j
            <4>1. \A i, j \in 1 .. Len(all) : all[i].id = all[j].id => i = j
                BY <1>10, <3>2, <3>4
            <4> SUFFICES ASSUME NEW i \in 1 .. Len(all) + 1, NEW j \in 1 .. Len(all) + 1,
                                more[i].id = more[j].id
                         PROVE  i = j
                BY <3>2
            <4>2. CASE i \in 1 .. Len(all) /\ j \in 1 .. Len(all)
                BY <3>2, <4>1, <4>2
            <4>3. CASE i = Len(all) + 1 /\ j \in 1 .. Len(all)
                BY <3>2, <3>3, <4>3
            <4>4. CASE j = Len(all) + 1 /\ i \in 1 .. Len(all)
                BY <3>2, <3>3, <4>4
            <4> QED BY <3>2, <4>2, <4>3, <4>4
        <3>5. Len(held) <= Len(more) /\ \A i \in DOMAIN held : more[i] = held[i]
            BY <1>10, <3>2
        <3>6. \A j \in DOMAIN more : j \notin DOMAIN held =>
                  \E m \in DOMAIN copy : more[j] = copy[m]
            BY <1>1, <1>10, <3>2
        <3> QED BY <3>1, <3>2, <3>4, <3>5, <3>6
    <2> QED BY <2>1, <2>2
<1> HIDE DEF Good
<1>11. 0 \in T
    BY <1>1, <1>8, <1>9
<1>12. ASSUME NEW i \in 1 .. n, i - 1 \in T PROVE i \in T
    BY <1>1, <1>8, <1>10, <1>12
<1>13. n \in T
    <2> HIDE DEF T, n
    <2>1. 0 .. n \subseteq T
        BY <1>1, <1>11, <1>12, IntervalInduction
    <2> QED BY <1>1, <2>1
<1> QED BY <1>7, <1>13 DEF Good

-----------------------------------------------------------------------------
\* Where a listing goes on.
LEMMA NextUnspentIs ==
    ASSUME NEW held \in NoteSeqs, NEW from \in Nat
    PROVE  LET next == NextUnspent(held, from)
           IN  /\ next \in Nat
               /\ \/ next = 0 /\ \A i \in Unspent(held) : i <= from
                  \/ /\ next \in Unspent(held) /\ next > from
                     /\ \A i \in Unspent(held) : i > from => next <= i
<1> DEFINE later == {i \in Unspent(held) : i > from}
<1>1. Unspent(held) \subseteq Nat
    BY LenProperties DEF Unspent, NoteSeqs
<1>2. CASE later = {}
    BY <1>1, <1>2 DEF NextUnspent
<1>3. CASE later # {}
    <2>1. \E i \in later : \A j \in later : i <= j
        BY <1>1, <1>3, LeastExists
    <2>2. NextUnspent(held, from) = CHOOSE i \in later : \A j \in later : i <= j
        BY <1>3 DEF NextUnspent
    <2>3. NextUnspent(held, from) \in later /\ \A j \in later : NextUnspent(held, from) <= j
        BY <2>1, <2>2
    <2> QED BY <1>1, <2>3
<1> QED BY <1>2, <1>3

\* A note put behind the others.
LEMMA AppendedNote ==
    ASSUME NEW held \in NoteSeqs, NEW note \in StoredNotes
    PROVE  LET more == Append(held, note)
           IN  /\ more \in NoteSeqs /\ DOMAIN held = 1 .. Len(held) /\ Len(held) \in Nat
               /\ DOMAIN more = 1 .. Len(held) + 1
               /\ \A i \in DOMAIN held : more[i] = held[i]
               /\ more[Len(held) + 1] = note
    BY AppendProperties, LenProperties DEF NoteSeqs

\* What a call holds is known from what it does.
LEMMA CallsTyped ==
    ASSUME NoteTyped, NEW call \in calls
    PROVE  /\ call.store \in Stores
           /\ call.op = "save" => call \in SaveCall
           /\ call.op = "list" => call \in ListCall
           /\ call.op = "export" => call \in ExportCall
           /\ call.op \in {"import", "restore"} => call \in ImportCall
           /\ call \in SaveCall => call.op = "save"
           /\ call \in ListCall => call.op = "list"
           /\ call \in ExportCall => call.op = "export"
           /\ call \in ImportCall => call.op \in {"import", "restore"}
    BY DEF NoteTyped, SaveCall, ListCall, ExportCall, ImportCall

LEMMA NotesInitially == NoteInit => NotesInv
<1> SUFFICES ASSUME NoteInit PROVE NotesInv
    OBVIOUS
<1> USE NoteStoreAssumption
<1>1. <<>> \in NoteSeqs /\ DOMAIN <<>> = {}
    BY DEF NoteSeqs
<1>2. NoteTyped
    BY <1>1 DEF NoteInit, NoteTyped, NoBackup, Moments, MomentsOrNever, Never
<1>3. AllGenuine
    BY <1>1 DEF NoteInit, AllGenuine, Genuine, NoBackup
<1>4. IdsFresh
    BY DEF NoteInit, IdsFresh
<1>5. ListingComplete
    BY DEF NoteInit, ListingComplete
<1>6. BackupsHold
    BY <1>1 DEF NoteInit, BackupsHold, NoBackup, Never
<1> QED BY <1>2, <1>3, <1>4, <1>5, <1>6 DEF NotesInv

\* A note marked spent.
LEMMA MarkedNote ==
    ASSUME NEW held \in NoteSeqs, NEW i \in DOMAIN held
    PROVE  LET more == [held EXCEPT ![i].spent = TRUE]
           IN  /\ more \in NoteSeqs /\ DOMAIN more = DOMAIN held
               /\ \A j \in DOMAIN held : /\ more[j].id = held[j].id
                                         /\ more[j].createdAt = held[j].createdAt
                                         /\ held[j].spent => more[j].spent
                                         /\ j # i => more[j] = held[j]
               /\ more[i].spent
<1> DEFINE note == [held[i] EXCEPT !.spent = TRUE]
<1>1. held[i] \in StoredNotes /\ i \in 1 .. Len(held)
    BY ElementOfSeq, LenProperties DEF NoteSeqs
<1>2. /\ note \in StoredNotes /\ note.spent /\ note.id = held[i].id
      /\ note.createdAt = held[i].createdAt
    BY <1>1 DEF StoredNotes
<1>3. [held EXCEPT ![i] = note] \in NoteSeqs
    <2> HIDE DEF note
    <2> QED BY <1>1, <1>2, ExceptSeq DEF NoteSeqs
<1>4. [held EXCEPT ![i].spent = TRUE] = [held EXCEPT ![i] = note]
    OBVIOUS
<1> HIDE DEF note
<1> QED BY <1>2, <1>3, <1>4

LEMMA NotesTypedKept == NoteTyped /\ ListingComplete /\ [NoteNext]_noteVars => NoteTyped'
<1> SUFFICES ASSUME NoteTyped, ListingComplete, [NoteNext]_noteVars PROVE NoteTyped'
    OBVIOUS
<1> USE NoteStoreAssumption DEF NoteTyped, Called
<1>1. \A call \in calls : call \in SaveCall \cup ListCall \cup ExportCall \cup ImportCall
    OBVIOUS
<1>2. ASSUME NEW s \in Stores, SaveCalled(s) PROVE NoteTyped'
    <2>1. [op |-> "save", store |-> s, id |-> drawnNotes] \in SaveCall
        BY <1>2 DEF SaveCalled, SaveCall, NoteIds
    <2> QED BY <1>2, <2>1 DEF SaveCalled, historyVars
<1>3. ASSUME NEW s \in Stores, MarkSpent(s) PROVE NoteTyped'
    <2>1. PICK i \in Unspent(notes[s]) : notes' = [notes EXCEPT ![s][i].spent = TRUE]
        BY <1>3 DEF MarkSpent
    <2>2. [notes[s] EXCEPT ![i].spent = TRUE] \in NoteSeqs
        BY MarkedNote DEF Unspent
    <2>3. notes' \in [Stores -> NoteSeqs]
        BY <2>1, <2>2
    <2> QED BY <1>3, <2>3 DEF MarkSpent, boundVars
<1>4. ASSUME NEW s \in Stores, ListCalled(s) PROVE NoteTyped'
    <2>1. NextUnspent(notes[s], 0) \in Nat
        BY NextUnspentIs
    <2>2. [op |-> "list", store |-> s, at |-> NextUnspent(notes[s], 0), found |-> {}] \in ListCall
        BY <2>1 DEF ListCall
    <2> QED BY <1>4, <2>2 DEF ListCalled, historyVars, boundVars
<1>5. ASSUME NEW s \in Stores, ExportCalled(s) PROVE NoteTyped'
    <2>1. PICK withMetadata \in BOOLEAN :
              calls' = calls \cup {[op |-> "export", store |-> s, copy |-> notes[s], at |-> now,
                                    withMetadata |-> withMetadata]}
        BY <1>5 DEF ExportCalled
    <2>2. [op |-> "export", store |-> s, copy |-> notes[s], at |-> now,
           withMetadata |-> withMetadata] \in ExportCall
        BY DEF ExportCall
    <2> QED BY <1>5, <2>1, <2>2 DEF ExportCalled, historyVars
<1>6. ASSUME NEW s \in Stores, ImportCalled(s) PROVE NoteTyped'
    <2>1. [op |-> "import", store |-> s, copy |-> backup.sealed.holds] \in ImportCall
        BY <1>6 DEF ImportCalled, Opens, ImportCall
    <2> QED BY <1>6, <2>1 DEF ImportCalled, historyVars, boundVars
<1>7. ASSUME NEW s \in Stores, RestoreCalled(s) PROVE NoteTyped'
    <2>1. [op |-> "restore", store |-> s, copy |-> backup.sealed.holds] \in ImportCall
        BY <1>7 DEF RestoreCalled, NoBackup, Opens, ImportCall
    <2> QED BY <1>7, <2>1 DEF RestoreCalled, historyVars, boundVars
<1>8. ASSUME NEW s \in Stores, Reload(s) PROVE NoteTyped'
    <2>1. <<>> \in NoteSeqs
        BY DEF NoteSeqs
    <2> QED BY <1>8, <2>1 DEF Reload, Replaced, MomentsOrNever
<1>9. ASSUME NEW call \in calls, SaveEnds(call) PROVE NoteTyped'
    <2>1. call \in SaveCall
        BY <1>9, CallsTyped DEF SaveEnds
    <2>2. [id |-> call.id, spent |-> FALSE, createdAt |-> now] \in StoredNotes
        BY <2>1 DEF SaveCall, StoredNotes
    <2>3. notes' \in [Stores -> NoteSeqs]
        BY <1>9, <2>1, <2>2, AppendedNote DEF SaveEnds, SaveCall
    <2>4. savedAt' \in [NoteIds -> MomentsOrNever]
        BY <1>9, <2>1 DEF SaveEnds, SaveCall, MomentsOrNever
    <2> QED BY <1>9, <2>3, <2>4 DEF SaveEnds, boundVars
<1>10. ASSUME NEW call \in calls, ListGoesOn(call) PROVE NoteTyped'
    <2>1. call \in ListCall
        BY <1>10, CallsTyped DEF ListGoesOn
    <2> DEFINE held == notes[call.store]
               next == NextUnspent(held, call.at)
               found == call.found \cup {held[call.at].id}
    <2>2. held \in NoteSeqs /\ call.at \in DOMAIN held
        BY <1>10, <2>1 DEF ListGoesOn, ListCall, ListingComplete
    <2>3. next \in Nat
        BY <2>1, <2>2, NextUnspentIs DEF ListCall
    <2>4. held[call.at].id \in NoteIds
        <3> HIDE DEF held, next, found, NoteTyped
        <3>1. held[call.at] \in StoredNotes
            BY <2>2, ElementOfSeq, LenProperties DEF NoteSeqs
        <3> QED BY <3>1 DEF StoredNotes
    <2>5. [call EXCEPT !.at = next, !.found = found] \in ListCall
        <3> HIDE DEF held, next
        <3> QED BY <2>1, <2>3, <2>4 DEF ListCall
    <2>6. calls' \subseteq calls \cup {[call EXCEPT !.at = next, !.found = found]}
        BY <1>10 DEF ListGoesOn
    <2>7. calls' \subseteq SaveCall \cup ListCall \cup ExportCall \cup ImportCall
        <3> HIDE DEF held, next, found
        <3> QED BY <2>5, <2>6
    <2> QED BY <1>10, <2>7 DEF ListGoesOn, historyVars, boundVars
<1>11. ASSUME NEW call \in calls, ExportEnds(call) PROVE NoteTyped'
    <2>1. call \in ExportCall
        BY <1>11, CallsTyped DEF ExportEnds
    <2>2. /\ Bundle(Sealed(call.copy)).sealed = Sealed(call.copy)
          /\ "sealed" \in DOMAIN Bundle(Sealed(call.copy))
          /\ {"holds", "tag"} \subseteq DOMAIN Sealed(call.copy)
          /\ Sealed(call.copy).tag \in NoteSeqs
        BY <2>1 DEF Bundle, Sealed, ExportCall
    <2>3. /\ "sealed" \in DOMAIN backup'
          /\ {"holds", "tag"} \subseteq DOMAIN backup'.sealed
          /\ backup'.sealed.tag \in NoteSeqs
        BY <1>11, <2>2 DEF ExportEnds
    <2>4. lastBackupAt' \in [Stores -> MomentsOrNever] /\ copiedAt' \in [Stores -> MomentsOrNever]
        BY <1>11, <2>1 DEF ExportEnds, ExportCall, MomentsOrNever
    <2> QED BY <1>11, <2>3, <2>4 DEF ExportEnds, boundVars
<1>12. ASSUME NEW call \in calls, ImportEnds(call) PROVE NoteTyped'
    <2>1. call \in ImportCall
        BY <1>12, CallsTyped DEF ImportEnds
    <2>2. WithImported(notes[call.store], call.copy) \in NoteSeqs
        BY <2>1, ImportedNotes DEF ImportCall
    <2> QED BY <1>12, <2>1, <2>2 DEF ImportEnds, ImportCall, historyVars, boundVars
<1>13. ASSUME NEW call \in calls, RestoreEnds(call) PROVE NoteTyped'
    <2>1. call \in ImportCall
        BY <1>13, CallsTyped DEF RestoreEnds
    <2> QED BY <1>13, <2>1 DEF RestoreEnds, Replaced, ImportCall, MomentsOrNever
<1>14. CASE BackupDamaged
    <2>1. /\ "sealed" \in DOMAIN backup' /\ {"holds", "tag"} \subseteq DOMAIN backup'.sealed
          /\ backup'.sealed.tag \in NoteSeqs
        BY <1>14 DEF BackupDamaged
    <2> QED BY <1>14, <2>1 DEF BackupDamaged, historyVars, boundVars
<1>15. CASE TimePasses
    BY <1>15 DEF TimePasses, historyVars, boundVars, Moments
<1>16. CASE UNCHANGED noteVars
    BY <1>16 DEF noteVars, historyVars, boundVars
<1> QED BY <1>2, <1>3, <1>4, <1>5, <1>6, <1>7, <1>8, <1>9, <1>10, <1>11, <1>12, <1>13, <1>14,
           <1>15, <1>16 DEF NoteNext

-----------------------------------------------------------------------------
\* What a step may do to the notes of a store.
MarksOne(s) ==
    \E i \in Unspent(notes[s]) : /\ notes'[s] = [notes[s] EXCEPT ![i].spent = TRUE]
                                 /\ marked' = marked \cup {notes[s][i].id}

SavesOne(s) ==
    \E call \in calls : \E note \in StoredNotes :
        /\ call \in SaveCall /\ note.id = call.id /\ note.createdAt = now /\ ~note.spent
        /\ notes'[s] = Append(notes[s], note)
        /\ savedAt' = [savedAt EXCEPT ![call.id] = now]

ImportsInto(s) ==
    \E call \in calls : call \in ImportCall /\ notes'[s] = WithImported(notes[s], call.copy)

IsReplaced(s) ==
    /\ \/ notes'[s] = <<>>
       \/ \E call \in calls : call \in ImportCall /\ notes'[s] = call.copy
    /\ lastBackupAt'[s] = Never /\ copiedAt'[s] = Never
    /\ reloads' # reloads
    /\ \A call \in calls' : call \in calls /\ call.store # s

LEMMA StoreSteps ==
    ASSUME NoteTyped, [NoteNext]_noteVars, NEW s \in Stores
    PROVE  notes'[s] = notes[s] \/ MarksOne(s) \/ SavesOne(s) \/ ImportsInto(s) \/ IsReplaced(s)
<1>1. ASSUME NEW t \in Stores, SaveCalled(t) \/ ListCalled(t) \/ ExportCalled(t) \/
                               ImportCalled(t) \/ RestoreCalled(t)
      PROVE  notes' = notes
    BY <1>1 DEF SaveCalled, ListCalled, ExportCalled, ImportCalled, RestoreCalled
<1>2. ASSUME NEW call \in calls, ListGoesOn(call) \/ ExportEnds(call) PROVE notes' = notes
    BY <1>2 DEF ListGoesOn, ExportEnds
<1>3. ASSUME BackupDamaged \/ TimePasses \/ UNCHANGED noteVars PROVE notes' = notes
    BY <1>3 DEF BackupDamaged, TimePasses, noteVars
<1>4. ASSUME NEW t \in Stores, MarkSpent(t) PROVE notes'[s] = notes[s] \/ MarksOne(s)
    BY <1>4 DEF MarkSpent, MarksOne, NoteTyped
<1>5. ASSUME NEW call \in calls, SaveEnds(call) PROVE notes'[s] = notes[s] \/ SavesOne(s)
    <2>1. call \in SaveCall
        BY <1>5, CallsTyped DEF SaveEnds
    <2> DEFINE note == [id |-> call.id, spent |-> FALSE, createdAt |-> now]
    <2>2. note \in StoredNotes /\ note.id = call.id /\ note.createdAt = now /\ ~note.spent
        BY <2>1 DEF SaveCall, StoredNotes, NoteTyped
    <2>3. notes'[s] = notes[s] \/ notes'[s] = Append(notes[s], note)
        BY <1>5 DEF SaveEnds, NoteTyped
    <2>4. savedAt' = [savedAt EXCEPT ![call.id] = now]
        BY <1>5 DEF SaveEnds
    <2> HIDE DEF note
    <2> QED BY <2>1, <2>2, <2>3, <2>4 DEF SavesOne
<1>6. ASSUME NEW call \in calls, ImportEnds(call) PROVE notes'[s] = notes[s] \/ ImportsInto(s)
    BY <1>6, CallsTyped DEF ImportEnds, ImportsInto, NoteTyped
<1>7. ASSUME NEW t \in Stores, Reload(t) PROVE notes'[s] = notes[s] \/ IsReplaced(s)
    BY <1>7 DEF Reload, Replaced, IsReplaced, NoteTyped
<1>8. ASSUME NEW call \in calls, RestoreEnds(call) PROVE notes'[s] = notes[s] \/ IsReplaced(s)
    BY <1>8, CallsTyped DEF RestoreEnds, Replaced, IsReplaced, NoteTyped
<1> QED BY <1>1, <1>2, <1>3, <1>4, <1>5, <1>6, <1>7, <1>8 DEF NoteNext

\* more keeps every note of held in its place, and every mark.
Extends(more, held) ==
    \A i \in DOMAIN held : /\ i \in DOMAIN more
                           /\ more[i].id = held[i].id /\ more[i].createdAt = held[i].createdAt
                           /\ held[i].spent => more[i].spent

\* A store's notes are kept, or the store is replaced, and no call is on it any more.
LEMMA NotesExtended ==
    ASSUME NoteTyped, [NoteNext]_noteVars, NEW s \in Stores
    PROVE  Extends(notes'[s], notes[s]) \/ IsReplaced(s)
<1>1. notes[s] \in NoteSeqs
    BY DEF NoteTyped
<1>2. CASE notes'[s] = notes[s]
    BY <1>2 DEF Extends
<1>3. CASE MarksOne(s)
    BY <1>1, <1>3, MarkedNote DEF MarksOne, Unspent, Extends
<1>4. CASE SavesOne(s)
    BY <1>1, <1>4, AppendedNote DEF SavesOne, Extends
<1>5. CASE ImportsInto(s)
    <2>1. PICK call \in calls : call \in ImportCall /\ notes'[s] = WithImported(notes[s], call.copy)
        BY <1>5 DEF ImportsInto
    <2>2. /\ notes'[s] \in NoteSeqs /\ Len(notes[s]) <= Len(notes'[s])
          /\ \A i \in DOMAIN notes[s] : notes'[s][i] = notes[s][i]
        BY <1>1, <2>1, ImportedNotes DEF ImportCall
    <2> QED BY <1>1, <2>2, LenProperties DEF Extends, NoteSeqs
<1> QED BY <1>2, <1>3, <1>4, <1>5, StoreSteps

\* What one call of a listing has found so far.
ListedSoFar(call, held) ==
    /\ call.at \in DOMAIN held
    /\ {held[i].id : i \in {j \in Unspent(held) : j < call.at}} \subseteq call.found
    /\ call.found \subseteq {held[i].id : i \in 1 .. call.at - 1}

LEMMA ListingKept == NoteTyped /\ ListingComplete /\ [NoteNext]_noteVars => ListingComplete'
<1> SUFFICES ASSUME NoteTyped, ListingComplete, [NoteNext]_noteVars,
                    NEW call \in calls', call.op = "list"
             PROVE  ListedSoFar(call, notes'[call.store])
    BY DEF ListingComplete, ListedSoFar
<1>1. CASE call \in calls
    <2> DEFINE held == notes[call.store]
               more == notes'[call.store]
    <2>1. ListedSoFar(call, held) /\ call \in ListCall /\ held \in NoteSeqs
        BY <1>1, CallsTyped DEF ListingComplete, ListedSoFar, NoteTyped
    <2>2. Extends(more, held)
        BY <2>1, NotesExtended DEF ListCall, IsReplaced
    <2>3. DOMAIN held = 1 .. Len(held) /\ Len(held) \in Nat /\ call.at \in DOMAIN held
        BY <2>1, LenProperties DEF NoteSeqs, ListedSoFar
    <2> HIDE DEF held, more
    <2>4. call.at \in DOMAIN more
        BY <2>2, <2>3 DEF Extends
    <2>5. \A i \in 1 .. call.at - 1 : i \in DOMAIN held /\ more[i].id = held[i].id
        BY <2>2, <2>3 DEF Extends
    <2>6. DOMAIN more = 1 .. Len(more) /\ Len(more) \in Nat
        BY NotesTypedKept, LenProperties, <2>1 DEF more, NoteTyped, ListCall, NoteSeqs
    <2>7. \A j \in Unspent(more) : j < call.at => j \in 1 .. call.at - 1
        BY <2>3, <2>6 DEF Unspent
    <2>8. \A j \in Unspent(more) : j < call.at => j \in Unspent(held)
        BY <2>2, <2>5, <2>7 DEF Extends, Unspent
    <2>9. {more[i].id : i \in {j \in Unspent(more) : j < call.at}} \subseteq call.found
        BY <2>1, <2>5, <2>7, <2>8 DEF ListedSoFar
    <2>10. call.found \subseteq {more[i].id : i \in 1 .. call.at - 1}
        BY <2>1, <2>5 DEF ListedSoFar
    <2> QED BY <2>4, <2>9, <2>10 DEF ListedSoFar, more
<1>2. ASSUME NEW s \in Stores, ListCalled(s), call \notin calls
      PROVE  ListedSoFar(call, notes'[call.store])
    <2>1. /\ call.store = s /\ call.at = NextUnspent(notes[s], 0) /\ call.found = {}
          /\ Unspent(notes[s]) # {} /\ notes' = notes
        BY <1>2 DEF ListCalled, Called
    <2>2. notes[s] \in NoteSeqs
        BY DEF NoteTyped
    <2>3. \A i \in Unspent(notes[s]) : i \in Nat /\ i > 0
        BY <2>2, LenProperties DEF Unspent, NoteSeqs
    <2>4. /\ call.at \in Unspent(notes[s])
          /\ \A i \in Unspent(notes[s]) : call.at <= i
        BY <2>1, <2>2, <2>3, NextUnspentIs
    <2> QED BY <2>1, <2>3, <2>4 DEF ListedSoFar, Unspent
<1>3. ASSUME NEW before \in calls, ListGoesOn(before), call \notin calls
      PROVE  ListedSoFar(call, notes'[call.store])
    <2> DEFINE held == notes[before.store]
               next == NextUnspent(held, before.at)
               found == before.found \cup {held[before.at].id}
    <2>1. before \in ListCall /\ held \in NoteSeqs /\ ListedSoFar(before, held)
        BY <1>3, CallsTyped DEF ListGoesOn, ListingComplete, ListedSoFar, NoteTyped
    <2>2. notes' = notes /\ next # 0 /\ call = [before EXCEPT !.at = next, !.found = found]
        BY <1>3 DEF ListGoesOn
    <2> HIDE DEF next, found
    <2>3. call.store = before.store /\ call.at = next /\ call.found = found
        BY <2>1, <2>2 DEF ListCall
    <2>4. /\ next \in Unspent(held) /\ next > before.at
          /\ \A i \in Unspent(held) : i > before.at => next <= i
        BY <2>1, <2>2, NextUnspentIs DEF ListCall, next
    <2>5. DOMAIN held = 1 .. Len(held) /\ Len(held) \in Nat /\ before.at \in DOMAIN held
        BY <2>1, LenProperties DEF NoteSeqs, ListedSoFar
    <2> HIDE DEF held
    <2>6. \A j \in Unspent(held) : j < next => j < before.at \/ j = before.at
        BY <2>4, <2>5 DEF Unspent
    <2>7. {held[i].id : i \in {j \in Unspent(held) : j < next}} \subseteq found
        BY <2>1, <2>6 DEF ListedSoFar, found
    <2>8. found \subseteq {held[i].id : i \in 1 .. next - 1}
        BY <2>1, <2>4, <2>5 DEF ListedSoFar, found, Unspent
    <2>9. ListedSoFar(call, held)
        BY <2>3, <2>4, <2>7, <2>8 DEF ListedSoFar, Unspent
    <2> QED BY <2>2, <2>3, <2>9 DEF held
<1>4. CASE NoteNext /\ call \notin calls
    <2>1. ASSUME NEW s \in Stores, SaveCalled(s) \/ ExportCalled(s) \/ ImportCalled(s) \/
                                   RestoreCalled(s)
          PROVE  FALSE
        BY <1>4, <2>1 DEF SaveCalled, ExportCalled, ImportCalled, RestoreCalled, Called
    <2>2. ASSUME NEW s \in Stores, MarkSpent(s) \/ Reload(s) PROVE FALSE
        BY <1>4, <2>2 DEF MarkSpent, Reload, Replaced
    <2>3. ASSUME NEW other \in calls, SaveEnds(other) \/ ExportEnds(other) \/
                                      ImportEnds(other) \/ RestoreEnds(other)
          PROVE  FALSE
        BY <1>4, <2>3 DEF SaveEnds, ExportEnds, ImportEnds, RestoreEnds, Replaced
    <2>4. ASSUME BackupDamaged \/ TimePasses PROVE FALSE
        BY <1>4, <2>4 DEF BackupDamaged, TimePasses
    <2> QED BY <1>2, <1>3, <1>4, <2>1, <2>2, <2>3, <2>4 DEF NoteNext
<1>5. CASE UNCHANGED noteVars
    BY <1>1, <1>5 DEF noteVars
<1> QED BY <1>1, <1>4, <1>5

-----------------------------------------------------------------------------
\* A listing that goes on puts nothing but a listing in its place.
LEMMA ListingsOnly ==
    ASSUME NoteTyped, NEW call \in calls, ListGoesOn(call)
    PROVE  \A other \in calls' : other \notin calls =>
               other \notin SaveCall \cup ExportCall \cup ImportCall
<1>1. call \in ListCall
    BY CallsTyped DEF ListGoesOn
<1>2. PICK next, found :
          calls' \subseteq calls \cup {[call EXCEPT !.at = next, !.found = found]}
    BY DEF ListGoesOn
<1>3. [call EXCEPT !.at = next, !.found = found].op = "list"
    BY <1>1 DEF ListCall
<1> QED BY <1>2, <1>3 DEF SaveCall, ExportCall, ImportCall

\* What was drawn stays drawn: an id is saved at most once.
LEMMA IdsStayFresh == NoteTyped /\ IdsFresh /\ [NoteNext]_noteVars => IdsFresh'
<1> SUFFICES ASSUME NoteTyped, IdsFresh, [NoteNext]_noteVars PROVE IdsFresh'
    OBVIOUS
<1>1. ASSUME drawnNotes' = drawnNotes, savedAt' = savedAt,
             \A call \in calls' : call \in SaveCall => call \in calls
      PROVE  IdsFresh'
    BY <1>1 DEF IdsFresh
<1>2. ASSUME NEW s \in Stores, SaveCalled(s) PROVE IdsFresh'
    <2> DEFINE new == [op |-> "save", store |-> s, id |-> drawnNotes]
    <2>1. /\ calls' = calls \cup {new} /\ drawnNotes' = drawnNotes + 1 /\ savedAt' = savedAt
          /\ drawnNotes \in NoteIds /\ drawnNotes \in Nat
        BY <1>2, NoteStoreAssumption DEF SaveCalled, Called, historyVars, NoteTyped, NoteIds
    <2>2. new.id = drawnNotes
        OBVIOUS
    <2>3. \A call \in calls : call \in SaveCall => call.id < drawnNotes /\ call.id \in NoteIds
        BY DEF IdsFresh, SaveCall
    <2>4. \A id \in NoteIds : id >= drawnNotes' => savedAt'[id] = Never
        BY <2>1 DEF IdsFresh, NoteIds
    <2> HIDE DEF new
    <2>5. \A call \in calls' : call \in SaveCall =>
              call.id < drawnNotes' /\ savedAt'[call.id] = Never
        BY <2>1, <2>2, <2>3 DEF IdsFresh, NoteIds
    <2>6. \A call, other \in calls' : call \in SaveCall /\ other \in SaveCall /\
                                      other.id = call.id => other = call
        BY <2>1, <2>2, <2>3 DEF IdsFresh, NoteIds
    <2> QED BY <2>4, <2>5, <2>6 DEF IdsFresh
<1>3. ASSUME NEW call \in calls, SaveEnds(call) PROVE IdsFresh'
    <2>1. call \in SaveCall
        BY <1>3, CallsTyped DEF SaveEnds
    <2>2. /\ savedAt' = [savedAt EXCEPT ![call.id] = now] /\ drawnNotes' = drawnNotes
          /\ calls' = calls \ {call}
        BY <1>3 DEF SaveEnds, boundVars
    <2>3. call.id < drawnNotes /\ drawnNotes \in Nat /\ call.id \in NoteIds
        BY <2>1 DEF IdsFresh, NoteTyped, SaveCall
    <2>4. \A id \in NoteIds : id # call.id => savedAt'[id] = savedAt[id]
        BY <2>2 DEF NoteTyped
    <2>5. \A other \in calls' : other \in SaveCall => other.id # call.id /\ other.id \in NoteIds
        BY <2>1, <2>2 DEF IdsFresh, SaveCall
    <2>6. \A id \in NoteIds : id >= drawnNotes => id # call.id
        BY <2>3 DEF NoteIds
    <2> QED BY <2>2, <2>4, <2>5, <2>6 DEF IdsFresh
<1>4. ASSUME NEW s \in Stores, ListCalled(s) \/ ExportCalled(s) \/ ImportCalled(s) \/
                               RestoreCalled(s)
      PROVE  IdsFresh'
    BY <1>1, <1>4 DEF ListCalled, ExportCalled, ImportCalled, RestoreCalled, Called, SaveCall,
       boundVars, historyVars
<1>5. ASSUME NEW s \in Stores, MarkSpent(s) \/ Reload(s) PROVE IdsFresh'
    BY <1>1, <1>5 DEF MarkSpent, Reload, Replaced, boundVars
<1>6. ASSUME NEW call \in calls, ListGoesOn(call) PROVE IdsFresh'
    BY <1>1, <1>6, ListingsOnly DEF ListGoesOn, boundVars, historyVars
<1>7. ASSUME NEW call \in calls, ExportEnds(call) \/ ImportEnds(call) \/ RestoreEnds(call)
      PROVE  IdsFresh'
    BY <1>1, <1>7 DEF ExportEnds, ImportEnds, RestoreEnds, Replaced, boundVars, historyVars
<1>8. CASE BackupDamaged \/ TimePasses \/ UNCHANGED noteVars
    BY <1>1, <1>8 DEF BackupDamaged, TimePasses, noteVars, boundVars, historyVars
<1> QED BY <1>2, <1>3, <1>4, <1>5, <1>6, <1>7, <1>8 DEF NoteNext

\* What is genuine stays so, since what was saved and what was marked is remembered.
LEMMA GenuineStays ==
    ASSUME NEW held \in NoteSeqs, NEW saved, NEW marks, Genuine(held, saved, marks),
           NEW saved2, NEW marks2, marks \subseteq marks2,
           \A id \in NoteIds : saved[id] # Never => saved2[id] = saved[id]
    PROVE  Genuine(held, saved2, marks2)
<1>1. \A i \in DOMAIN held : held[i] \in StoredNotes
    BY ElementOfSeq, LenProperties DEF NoteSeqs
<1>2. \A i \in DOMAIN held : held[i].id \in NoteIds /\ held[i].createdAt # Never
    BY <1>1, NoteStoreAssumption DEF StoredNotes, Moments, Never
<1> QED BY <1>2 DEF Genuine

LEMMA HistoryKept ==
    ASSUME NoteTyped, IdsFresh, [NoteNext]_noteVars
    PROVE  /\ marked \subseteq marked' /\ copied \subseteq copied'
           /\ \A id \in NoteIds : savedAt[id] # Never => savedAt'[id] = savedAt[id]
<1>1. ASSUME NEW call \in calls, SaveEnds(call)
      PROVE  /\ marked' = marked /\ copied' = copied
             /\ \A id \in NoteIds : savedAt[id] # Never => savedAt'[id] = savedAt[id]
    <2>1. call \in SaveCall
        BY <1>1, CallsTyped DEF SaveEnds
    <2> QED BY <1>1, <2>1 DEF SaveEnds, IdsFresh, NoteTyped
<1>2. ASSUME NEW s \in Stores,
             SaveCalled(s) \/ MarkSpent(s) \/ ListCalled(s) \/ ExportCalled(s) \/ ImportCalled(s)
             \/ RestoreCalled(s) \/ Reload(s)
      PROVE  marked \subseteq marked' /\ copied' = copied /\ savedAt' = savedAt
    BY <1>2 DEF SaveCalled, MarkSpent, ListCalled, ExportCalled, ImportCalled, RestoreCalled,
       Reload, historyVars
<1>3. ASSUME NEW call \in calls,
             ListGoesOn(call) \/ ExportEnds(call) \/ ImportEnds(call) \/ RestoreEnds(call)
      PROVE  marked' = marked /\ copied \subseteq copied' /\ savedAt' = savedAt
    BY <1>3 DEF ListGoesOn, ExportEnds, ImportEnds, RestoreEnds, historyVars
<1>4. ASSUME BackupDamaged \/ TimePasses \/ UNCHANGED noteVars
      PROVE  marked' = marked /\ copied' = copied /\ savedAt' = savedAt
    BY <1>4 DEF BackupDamaged, TimePasses, noteVars, historyVars
<1> QED BY <1>1, <1>2, <1>3, <1>4 DEF NoteNext

\* The backup, when it changes so that it still opens, is a copy an export took.
LEMMA BackupChanges ==
    ASSUME NoteTyped, [NoteNext]_noteVars, backup' # NoBackup
    PROVE  \/ backup # NoBackup /\ backup'.sealed.tag = backup.sealed.tag
           \/ \E call \in calls : /\ ExportEnds(call) /\ call \in ExportCall
                                  /\ backup'.sealed.tag = call.copy
                                  /\ copied' = copied \cup IdsOf(call.copy)
<1>1. ASSUME NEW call \in calls, ExportEnds(call)
      PROVE  /\ call \in ExportCall /\ backup'.sealed.tag = call.copy
             /\ copied' = copied \cup IdsOf(call.copy)
    BY <1>1, CallsTyped DEF ExportEnds, Bundle, Sealed, IdsOf
<1>2. CASE backup' = backup
    BY <1>2
<1>3. ASSUME NEW s \in Stores,
             SaveCalled(s) \/ MarkSpent(s) \/ ListCalled(s) \/ ExportCalled(s) \/ ImportCalled(s)
             \/ RestoreCalled(s) \/ Reload(s)
      PROVE  backup' = backup
    BY <1>3 DEF SaveCalled, MarkSpent, ListCalled, ExportCalled, ImportCalled, RestoreCalled, Reload
<1>4. ASSUME NEW call \in calls,
             SaveEnds(call) \/ ListGoesOn(call) \/ ImportEnds(call) \/ RestoreEnds(call)
      PROVE  backup' = backup
    BY <1>4 DEF SaveEnds, ListGoesOn, ImportEnds, RestoreEnds
<1>5. ASSUME BackupDamaged PROVE backup # NoBackup /\ backup'.sealed.tag = backup.sealed.tag
    BY <1>5 DEF BackupDamaged, NoteTyped
<1>6. ASSUME TimePasses \/ UNCHANGED noteVars PROVE backup' = backup
    BY <1>6 DEF TimePasses, noteVars
<1> QED BY <1>1, <1>2, <1>3, <1>4, <1>5, <1>6 DEF NoteNext

\* A call that holds a copy of notes took it from a store, or from a backup that opens.
LEMMA CopiesTaken ==
    ASSUME NoteTyped, [NoteNext]_noteVars, NEW call \in calls',
           call \in ExportCall \cup ImportCall, call \notin calls
    PROVE  /\ UNCHANGED <<now, notes, copied>>
           /\ \/ /\ call \in ExportCall /\ call \notin ImportCall
                 /\ call.copy = notes[call.store] /\ call.at = now
              \/ /\ call \in ImportCall /\ call \notin ExportCall
                 /\ backup # NoBackup /\ call.copy = backup.sealed.tag
<1>1. ASSUME NEW s \in Stores, ExportCalled(s)
      PROVE  /\ UNCHANGED <<now, notes, copied>>
             /\ call \in ExportCall /\ call \notin ImportCall
             /\ call.copy = notes[call.store] /\ call.at = now
    BY <1>1 DEF ExportCalled, Called, historyVars, ExportCall, ImportCall
<1>2. ASSUME NEW s \in Stores, ImportCalled(s) \/ RestoreCalled(s)
      PROVE  /\ UNCHANGED <<now, notes, copied>>
             /\ call \in ImportCall /\ call \notin ExportCall
             /\ backup # NoBackup /\ call.copy = backup.sealed.tag
    BY <1>2 DEF ImportCalled, RestoreCalled, Called, historyVars, ExportCall, ImportCall, Opens,
       NoBackup
<1>3. ASSUME NEW s \in Stores, SaveCalled(s) \/ ListCalled(s) PROVE FALSE
    BY <1>3 DEF SaveCalled, ListCalled, Called, ExportCall, ImportCall
<1>4. ASSUME NEW s \in Stores, MarkSpent(s) \/ Reload(s) PROVE FALSE
    BY <1>4 DEF MarkSpent, Reload, Replaced
<1>5. ASSUME NEW other \in calls, ListGoesOn(other) PROVE FALSE
    BY <1>5, ListingsOnly
<1>6. ASSUME NEW other \in calls,
             SaveEnds(other) \/ ExportEnds(other) \/ ImportEnds(other) \/ RestoreEnds(other)
      PROVE  FALSE
    BY <1>6 DEF SaveEnds, ExportEnds, ImportEnds, RestoreEnds, Replaced
<1>7. ASSUME BackupDamaged \/ TimePasses \/ UNCHANGED noteVars PROVE FALSE
    BY <1>7 DEF BackupDamaged, TimePasses, noteVars
<1> QED BY <1>1, <1>2, <1>3, <1>4, <1>5, <1>6, <1>7 DEF NoteNext

LEMMA AllStayGenuine ==
    NoteTyped /\ IdsFresh /\ AllGenuine /\ [NoteNext]_noteVars /\ NoteTyped' => AllGenuine'
<1> SUFFICES ASSUME NoteTyped, IdsFresh, AllGenuine, [NoteNext]_noteVars, NoteTyped'
             PROVE  AllGenuine'
    OBVIOUS
<1>1. /\ marked \subseteq marked'
      /\ \A id \in NoteIds : savedAt[id] # Never => savedAt'[id] = savedAt[id]
    BY HistoryKept
<1>2. ASSUME NEW held \in NoteSeqs, Genuine(held, savedAt, marked)
      PROVE  Genuine(held, savedAt', marked')
    BY <1>1, <1>2, GenuineStays
<1>3. ASSUME NEW s \in Stores PROVE Genuine(notes[s], savedAt, marked) /\ notes[s] \in NoteSeqs
    BY DEF AllGenuine, NoteTyped
<1>4. ASSUME NEW call \in calls, call \in ExportCall \cup ImportCall
      PROVE  Genuine(call.copy, savedAt, marked) /\ call.copy \in NoteSeqs
    BY <1>4 DEF AllGenuine, ExportCall, ImportCall
<1>5. ASSUME backup # NoBackup
      PROVE  Genuine(backup.sealed.tag, savedAt, marked) /\ backup.sealed.tag \in NoteSeqs
    BY <1>5 DEF AllGenuine, NoteTyped
<1>6. ASSUME NEW s \in Stores PROVE Genuine(notes'[s], savedAt', marked')
    <2> DEFINE held == notes[s]
               more == notes'[s]
    <2>1. held \in NoteSeqs /\ Genuine(held, savedAt', marked')
        BY <1>2, <1>3
    <2>2. CASE more = held
        BY <2>1, <2>2
    <2>3. CASE MarksOne(s)
        BY <2>1, <2>3, MarkedNote DEF MarksOne, Unspent, Genuine
    <2>4. CASE SavesOne(s)
        <3>1. PICK call \in calls, note \in StoredNotes :
                  /\ call \in SaveCall /\ note.id = call.id /\ note.createdAt = now /\ ~note.spent
                  /\ more = Append(held, note)
                  /\ savedAt' = [savedAt EXCEPT ![call.id] = now]
            BY <2>4 DEF SavesOne
        <3>2. savedAt[call.id] = Never /\ savedAt'[note.id] = note.createdAt
            BY <3>1 DEF IdsFresh, NoteTyped, SaveCall
        <3>3. \A i \in DOMAIN held : held[i] \in StoredNotes
            BY <2>1, ElementOfSeq, LenProperties DEF NoteSeqs
        <3>4. \A i \in DOMAIN held : held[i].id # note.id
            BY <1>3, <3>1, <3>2, <3>3, NoteStoreAssumption
               DEF Genuine, StoredNotes, Moments, Never
        <3>5. /\ DOMAIN held = 1 .. Len(held) /\ Len(held) \in Nat
              /\ DOMAIN more = 1 .. Len(held) + 1
              /\ \A i \in DOMAIN held : more[i] = held[i]
              /\ more[Len(held) + 1] = note
            BY <2>1, <3>1, AppendedNote
        <3> HIDE DEF held, more
        <3>6. \A i, j \in DOMAIN more : more[i].id = more[j].id => i = j
            BY <2>1, <3>4, <3>5 DEF Genuine
        <3>7. \A i \in DOMAIN more : /\ more[i].createdAt = savedAt'[more[i].id]
                                     /\ more[i].spent => more[i].id \in marked'
            <4> TAKE i \in DOMAIN more
            <4>1. CASE i \in DOMAIN held
                BY <2>1, <3>5, <4>1 DEF Genuine
            <4>2. CASE i = Len(held) + 1
                BY <3>1, <3>2, <3>5, <4>2
            <4> QED BY <3>5, <4>1, <4>2
        <3>8. Genuine(more, savedAt', marked')
            BY <3>6, <3>7 DEF Genuine
        <3> QED BY <3>8 DEF more
    <2>5. CASE ImportsInto(s)
        <3>1. PICK call \in calls : call \in ImportCall /\ more = WithImported(held, call.copy)
            BY <2>5 DEF ImportsInto
        <3>2. call.copy \in NoteSeqs /\ Genuine(call.copy, savedAt', marked')
            BY <1>2, <1>4, <3>1
        <3>3. /\ \A i \in DOMAIN held : more[i] = held[i]
              /\ \A j \in DOMAIN more : j \notin DOMAIN held =>
                     \E k \in DOMAIN call.copy : more[j] = call.copy[k]
              /\ \A i, j \in DOMAIN more : more[i].id = more[j].id => i = j
            BY <2>1, <3>1, <3>2, ImportedNotes DEF Genuine
        <3> HIDE DEF held, more
        <3>4. Genuine(more, savedAt', marked')
            BY <2>1, <3>2, <3>3 DEF Genuine
        <3> QED BY <3>4 DEF more
    <2>6. CASE IsReplaced(s)
        <3>1. Genuine(<<>>, savedAt', marked')
            BY DEF Genuine
        <3> QED BY <1>2, <1>4, <2>6, <3>1 DEF IsReplaced
    <2> QED BY <2>2, <2>3, <2>4, <2>5, <2>6, StoreSteps
<1>7. ASSUME NEW call \in calls', call \in ExportCall \cup ImportCall
      PROVE  Genuine(call.copy, savedAt', marked')
    <2>1. CASE call \in calls
        BY <1>2, <1>4, <1>7, <2>1
    <2>2. CASE call \notin calls
        <3>1. CASE call \in ExportCall
            BY <1>2, <1>3, <1>7, <2>2, <3>1, CopiesTaken DEF ExportCall
        <3>2. CASE call \in ImportCall
            BY <1>2, <1>5, <1>7, <2>2, <3>2, CopiesTaken
        <3> QED BY <1>7, <3>1, <3>2
    <2> QED BY <2>1, <2>2
<1>8. ASSUME backup' # NoBackup PROVE Genuine(backup'.sealed.tag, savedAt', marked')
    BY <1>2, <1>4, <1>5, <1>8, BackupChanges
<1> QED BY <1>6, <1>7, <1>8 DEF AllGenuine, NoBackup, ExportCall, ImportCall

\* Notes stored before a moment are known: a set the step only adds notes of now, or of
\* a backup, to.
KnownBefore(held, moment, known) ==
    \A i \in DOMAIN held : held[i].createdAt < moment => held[i].id \in known

LEMMA KnownStays ==
    ASSUME NoteTyped, [NoteNext]_noteVars, NoteTyped', NEW s \in Stores, ~IsReplaced(s),
           NEW moment \in MomentsOrNever, moment <= now,
           NEW known, KnownBefore(notes[s], moment, known), NEW known2, known \subseteq known2,
           \A call \in calls : call \in ImportCall => IdsOf(call.copy) \subseteq known2
    PROVE  KnownBefore(notes'[s], moment, known2)
<1> DEFINE held == notes[s]
           more == notes'[s]
<1>1. held \in NoteSeqs /\ KnownBefore(held, moment, known2)
    BY DEF KnownBefore, NoteTyped
<1>2. CASE more = held
    BY <1>1, <1>2
<1>3. CASE MarksOne(s)
    BY <1>1, <1>3, MarkedNote DEF MarksOne, Unspent, KnownBefore
<1>4. CASE SavesOne(s)
    <2>1. PICK note \in StoredNotes : note.createdAt = now /\ more = Append(held, note)
        BY <1>4 DEF SavesOne
    <2>2. /\ DOMAIN held = 1 .. Len(held) /\ Len(held) \in Nat
          /\ DOMAIN more = 1 .. Len(held) + 1
          /\ \A i \in DOMAIN held : more[i] = held[i]
          /\ more[Len(held) + 1] = note
        BY <1>1, <2>1, AppendedNote
    <2>3. ~(note.createdAt < moment)
        BY <2>1, NoteStoreAssumption DEF NoteTyped, MomentsOrNever, Moments, Never
    <2> HIDE DEF held, more
    <2>4. KnownBefore(more, moment, known2)
        BY <1>1, <2>2, <2>3 DEF KnownBefore
    <2> QED BY <2>4 DEF more
<1>5. CASE ImportsInto(s)
    <2>1. PICK call \in calls : call \in ImportCall /\ more = WithImported(held, call.copy)
        BY <1>5 DEF ImportsInto
    <2>2. /\ \A i \in DOMAIN held : more[i] = held[i]
          /\ \A j \in DOMAIN more : j \notin DOMAIN held =>
                 \E k \in DOMAIN call.copy : more[j] = call.copy[k]
        BY <1>1, <2>1, ImportedNotes DEF ImportCall
    <2>3. \A k \in DOMAIN call.copy : call.copy[k].id \in known2
        BY <2>1 DEF IdsOf
    <2> HIDE DEF held, more
    <2>4. KnownBefore(more, moment, known2)
        BY <1>1, <2>2, <2>3 DEF KnownBefore
    <2> QED BY <2>4 DEF more
<1> QED BY <1>2, <1>3, <1>4, <1>5, StoreSteps

\* When a store's last backup was taken, and returned.
LEMMA BackupTimes ==
    ASSUME NoteTyped, [NoteNext]_noteVars, NEW s \in Stores
    PROVE  \/ lastBackupAt'[s] = Never /\ copiedAt'[s] = Never
           \/ lastBackupAt'[s] = lastBackupAt[s] /\ copiedAt'[s] = copiedAt[s]
           \/ \E call \in calls :
                  /\ call \in ExportCall /\ call.store = s /\ copiedAt'[s] = call.at
                  /\ UNCHANGED <<now, notes>>
                  /\ copied' = copied \cup IdsOf(call.copy)
<1>1. ASSUME NEW t \in Stores,
             SaveCalled(t) \/ MarkSpent(t) \/ ListCalled(t) \/ ExportCalled(t) \/
             ImportCalled(t) \/ RestoreCalled(t)
      PROVE  lastBackupAt' = lastBackupAt /\ copiedAt' = copiedAt
    BY <1>1 DEF SaveCalled, MarkSpent, ListCalled, ExportCalled, ImportCalled, RestoreCalled,
       historyVars
<1>2. ASSUME NEW call \in calls, SaveEnds(call) \/ ListGoesOn(call) \/ ImportEnds(call)
      PROVE  lastBackupAt' = lastBackupAt /\ copiedAt' = copiedAt
    BY <1>2 DEF SaveEnds, ListGoesOn, ImportEnds, historyVars
<1>3. ASSUME BackupDamaged \/ TimePasses \/ UNCHANGED noteVars
      PROVE  lastBackupAt' = lastBackupAt /\ copiedAt' = copiedAt
    BY <1>3 DEF BackupDamaged, TimePasses, noteVars, historyVars
<1>4. ASSUME NEW t \in Stores, Reload(t)
      PROVE  \/ lastBackupAt'[s] = Never /\ copiedAt'[s] = Never
             \/ lastBackupAt'[s] = lastBackupAt[s] /\ copiedAt'[s] = copiedAt[s]
    BY <1>4 DEF Reload, Replaced, NoteTyped
<1>5. ASSUME NEW call \in calls, RestoreEnds(call)
      PROVE  \/ lastBackupAt'[s] = Never /\ copiedAt'[s] = Never
             \/ lastBackupAt'[s] = lastBackupAt[s] /\ copiedAt'[s] = copiedAt[s]
    BY <1>5 DEF RestoreEnds, Replaced, NoteTyped
<1>6. ASSUME NEW call \in calls, ExportEnds(call)
      PROVE  \/ lastBackupAt'[s] = lastBackupAt[s] /\ copiedAt'[s] = copiedAt[s]
             \/ /\ call \in ExportCall /\ call.store = s /\ copiedAt'[s] = call.at
                /\ UNCHANGED <<now, notes>>
                /\ copied' = copied \cup IdsOf(call.copy)
    BY <1>6, CallsTyped DEF ExportEnds, NoteTyped, IdsOf
<1> QED BY <1>1, <1>2, <1>3, <1>4, <1>5, <1>6 DEF NoteNext

LEMMA TimeGoesOn == NoteTyped /\ [NoteNext]_noteVars => now' \in Nat /\ now <= now'
<1> SUFFICES ASSUME NoteTyped, [NoteNext]_noteVars PROVE now' \in Nat /\ now <= now'
    OBVIOUS
<1>1. CASE TimePasses
    BY <1>1, NoteStoreAssumption DEF TimePasses, NoteTyped, Moments
<1>2. ASSUME now' = now PROVE now' \in Nat /\ now <= now'
    BY <1>2, NoteStoreAssumption DEF NoteTyped, Moments
<1> QED BY <1>1, <1>2 DEF NoteNext, SaveCalled, MarkSpent, ListCalled, ExportCalled, ImportCalled,
       RestoreCalled, Reload, SaveEnds, ListGoesOn, ExportEnds, ImportEnds, RestoreEnds,
       BackupDamaged, noteVars

LEMMA BackupsStillHold ==
    NoteTyped /\ IdsFresh /\ BackupsHold /\ [NoteNext]_noteVars /\ NoteTyped' => BackupsHold'
<1> SUFFICES ASSUME NoteTyped, IdsFresh, BackupsHold, [NoteNext]_noteVars, NoteTyped'
             PROVE  BackupsHold'
    OBVIOUS
<1>1. copied \subseteq copied' /\ now' \in Nat /\ now <= now' /\ now \in Nat
    BY HistoryKept, TimeGoesOn, NoteStoreAssumption DEF NoteTyped, Moments
<1>2. \A call \in calls : call \in ImportCall => IdsOf(call.copy) \subseteq copied
    BY DEF BackupsHold
<1>3. ASSUME NEW s \in Stores, lastBackupAt[s] # Never
      PROVE  KnownBefore(notes[s], copiedAt[s], copied)
    BY <1>3 DEF BackupsHold, KnownBefore
<1>4. ASSUME NEW call \in calls, call \in ExportCall
      PROVE  /\ call.at <= now /\ call.at \in Moments /\ call.at \in Nat
             /\ call.store \in Stores
             /\ KnownBefore(notes[call.store], call.at, IdsOf(call.copy) \cup copied)
    <2>1. call.at \in Moments /\ call.store \in Stores
        BY <1>4 DEF ExportCall
    <2>2. call.at \in Nat
        BY <2>1, NoteStoreAssumption DEF Moments
    <2> QED BY <1>4, <2>1, <2>2 DEF BackupsHold, KnownBefore
<1>5. ASSUME NEW s \in Stores PROVE copiedAt[s] <= now /\ copiedAt[s] \in MomentsOrNever
    BY DEF BackupsHold, NoteTyped
<1>6. ASSUME NEW s \in Stores, lastBackupAt'[s] # Never
      PROVE  KnownBefore(notes'[s], copiedAt'[s], copied')
    <2>1. CASE lastBackupAt'[s] = lastBackupAt[s] /\ copiedAt'[s] = copiedAt[s]
        <3>1. KnownBefore(notes[s], copiedAt[s], copied) /\ ~IsReplaced(s)
            BY <1>3, <1>6, <2>1 DEF IsReplaced
        <3>2. KnownBefore(notes'[s], copiedAt[s], copied')
            BY <1>1, <1>2, <1>5, <3>1, KnownStays
        <3> QED BY <2>1, <3>2
    <2>2. ASSUME NEW call \in calls, call \in ExportCall, call.store = s, copiedAt'[s] = call.at,
                 UNCHANGED <<now, notes>>, copied' = copied \cup IdsOf(call.copy)
          PROVE  KnownBefore(notes'[s], copiedAt'[s], copied')
        BY <1>4, <2>2 DEF KnownBefore
    <2> QED BY <1>6, <2>1, <2>2, BackupTimes
<1>7. ASSUME NEW call \in calls', call \in ExportCall
      PROVE  /\ call.at <= now'
             /\ KnownBefore(notes'[call.store], call.at, IdsOf(call.copy) \cup copied')
    <2>1. CASE call \in calls
        <3>1. ~IsReplaced(call.store)
            BY <2>1 DEF IsReplaced
        <3>2. KnownBefore(notes'[call.store], call.at, IdsOf(call.copy) \cup copied')
            BY <1>1, <1>2, <1>4, <1>7, <2>1, <3>1, KnownStays DEF MomentsOrNever
        <3>3. call.at <= now /\ call.at \in Nat
            BY <1>4, <1>7, <2>1
        <3>4. call.at <= now'
            BY <1>1, <3>3
        <3> QED BY <3>2, <3>4
    <2>2. CASE call \notin calls
        BY <1>1, <1>7, <2>2, CopiesTaken DEF KnownBefore, IdsOf
    <2> QED BY <2>1, <2>2
<1>8. ASSUME NEW call \in calls', call \in ImportCall PROVE IdsOf(call.copy) \subseteq copied'
    <2>1. CASE call \in calls
        BY <1>1, <1>2, <1>8, <2>1
    <2>2. CASE call \notin calls
        BY <1>8, <2>2, CopiesTaken DEF BackupsHold
    <2> QED BY <2>1, <2>2
<1>9. ASSUME backup' # NoBackup PROVE IdsOf(backup'.sealed.tag) \subseteq copied'
    BY <1>1, <1>9, BackupChanges DEF BackupsHold
<1>10. ASSUME NEW s \in Stores PROVE copiedAt'[s] <= now'
    <2>1. copiedAt'[s] = Never \/ copiedAt'[s] = copiedAt[s] \/
              \E call \in calls : call \in ExportCall /\ copiedAt'[s] = call.at
        BY BackupTimes
    <2>2. ASSUME NEW call \in calls, call \in ExportCall, copiedAt'[s] = call.at
          PROVE  copiedAt'[s] <= now'
        <3>1. call.at <= now /\ call.at \in Nat
            BY <1>4, <2>2
        <3> QED BY <1>1, <2>2, <3>1
    <2>3. copiedAt[s] <= now /\ copiedAt[s] \in Int
        BY <1>5, NoteStoreAssumption DEF MomentsOrNever, Moments, Never
    <2> QED BY <1>1, <2>1, <2>2, <2>3 DEF Never
<1> QED BY <1>6, <1>7, <1>8, <1>9, <1>10
    DEF BackupsHold, KnownBefore, NoBackup, ExportCall, ImportCall, IdsOf

-----------------------------------------------------------------------------
(***************************************************************************)
(* What holds of the note store.                                           *)
(***************************************************************************)
THEOREM NoteInvariance == NoteSpec => []NotesInv
<1>1. NoteInit => NotesInv
    BY NotesInitially
<1>2. NotesInv /\ [NoteNext]_noteVars => NotesInv'
    BY NotesTypedKept, ListingKept, IdsStayFresh, AllStayGenuine, BackupsStillHold DEF NotesInv
<1> QED BY <1>1, <1>2, PTL DEF NoteSpec

\* Every note of every store is one that was saved, with the time it was saved at, is
\* there once, and is marked spent only if some store was told so.
THEOREM NotesStayAuthentic == NoteSpec => []NotesAuthentic
<1>1. NotesInv => NotesAuthentic
    <2> SUFFICES ASSUME NotesInv, NEW s \in Stores PROVE Genuine(notes[s], savedAt, marked) /\
                     \A i \in DOMAIN notes[s] : notes[s][i] \in StoredNotes
        BY NoteStoreAssumption DEF NotesAuthentic, Genuine, StoredNotes, Moments, Never
    <2> QED BY ElementOfSeq, LenProperties DEF NotesInv, AllGenuine, NoteTyped, NoteSeqs
<1> QED BY <1>1, NoteInvariance, PTL

\* A listing under way has found every unspent note it has gone past, and none twice.
THEOREM ListingsComplete == NoteSpec => []ListingComplete
<1>1. NotesInv => ListingComplete
    BY DEF NotesInv
<1> QED BY <1>1, NoteInvariance, PTL

\* Silence about backups is justified: every unspent note is in one, or was saved while the
\* last one was being made.
THEOREM SilenceIsJustified == NoteSpec => []SilenceJustified
<1>1. NotesInv => SilenceJustified
    <2> SUFFICES ASSUME NotesInv, NEW s \in Stores, BackupWarning(s) = "none",
                        NEW i \in Unspent(notes[s])
                 PROVE  \/ notes[s][i].id \in copied
                        \/ notes[s][i].createdAt \in copiedAt[s] .. lastBackupAt[s]
        BY DEF SilenceJustified
    <2> DEFINE times == {notes[s][j].createdAt : j \in Unspent(notes[s])}
    <2>1. times \subseteq Moments /\ notes[s][i].createdAt \in times
        <3>1. \A j \in DOMAIN notes[s] : notes[s][j] \in StoredNotes
            BY ElementOfSeq, LenProperties DEF NotesInv, NoteTyped, NoteSeqs
        <3> QED BY <3>1 DEF StoredNotes, Unspent
    <2>2. /\ lastBackupAt[s] # Never /\ ~(NewestUnspent(notes[s]) > lastBackupAt[s])
        BY DEF BackupWarning
    <2>3. PICK t \in times : \A u \in times : u <= t
        <3> HIDE DEF times
        <3> QED BY <2>1, GreatestExists, NoteStoreAssumption DEF Moments
    <2> DEFINE Newest(u) == /\ \E j \in Unspent(notes[s]) : notes[s][j].createdAt = u
                            /\ \A j \in Unspent(notes[s]) : notes[s][j].createdAt <= u
    <2>4. Newest(t) /\ t \in Moments
        BY <2>1, <2>3
    <2>5. NewestUnspent(notes[s]) = CHOOSE u \in Moments : Newest(u)
        BY DEF NewestUnspent
    <2>6. NewestUnspent(notes[s]) \in Moments /\ Newest(NewestUnspent(notes[s]))
        <3> HIDE DEF Newest
        <3> QED BY <2>4, <2>5
    <2>7. lastBackupAt[s] \in Int /\ copiedAt[s] \in Int
        BY NoteStoreAssumption DEF NotesInv, NoteTyped, MomentsOrNever, Moments, Never
    <2>8. notes[s][i].createdAt \in Int /\ notes[s][i].createdAt <= lastBackupAt[s]
        BY <2>1, <2>2, <2>6, <2>7, NoteStoreAssumption DEF Moments
    <2>9. notes[s][i].createdAt < copiedAt[s] => notes[s][i].id \in copied
        BY <2>2 DEF NotesInv, BackupsHold, Unspent
    <2> QED BY <2>7, <2>8, <2>9
<1> QED BY <1>1, NoteInvariance, PTL

\* A store keeps every note in its place, and every mark, until it is replaced.
THEOREM MarksAreKept == NoteSpec => MarksKept
<1>1. NotesInv /\ NotesInv' /\ [NoteNext]_noteVars =>
          [reloads' = reloads =>
               \A s \in Stores : \A i \in DOMAIN notes[s] :
                   /\ i \in DOMAIN notes'[s]
                   /\ [notes'[s][i] EXCEPT !.spent = FALSE] = [notes[s][i] EXCEPT !.spent = FALSE]
                   /\ notes[s][i].spent => notes'[s][i].spent]_noteVars
    <2> SUFFICES ASSUME NotesInv, NotesInv', [NoteNext]_noteVars, reloads' = reloads,
                        NEW s \in Stores, NEW i \in DOMAIN notes[s]
                 PROVE  /\ i \in DOMAIN notes'[s]
                        /\ [notes'[s][i] EXCEPT !.spent = FALSE] =
                               [notes[s][i] EXCEPT !.spent = FALSE]
                        /\ notes[s][i].spent => notes'[s][i].spent
        OBVIOUS
    <2>1. Extends(notes'[s], notes[s])
        BY NotesExtended DEF NotesInv, IsReplaced
    <2>2. notes[s] \in NoteSeqs /\ notes'[s] \in NoteSeqs
        BY DEF NotesInv, NoteTyped
    <2>3. notes[s][i] \in StoredNotes
        BY <2>2, ElementOfSeq, LenProperties DEF NoteSeqs
    <2>4. i \in DOMAIN notes'[s] /\ notes'[s][i] \in StoredNotes
        BY <2>1, <2>2, ElementOfSeq, LenProperties DEF NoteSeqs, Extends
    <2> QED BY <2>1, <2>3, <2>4 DEF Extends, StoredNotes
<1> QED BY <1>1, NoteInvariance, PTL DEF NoteSpec, MarksKept

-----------------------------------------------------------------------------
(***************************************************************************)
(* Stealth payments.                                                       *)
(***************************************************************************)

\* Every payment was derived from an ephemeral key and a meta-address that decodes.
PaymentsInv ==
    /\ sha \in [ofPoint : [Points -> Hashes], viewKey : [Points -> Points]]
    /\ \A payment \in payments :
           /\ Decodes(payment.meta) /\ payment.ephemeral \in Points
           /\ StealthPubKey(payment.ephemeral, payment.meta) \in Points
           /\ payment.address =
                  Address(StealthPubKey(payment.ephemeral, payment.meta), payment.network)

LEMMA PaymentInvariance == PaymentSpec => []PaymentsInv
<1>1. PaymentInit => PaymentsInv
    BY DEF PaymentInit, PaymentsInv
<1>2. PaymentsInv /\ [PaymentNext]_paymentVars => PaymentsInv'
    <2> SUFFICES ASSUME PaymentsInv, [PaymentNext]_paymentVars PROVE PaymentsInv'
        OBVIOUS
    <2>1. ASSUME NEW meta, NEW network, PayTo(meta, network), UNCHANGED sha PROVE PaymentsInv'
        <3>1. PICK r \in Points :
                  /\ StealthPubKey(r, meta) \in Points
                  /\ payments' = payments \cup
                         {[ephemeral |-> PublicKey(r), meta |-> meta, network |-> network,
                           address |-> Address(StealthPubKey(r, meta), network)]}
            BY <2>1 DEF PayTo
        <3>2. \A key, m : StealthPubKey(key, m)' = StealthPubKey(key, m)
            BY <2>1 DEF StealthPubKey, SharedHash
        <3> QED BY <2>1, <3>1, <3>2
                DEF PaymentsInv, PayTo, Decodes, PublicKey, Address, StealthPubKey, SharedHash
    <2>2. CASE PaymentNext
        BY <2>1, <2>2 DEF PaymentNext, PaySelf
    <2>3. CASE UNCHANGED paymentVars
        BY <2>3 DEF paymentVars, PaymentsInv, StealthPubKey, SharedHash
    <2> QED BY <2>2, <2>3
<1> QED BY <1>1, <1>2, PTL DEF PaymentSpec

\* Every payment to a recipient is found by its owner and its scanner, and whoever finds a
\* payment has the key to its address.
THEOREM PaymentsAreFound == PaymentSpec => []PaymentsFound
<1>1. PaymentsInv => PaymentsFound
    <2> SUFFICES ASSUME PaymentsInv, NEW payment \in payments, NEW spendPrivKey \in Points
                 PROVE  /\ payment.meta = MetaKeys(PublicKey(spendPrivKey),
                                                   PublicKey(ViewKey(spendPrivKey)))
                               => /\ CheckStealthPayment(payment, spendPrivKey, payment.network)
                                  /\ TryDecryptPayment(payment, ViewKey(spendPrivKey),
                                         PublicKey(spendPrivKey), payment.network)
                        /\ \A network \in Networks :
                               CheckStealthPayment(payment, spendPrivKey, network)
                                   => payment.address.key = PublicKey(StealthPrivKey(
                                          spendPrivKey, SharedHash(ViewKey(spendPrivKey),
                                                                   payment.ephemeral)))
        BY DEF PaymentsFound
    <2> DEFINE view == ViewKey(spendPrivKey)
               r == payment.ephemeral
    <2>1. view \in Nat /\ r \in Nat
        <3>1. view \in Points /\ r \in Points
            BY DEF PaymentsInv, ViewKey
        <3>2. Points \subseteq Nat
            BY StealthAddressAssumption DEF Points
        <3> QED BY <3>1, <3>2
    <2>2. SharedHash(r, view) = SharedHash(view, r)
        <3>1. \A m, n \in Nat : m * n = n * m
            OBVIOUS
        <3>2. r * view = view * r
            BY <2>1, <3>1
        <3> QED BY <3>2 DEF SharedHash, Times
    <2>3. ASSUME payment.meta = MetaKeys(PublicKey(spendPrivKey), PublicKey(view))
          PROVE  /\ ExpectedKey(r, spendPrivKey) = StealthPubKey(r, payment.meta)
                 /\ CheckStealthPayment(payment, spendPrivKey, payment.network)
                 /\ TryDecryptPayment(payment, view, PublicKey(spendPrivKey), payment.network)
        <3>1. payment.meta[1] = spendPrivKey /\ payment.meta[2] = view
            BY <2>3 DEF MetaKeys, PublicKey
        <3>2. ExpectedKey(r, spendPrivKey) = StealthPubKey(r, payment.meta)
            BY <2>2, <3>1 DEF ExpectedKey, StealthPubKey, PublicKey
        <3>3. ScannerScalar(SharedHash(view, r)) = BytesToScalar(SharedHash(view, r))
            BY DEF ScannerScalar, BytesToScalar
        <3>4. ScannerScalar(SharedHash(view, r)) # 0
            BY DEF ScannerScalar
        <3>5. Plus(PublicKey(spendPrivKey), PublicKey(ScannerScalar(SharedHash(view, r))))
                  = StealthPubKey(r, payment.meta)
            BY <3>2, <3>3 DEF ExpectedKey
        <3> QED BY <3>2, <3>4, <3>5
                DEF CheckStealthPayment, TryDecryptPayment, PaymentsInv, Address, ScannerAddress
    <2>4. ASSUME NEW network \in Networks, CheckStealthPayment(payment, spendPrivKey, network)
          PROVE  payment.address.key =
                     PublicKey(StealthPrivKey(spendPrivKey, SharedHash(view, r)))
        BY <2>4 DEF CheckStealthPayment, Address, ExpectedKey, PublicKey, StealthPrivKey, Plus
    <2> QED BY <2>3, <2>4
<1> QED BY <1>1, PaymentInvariance, PTL

-----------------------------------------------------------------------------
(***************************************************************************)
(* The loader of the WASM prover.                                          *)
(***************************************************************************)

\* Beyond one read for each reset there is one more only while an attempt is marked.
ReadsInv ==
    /\ reads \in Nat /\ resets \in Nat
    /\ reads <= resets + 1
    /\ ~loadAttempted => reads <= resets

\* The file is read at most once for every reset, however loads and resets interleave.
THEOREM FileReadOnce == ProverSpec => []ReadOnce
<1>1. ProverInit => ReadsInv
    BY DEF ProverInit, ReadsInv
<1>2. ReadsInv /\ [ProverNext]_proverVars => ReadsInv'
    <2> SUFFICES ASSUME ReadsInv, [ProverNext]_proverVars PROVE ReadsInv'
        OBVIOUS
    <2>1. ASSUME NEW c \in Loaders, LoadCalled(c) PROVE ReadsInv'
        BY <2>1 DEF LoadCalled, AttemptMarked, ReadsInv
    <2>2. ASSUME NEW c \in Loaders, LoadEnds(c) PROVE ReadsInv'
        BY <2>2 DEF LoadEnds, ReadsInv
    <2>3. CASE SetWasmProver
        BY <2>3 DEF SetWasmProver, ReadsInv
    <2>4. CASE ResetWasmLoader
        BY <2>4 DEF ResetWasmLoader, ReadsInv
    <2>5. CASE GenerateWithdrawalProof \/ UNCHANGED proverVars
        BY <2>5 DEF GenerateWithdrawalProof, proverVars, ReadsInv
    <2> QED BY <2>1, <2>2, <2>3, <2>4, <2>5 DEF ProverNext
<1>3. ReadsInv => ReadOnce
    BY DEF ReadsInv, ReadOnce
<1> QED BY <1>1, <1>2, <1>3, PTL DEF ProverSpec

-----------------------------------------------------------------------------
(***************************************************************************)
(* The bytes of a proof.                                                   *)
(***************************************************************************)

LEMMA Division ==
    ASSUME NEW d \in Nat \ {0}, NEW a \in Nat
    PROVE  a \div d \in Nat /\ a % d \in 0 .. d - 1 /\ a = d * (a \div d) + (a % d)
    OBVIOUS

\* Each shift divides what is left.
Shifted(remaining, value, radix, width) ==
    /\ remaining \in [0 .. width -> Nat] /\ remaining[0] = value
    /\ \A shifts \in 1 .. width : remaining[shifts] = remaining[shifts - 1] \div radix

\* The shifts of a value, unfolded.
LEMMA RemainingUnfolds ==
    ASSUME NEW value \in Nat, NEW radix \in Nat \ {0}, NEW width \in Nat
    PROVE  Shifted(Remaining(value, radix, width), value, radix, width)
<1> DEFINE step == [shifts \in 1 .. width |-> [x \in Nat |-> x \div radix]]
           Shifts(f) == f = [shifts \in 0 .. width |->
                                 IF shifts = 0 THEN value ELSE f[shifts - 1] \div radix]
           chosen == CHOOSE f : Shifts(f)
<1>1. step \in [1 .. width -> [Nat -> Nat]]
    OBVIOUS
<1>2. PICK f : Iterates(f, width, value, step, Nat)
    <2> HIDE DEF step
    <2> QED BY <1>1, IterationExists
<1>3. f \in [0 .. width -> Nat] /\ f[0] = value
      /\ \A shifts \in 1 .. width : f[shifts] = f[shifts - 1] \div radix
    <2>1. f \in [0 .. width -> Nat] /\ f[0] = value
          /\ \A shifts \in 1 .. width : f[shifts] = step[shifts][f[shifts - 1]]
        BY <1>2 DEF Iterates
    <2>2. \A shifts \in 1 .. width : shifts - 1 \in 0 .. width
        OBVIOUS
    <2> QED BY <2>1, <2>2
<1>4. Shifts(f)
    BY <1>3
<1>5. Shifts(chosen)
    <2> HIDE DEF Shifts
    <2> QED BY <1>4
<1>6. Remaining(value, radix, width) = chosen
    BY DEF Remaining
<1> HIDE DEF chosen
<1>7. chosen = [shifts \in 0 .. width |-> chosen[shifts]] /\ chosen[0] = value
      /\ \A shifts \in 1 .. width : chosen[shifts] = chosen[shifts - 1] \div radix
    BY <1>5
<1> DEFINE T == {shifts \in Nat : chosen[shifts] \in Nat}
<1>8. 0 .. width \subseteq T
    <2>1. 0 \in T
        BY <1>7
    <2>2. ASSUME NEW shifts \in 1 .. width, shifts - 1 \in T PROVE shifts \in T
        <3>1. PICK x \in Nat : x = chosen[shifts - 1]
            BY <2>2
        <3>2. x \div radix \in Nat
            BY Division
        <3>3. chosen[shifts] = x \div radix
            BY <1>7, <3>1
        <3>4. chosen[shifts] \in Nat /\ shifts \in Nat
            BY <3>2, <3>3
        <3> QED BY <3>4
    <2> HIDE DEF T
    <2> QED BY <2>1, <2>2, IntervalInduction
<1>9. chosen \in [0 .. width -> Nat]
    BY <1>7, <1>8
<1> QED BY <1>6, <1>7, <1>9 DEF Shifted

\* A uint is told by its bytes.
LEMMA BytesTellUint ==
    ASSUME NEW a, NEW b, IsUint(a), IsUint(b), Uint128BE(a) = Uint128BE(b)
    PROVE  a = b
<1> DEFINE f == Remaining(a, Radix, FeeLength)
           g == Remaining(b, Radix, FeeLength)
           T == {k \in Nat : f[FeeLength - k] = g[FeeLength - k]}
<1>0. a \in Nat /\ b \in Nat /\ Radix \in Nat \ {0} /\ FeeLength \in Nat
      /\ f[FeeLength] = 0 /\ g[FeeLength] = 0
    BY SdkBytesAssumption DEF IsUint
<1>1. /\ f \in [0 .. FeeLength -> Nat] /\ f[0] = a
      /\ g \in [0 .. FeeLength -> Nat] /\ g[0] = b
      /\ \A shifts \in 1 .. FeeLength : /\ f[shifts] = f[shifts - 1] \div Radix
                                        /\ g[shifts] = g[shifts - 1] \div Radix
    <2>1. Shifted(f, a, Radix, FeeLength) /\ Shifted(g, b, Radix, FeeLength)
        <3>1. Radix \in Nat \ {0}
            BY <1>0
        <3> QED BY <1>0, <3>1, RemainingUnfolds
    <2> HIDE DEF f, g
    <2> QED BY <2>1 DEF Shifted
<1>2. \A i \in 1 .. FeeLength : f[FeeLength - i] % Radix = g[FeeLength - i] % Radix
    <2> TAKE i \in 1 .. FeeLength
    <2>1. Uint128BE(a)[i] = Plain(f[FeeLength - i] % Radix)
          /\ Uint128BE(b)[i] = Plain(g[FeeLength - i] % Radix)
        BY DEF Uint128BE, BigEndian
    <2> HIDE DEF f, g
    <2> QED BY <2>1 DEF Plain, Byte
<1> HIDE DEF f, g
<1>3. 0 \in T
    BY <1>0
<1>4. ASSUME NEW k \in 1 .. FeeLength, k - 1 \in T PROVE k \in T
    <2>1. FeeLength - k \in 0 .. FeeLength /\ FeeLength - (k - 1) \in 1 .. FeeLength
          /\ FeeLength - (k - 1) - 1 = FeeLength - k
        BY <1>0
    <2>2. PICK x \in Nat, y \in Nat : x = f[FeeLength - k] /\ y = g[FeeLength - k]
        BY <1>1, <2>1
    <2>3. x \div Radix = y \div Radix
        BY <1>1, <1>4, <2>1, <2>2
    <2>4. x % Radix = y % Radix
        BY <1>2, <2>2
    <2>5. x = y
        <3>1. /\ x = Radix * (x \div Radix) + (x % Radix)
              /\ y = Radix * (y \div Radix) + (y % Radix)
            BY <1>0, Division
        <3> QED BY <2>3, <2>4, <3>1
    <2>6. f[FeeLength - k] = g[FeeLength - k] /\ k \in Nat
        BY <2>2, <2>5
    <2> QED BY <2>6
<1>5. 0 .. FeeLength \subseteq T
    <2> HIDE DEF T
    <2> QED BY <1>0, <1>3, <1>4, IntervalInduction
<1>6. FeeLength \in T /\ FeeLength - FeeLength = 0
    BY <1>0, <1>5
<1> QED BY <1>1, <1>6

-----------------------------------------------------------------------------
\* Strings of bytes, whatever these are.
IsBytes(bytes) == \E S : bytes \in Seq(S)

LEMMA TableIsBytes ==
    ASSUME NEW n \in Nat, NEW f, f = [i \in 1 .. n |-> f[i]]
    PROVE  IsBytes(f) /\ Len(f) = n
<1>1. PICK S : S = {f[i] : i \in 1 .. n}
    OBVIOUS
<1>2. f \in [1 .. n -> S]
    BY <1>1
<1>3. f \in Seq(S) /\ Len(f) = n
    BY <1>2
<1> QED BY <1>3 DEF IsBytes

\* From offset on, bytes has those of part.
Holds(bytes, offset, part) ==
    /\ offset + Len(part) <= Len(bytes)
    /\ \A i \in 1 .. Len(part) : bytes[offset + i] = part[i]

\* Whatever lies in s lies in t at the same place.
Kept(s, t) == \A offset \in Nat : \A part :
                  IsBytes(part) /\ Holds(s, offset, part) => Holds(t, offset, part)

LEMMA Joined ==
    ASSUME NEW s, NEW t, IsBytes(s), IsBytes(t)
    PROVE  /\ IsBytes(s \o t) /\ Len(s \o t) = Len(s) + Len(t)
           /\ Len(s) \in Nat /\ Len(t) \in Nat
           /\ Holds(s \o t, 0, s) /\ Holds(s \o t, Len(s), t) /\ Kept(s, s \o t)
<1>1. PICK S : s \in Seq(S) /\ t \in Seq(S)
    <2>1. PICK S1, S2 : s \in Seq(S1) /\ t \in Seq(S2)
        BY DEF IsBytes
    <2>2. s \in Seq(S1 \cup S2) /\ t \in Seq(S1 \cup S2)
        BY <2>1
    <2> QED BY <2>2
<1>2. /\ s \o t \in Seq(S) /\ Len(s \o t) = Len(s) + Len(t)
      /\ Len(s) \in Nat /\ Len(t) \in Nat
      /\ \A i \in 1 .. Len(s) : (s \o t)[i] = s[i]
      /\ \A i \in 1 .. Len(t) : (s \o t)[Len(s) + i] = t[i]
    BY <1>1
<1>3. ASSUME NEW offset \in Nat, NEW part, IsBytes(part), Holds(s, offset, part)
      PROVE  Holds(s \o t, offset, part)
    <2>1. Len(part) \in Nat
        BY <1>3 DEF IsBytes
    <2>2. \A i \in 1 .. Len(part) : offset + i \in 1 .. Len(s)
        BY <1>2, <1>3, <2>1 DEF Holds
    <2> QED BY <1>2, <1>3, <2>1, <2>2 DEF Holds
<1>4. Holds(s \o t, 0, s) /\ Holds(s \o t, Len(s), t)
    BY <1>2 DEF Holds
<1>5. IsBytes(s \o t)
    BY <1>2 DEF IsBytes
<1> QED BY <1>2, <1>3, <1>4, <1>5 DEF Kept

LEMMA JoinedTo ==
    ASSUME NEW s, NEW t, NEW whole, IsBytes(s), IsBytes(t), whole = s \o t
    PROVE  /\ IsBytes(whole) /\ Len(whole) = Len(s) + Len(t)
           /\ Holds(whole, 0, s) /\ Holds(whole, Len(s), t) /\ Kept(s, whole)
    BY Joined

\* A slice of the length of a part is that part.
LEMMA SliceOfPart ==
    ASSUME NEW bytes, IsBytes(bytes), NEW part, IsBytes(part), NEW offset \in Nat,
           Holds(bytes, offset, part)
    PROVE  SliceAt(bytes, offset, Len(part)) = part
<1>1. PICK S : bytes \in Seq(S) /\ part \in Seq(S)
    <2>1. PICK S1, S2 : bytes \in Seq(S1) /\ part \in Seq(S2)
        BY DEF IsBytes
    <2>2. bytes \in Seq(S1 \cup S2) /\ part \in Seq(S1 \cup S2)
        BY <2>1
    <2> QED BY <2>2
<1>2. PICK n \in Nat : n = Len(part) /\ offset + n <= Len(bytes)
    BY <1>1 DEF Holds
<1>3. PICK slice : slice = SliceAt(bytes, offset, n)
    OBVIOUS
<1>4. /\ slice \in Seq(S) /\ Len(slice) = n
      /\ \A i \in 1 .. n : slice[i] = bytes[offset + i]
    BY <1>1, <1>2, <1>3 DEF SliceAt
<1>5. \A i \in 1 .. n : slice[i] = part[i]
    BY <1>2, <1>4 DEF Holds
<1> QED BY <1>1, <1>2, <1>3, <1>4, <1>5

\* Parts of one length, one after the other.
LEMMA Flattened ==
    ASSUME NEW n \in Nat, NEW length \in Nat,
           NEW parts, parts = [i \in 1 .. n |-> parts[i]],
           \A i \in 1 .. n : IsBytes(parts[i]) /\ Len(parts[i]) = length
    PROVE  /\ IsBytes(FlattenSeq(parts)) /\ Len(FlattenSeq(parts)) = n * length
           /\ \A i \in 1 .. n : Holds(FlattenSeq(parts), (i - 1) * length, parts[i])
<1> DEFINE Flattens(f, m) == f = [i \in 1 .. m |-> IF i = 1 THEN parts[i] ELSE f[i - 1] \o parts[i]]
           T == {m \in Nat : \E f : Flattens(f, m)}
           chosen == CHOOSE f : Flattens(f, n)
<1>0. IsBytes(parts) /\ Len(parts) = n
    BY TableIsBytes
<1>1. CASE n = 0
    <2>1. FlattenSeq(parts) = parts
        BY <1>0, <1>1 DEF FlattenSeq
    <2> QED BY <1>0, <1>1, <2>1
<1>2. CASE n # 0
    <2>1. 0 \in T
        <3>1. Flattens([i \in 1 .. 0 |-> 0], 0)
            OBVIOUS
        <3> QED BY <3>1
    <2>2. ASSUME NEW m \in 1 .. n, m - 1 \in T PROVE m \in T
        <3>1. PICK f : Flattens(f, m - 1)
            BY <2>2
        <3>2. \A i \in 1 .. m - 1 : f[i] = IF i = 1 THEN parts[i] ELSE f[i - 1] \o parts[i]
            BY <3>1
        <3> DEFINE g == [i \in 1 .. m |->
                             IF i = m THEN (IF i = 1 THEN parts[i] ELSE f[i - 1] \o parts[i])
                             ELSE f[i]]
        <3>3. \A i \in 1 .. m : g[i] = IF i = 1 THEN parts[i] ELSE g[i - 1] \o parts[i]
            <4> TAKE i \in 1 .. m
            <4>1. i # 1 => g[i - 1] = f[i - 1]
                OBVIOUS
            <4>2. g[i] = IF i = 1 THEN parts[i] ELSE f[i - 1] \o parts[i]
                <5>1. CASE i = m
                    BY <5>1
                <5>2. CASE i # m
                    <6>1. i \in 1 .. m - 1 /\ g[i] = f[i]
                        BY <5>2
                    <6> QED BY <3>2, <6>1
                <5> QED BY <5>1, <5>2
            <4> HIDE DEF g
            <4> QED BY <4>1, <4>2
        <3>4. Flattens(g, m)
            <4>1. g = [i \in 1 .. m |-> g[i]]
                OBVIOUS
            <4> HIDE DEF g
            <4> QED BY <3>3, <4>1
        <3> HIDE DEF g, Flattens
        <3> QED BY <3>4
    <2>3. PICK f : Flattens(f, n)
        <3> HIDE DEF Flattens
        <3>1. 0 .. n \subseteq T
            <4> HIDE DEF T
            <4> QED BY <2>1, <2>2, IntervalInduction
        <3> QED BY <3>1
    <2>4. Flattens(chosen, n)
        <3> HIDE DEF Flattens
        <3> QED BY <2>3
    <2>5. FlattenSeq(parts) = chosen[n]
        BY <1>0, <1>2 DEF FlattenSeq
    <2> HIDE DEF chosen
    <2>6. chosen[1] = parts[1] /\ \A i \in 2 .. n : chosen[i] = chosen[i - 1] \o parts[i]
        <3>1. \A i \in 1 .. n : chosen[i] = IF i = 1 THEN parts[i] ELSE chosen[i - 1] \o parts[i]
            BY <2>4
        <3>2. 1 \in 1 .. n /\ \A i \in 2 .. n : i \in 1 .. n /\ i # 1
            BY <1>2
        <3> QED BY <3>1, <3>2
    <2> HIDE DEF Flattens
    <2> DEFINE Flat(m) ==
                   /\ IsBytes(chosen[m]) /\ Len(chosen[m]) = m * length
                   /\ \A i \in 1 .. m : Holds(chosen[m], (i - 1) * length, parts[i])
               R == {m \in Nat : m # 0 => Flat(m)}
    <2>7. ASSUME NEW m \in 1 .. n, m - 1 \in R PROVE m \in R
        <3>1. CASE m = 1
            <4>1. Holds(parts[1], 0, parts[1])
                BY <1>2 DEF Holds
            <4>2. (1 - 1) * length = 0 /\ 1 * length = length
                OBVIOUS
            <4> QED BY <1>2, <2>6, <3>1, <4>1, <4>2
        <3>2. CASE m # 1
            <4>1. m \in 2 .. n /\ Flat(m - 1)
                <5>1. m - 1 # 0 /\ m \in 2 .. n
                    BY <3>2
                <5> HIDE DEF Flat
                <5> QED BY <2>7, <5>1
            <4>2. chosen[m] = chosen[m - 1] \o parts[m] /\ IsBytes(parts[m])
                  /\ Len(parts[m]) = length /\ Len(chosen[m - 1]) = (m - 1) * length
                BY <2>6, <4>1
            <4>3. /\ IsBytes(chosen[m]) /\ Len(chosen[m]) = (m - 1) * length + length
                  /\ Holds(chosen[m], (m - 1) * length, parts[m])
                  /\ Kept(chosen[m - 1], chosen[m])
                BY <4>1, <4>2, Joined
            <4>4. (m - 1) * length + length = m * length
                OBVIOUS
            <4>5. ASSUME NEW i \in 1 .. m PROVE Holds(chosen[m], (i - 1) * length, parts[i])
                <5>1. CASE i = m
                    BY <4>3, <5>1
                <5>2. CASE i # m
                    <6>1. i \in 1 .. m - 1 /\ i \in 1 .. n
                        BY <5>2
                    <6>2. (i - 1) * length \in Nat
                        BY <6>1
                    <6> QED BY <4>1, <4>3, <6>1, <6>2 DEF Kept
                <5> QED BY <5>1, <5>2
            <4>6. Flat(m)
                BY <4>3, <4>4, <4>5
            <4> HIDE DEF Flat
            <4> QED BY <4>6
        <3> QED BY <3>1, <3>2
    <2>8. 0 .. n \subseteq R
        <3>1. 0 \in R
            OBVIOUS
        <3> HIDE DEF R
        <3> QED BY <2>7, <3>1, IntervalInduction
    <2>9. Flat(n)
        <3> HIDE DEF Flat
        <3>1. n \in 0 .. n
            OBVIOUS
        <3>2. n \in R
            <4> HIDE DEF R
            <4> QED BY <2>8, <3>1
        <3> QED BY <1>2, <3>2
    <2> QED BY <2>5, <2>9
<1> QED BY <1>1, <1>2

LEMMA HoldsWithin ==
    ASSUME NEW bytes, NEW whole, NEW part, IsBytes(bytes), IsBytes(whole), IsBytes(part),
           NEW offset \in Nat, NEW within \in Nat,
           Holds(bytes, offset, whole), Holds(whole, within, part)
    PROVE  Holds(bytes, offset + within, part)
<1>1. Len(bytes) \in Nat /\ Len(whole) \in Nat /\ Len(part) \in Nat
    BY DEF IsBytes
<1>2. offset + within + Len(part) <= Len(bytes)
    BY <1>1 DEF Holds
<1>3. ASSUME NEW i \in 1 .. Len(part) PROVE bytes[offset + within + i] = part[i]
    <2>1. within + i \in 1 .. Len(whole) /\ offset + (within + i) = offset + within + i
        BY <1>1 DEF Holds
    <2> QED BY <2>1 DEF Holds
<1> QED BY <1>2, <1>3 DEF Holds

LEMMA HashBytes ==
    ASSUME NEW preimage
    PROVE  IsBytes(Sha256(preimage)) /\ Len(Sha256(preimage)) = HashLength
<1>1. Sha256(preimage) = [i \in 1 .. HashLength |-> Sha256(preimage)[i]]
    BY DEF Sha256
<1> QED BY <1>1, SdkBytesAssumption, TableIsBytes

LEMMA BigEndianBytes ==
    ASSUME NEW value, NEW width \in Nat
    PROVE  IsBytes(BigEndian(value, width)) /\ Len(BigEndian(value, width)) = width
<1>1. BigEndian(value, width) = [i \in 1 .. width |-> BigEndian(value, width)[i]]
    BY DEF BigEndian
<1> QED BY <1>1, TableIsBytes

\* A hash is of one input only.
LEMMA HashTellsInput ==
    ASSUME NEW a, NEW b, Sha256(a) = Sha256(b)
    PROVE  a = b
<1>1. 1 \in 1 .. HashLength
    BY SdkBytesAssumption
<1>2. Sha256(a)[1] = Byte(a, 1) /\ Sha256(b)[1] = Byte(b, 1)
    BY <1>1 DEF Sha256
<1> QED BY <1>2 DEF Byte

\* Padding takes nothing away, even where there is no room for it.
LEMMA PaddedBytes ==
    ASSUME NEW bytes, IsBytes(bytes)
    PROVE  /\ IsBytes(Padded(bytes)) /\ Len(bytes) <= Len(Padded(bytes))
           /\ Kept(bytes, Padded(bytes))
<1>1. Len(bytes) \in Nat
    BY DEF IsBytes
<1>2. PICK room \in Int : room = MaxProofBytes - Len(bytes)
    BY <1>1, ProverAssumption
<1>3. PICK length \in Nat : 1 .. room = 1 .. length
    <2>1. CASE room >= 0
        BY <2>1
    <2>2. CASE room < 0
        <3>1. 1 .. room = 1 .. 0
            BY <2>2
        <3> QED BY <3>1
    <2> QED BY <2>1, <2>2
<1>4. PICK zeros : zeros = Zeros(room) /\ zeros = [i \in 1 .. length |-> Plain(0)]
    BY <1>3 DEF Zeros
<1>5. IsBytes(zeros)
    <2>1. zeros = [i \in 1 .. length |-> zeros[i]]
        BY <1>4
    <2> QED BY <2>1, TableIsBytes
<1>6. Padded(bytes) = bytes \o zeros
    BY <1>2, <1>4 DEF Padded
<1>7. /\ IsBytes(bytes \o zeros) /\ Len(bytes \o zeros) = Len(bytes) + Len(zeros)
      /\ Len(zeros) \in Nat /\ Kept(bytes, bytes \o zeros)
    BY <1>5, Joined
<1>8. Len(bytes) <= Len(bytes) + Len(zeros)
    BY <1>1, <1>7
<1> QED BY <1>6, <1>7, <1>8

LEMMA PackedBytes ==
    ASSUME NEW indices, Len(indices) \in Nat
    PROVE  /\ BytesOf(Len(indices)) \in Nat /\ IsBytes(PackedIndices(indices))
           /\ Len(PackedIndices(indices)) = BytesOf(Len(indices))
<1>1. BytesOf(Len(indices)) \in Nat
    <2>1. Len(indices) + ByteBits - 1 \in Nat /\ ByteBits \in Nat \ {0}
        BY ProverAssumption
    <2> QED BY <2>1, Division DEF BytesOf
<1>2. PackedIndices(indices)
          = [b \in 1 .. BytesOf(Len(indices)) |-> PackedIndices(indices)[b]]
    BY DEF PackedIndices
<1> QED BY <1>1, <1>2, TableIsBytes

\* Where the parts of a serialized proof lie.
LEMMA ProofLayout ==
    ASSUME NEW data, NEW n \in Nat, n = Len(data.elements), Len(data.indices) \in Nat,
           IsBytes(data.nullifierHash), Len(data.nullifierHash) = HashLength,
           IsBytes(data.challengeHash), Len(data.challengeHash) = HashLength,
           IsBytes(data.responseHash), Len(data.responseHash) = HashLength,
           data.elements = [i \in 1 .. n |-> data.elements[i]],
           \A i \in 1 .. n : IsBytes(data.elements[i]) /\ Len(data.elements[i]) = HashLength
    PROVE  /\ IsBytes(SerializeProof(data))
           /\ Holds(SerializeProof(data), 0, <<Plain(1)>>)
           /\ Holds(SerializeProof(data), 1, data.nullifierHash)
           /\ Holds(SerializeProof(data), 1 + HashLength, data.challengeHash)
           /\ Holds(SerializeProof(data), 1 + 2 * HashLength, data.responseHash)
           /\ Holds(SerializeProof(data), HeaderSize - 1, <<Plain(n)>>)
           /\ \A i \in 1 .. n : Holds(SerializeProof(data),
                                      HeaderSize + (i - 1) * HashLength, data.elements[i])
           /\ Holds(SerializeProof(data), HeaderSize + n * HashLength,
                    PackedIndices(data.indices))
<1>1. PICK p1, p2, p3, p4, p5, p6, p7 :
        /\ p1 = <<Plain(1)>> /\ p2 = data.nullifierHash /\ p3 = data.challengeHash
        /\ p4 = data.responseHash /\ p5 = <<Plain(n)>> /\ p6 = FlattenSeq(data.elements)
        /\ p7 = PackedIndices(data.indices)
    OBVIOUS
<1>2. PICK s2, s3, s4, s5, s6, s7 :
        /\ s2 = p1 \o p2 /\ s3 = s2 \o p3 /\ s4 = s3 \o p4 /\ s5 = s4 \o p5 /\ s6 = s5 \o p6
        /\ s7 = s6 \o p7
    OBVIOUS
<1>3. PICK bytes : bytes = SerializeProof(data) /\ bytes = Padded(s7)
    BY <1>1, <1>2 DEF SerializeProof
<1>h. HashLength \in Nat
    BY SdkBytesAssumption
<1>4. /\ IsBytes(p1) /\ Len(p1) = 1 /\ IsBytes(p5) /\ Len(p5) = 1
      /\ IsBytes(p2) /\ IsBytes(p3) /\ IsBytes(p4)
      /\ Len(p2) = HashLength /\ Len(p3) = HashLength /\ Len(p4) = HashLength
    <2>1. <<Plain(1)>> \in Seq({Plain(1)}) /\ <<Plain(n)>> \in Seq({Plain(n)})
        OBVIOUS
    <2> QED BY <1>1, <2>1 DEF IsBytes
<1>5. /\ IsBytes(p6) /\ Len(p6) = n * HashLength
      /\ \A i \in 1 .. n : Holds(p6, (i - 1) * HashLength, data.elements[i])
    <2>1. PICK parts : parts = data.elements
        OBVIOUS
    <2>2. /\ parts = [i \in 1 .. n |-> parts[i]]
          /\ \A i \in 1 .. n : IsBytes(parts[i]) /\ Len(parts[i]) = HashLength
        BY <2>1
    <2>3. /\ IsBytes(FlattenSeq(parts)) /\ Len(FlattenSeq(parts)) = n * HashLength
          /\ \A i \in 1 .. n : Holds(FlattenSeq(parts), (i - 1) * HashLength, parts[i])
        BY <1>h, <2>2, Flattened
    <2> QED BY <1>1, <2>1, <2>3
<1>6. IsBytes(p7)
    BY <1>1, PackedBytes
<1>7. IsBytes(s2) /\ Len(s2) = 1 + Len(p2) /\ Holds(s2, 0, p1) /\ Holds(s2, 1, p2)
    <2>1. s2 = p1 \o p2 /\ IsBytes(p1) /\ IsBytes(p2) /\ 1 = Len(p1)
        BY <1>2, <1>4
    <2>2. /\ IsBytes(s2) /\ Len(s2) = Len(p1) + Len(p2)
          /\ Holds(s2, 0, p1) /\ Holds(s2, Len(p1), p2) /\ Kept(p1, s2)
        BY ONLY <2>1, JoinedTo
    <2> QED BY <2>1, <2>2
<1>8. /\ IsBytes(s3) /\ Len(s3) = 1 + HashLength + Len(p3)
      /\ Holds(s3, 1 + HashLength, p3) /\ Kept(s2, s3)
    <2>1. /\ s3 = s2 \o p3 /\ IsBytes(s2) /\ IsBytes(p3)
          /\ 1 + HashLength = Len(s2)
        BY <1>2, <1>4, <1>5, <1>7
    <2>2. /\ IsBytes(s3) /\ Len(s3) = Len(s2) + Len(p3)
          /\ Holds(s3, 0, s2) /\ Holds(s3, Len(s2), p3) /\ Kept(s2, s3)
        BY ONLY <2>1, JoinedTo
    <2> QED BY <2>1, <2>2
<1>9. /\ IsBytes(s4) /\ Len(s4) = 1 + HashLength + HashLength + Len(p4)
      /\ Holds(s4, 1 + HashLength + HashLength, p4) /\ Kept(s3, s4)
    <2>1. /\ s4 = s3 \o p4 /\ IsBytes(s3) /\ IsBytes(p4)
          /\ 1 + HashLength + HashLength = Len(s3)
        BY <1>2, <1>4, <1>5, <1>8
    <2>2. /\ IsBytes(s4) /\ Len(s4) = Len(s3) + Len(p4)
          /\ Holds(s4, 0, s3) /\ Holds(s4, Len(s3), p4) /\ Kept(s3, s4)
        BY ONLY <2>1, JoinedTo
    <2> QED BY <2>1, <2>2
<1>10. /\ IsBytes(s5) /\ Len(s5) = 1 + HashLength + HashLength + HashLength + Len(p5)
       /\ Holds(s5, 1 + HashLength + HashLength + HashLength, p5) /\ Kept(s4, s5)
    <2>1. /\ s5 = s4 \o p5 /\ IsBytes(s4) /\ IsBytes(p5)
          /\ 1 + HashLength + HashLength + HashLength = Len(s4)
        BY <1>2, <1>4, <1>5, <1>9
    <2>2. /\ IsBytes(s5) /\ Len(s5) = Len(s4) + Len(p5)
          /\ Holds(s5, 0, s4) /\ Holds(s5, Len(s4), p5) /\ Kept(s4, s5)
        BY ONLY <2>1, JoinedTo
    <2> QED BY <2>1, <2>2
<1>11. /\ IsBytes(s6) /\ Len(s6) = 1 + HashLength + HashLength + HashLength + 1 + Len(p6)
       /\ Holds(s6, 1 + HashLength + HashLength + HashLength + 1, p6) /\ Kept(s5, s6)
    <2>1. /\ s6 = s5 \o p6 /\ IsBytes(s5) /\ IsBytes(p6)
          /\ 1 + HashLength + HashLength + HashLength + 1 = Len(s5)
        BY <1>2, <1>4, <1>5, <1>10
    <2>2. /\ IsBytes(s6) /\ Len(s6) = Len(s5) + Len(p6)
          /\ Holds(s6, 0, s5) /\ Holds(s6, Len(s5), p6) /\ Kept(s5, s6)
        BY ONLY <2>1, JoinedTo
    <2> QED BY <2>1, <2>2
<1>12. IsBytes(s7) /\ Holds(s7, Len(s6), p7) /\ Kept(s6, s7)
    <2>1. s7 = s6 \o p7 /\ IsBytes(s6) /\ IsBytes(p7)
        BY <1>2, <1>6, <1>11
    <2> QED BY ONLY <2>1, JoinedTo
<1>13. IsBytes(bytes) /\ Kept(s7, bytes)
    BY <1>3, <1>12, PaddedBytes
<1>14. Kept(s6, bytes)
    BY <1>12, <1>13 DEF Kept
<1>15. Kept(s5, bytes)
    BY <1>11, <1>14 DEF Kept
<1>16. Kept(s4, bytes)
    BY <1>10, <1>15 DEF Kept
<1>17. Kept(s3, bytes)
    BY <1>9, <1>16 DEF Kept
<1>18. Kept(s2, bytes)
    BY <1>8, <1>17 DEF Kept
<1>20. /\ HeaderSize = 1 + HashLength + HashLength + HashLength + 1
       /\ HeaderSize - 1 = 1 + HashLength + HashLength + HashLength
       /\ 1 + 2 * HashLength = 1 + HashLength + HashLength
       /\ HeaderSize \in Nat /\ HeaderSize - 1 \in Nat
       /\ 1 + HashLength \in Nat /\ 1 + HashLength + HashLength \in Nat
    BY <1>h DEF HeaderSize
<1>21. n * HashLength \in Nat /\ HeaderSize + n * HashLength \in Nat
    BY <1>h, <1>20
<1>22. Holds(bytes, 0, p1) /\ Holds(bytes, 1, p2)
    BY <1>4, <1>7, <1>18 DEF Kept
<1>23. Holds(bytes, 1 + HashLength, p3)
    BY <1>4, <1>8, <1>17, <1>20 DEF Kept
<1>24. Holds(bytes, 1 + 2 * HashLength, p4)
    BY <1>4, <1>9, <1>16, <1>20 DEF Kept
<1>25. Holds(bytes, HeaderSize - 1, p5)
    BY <1>4, <1>10, <1>15, <1>20 DEF Kept
<1>26. Holds(bytes, HeaderSize, p6)
    BY <1>5, <1>11, <1>14, <1>20 DEF Kept
<1>27. Holds(bytes, HeaderSize + n * HashLength, p7)
    <2>1. Len(s6) = HeaderSize + n * HashLength
        BY <1>5, <1>11, <1>20
    <2> QED BY <1>6, <1>12, <1>13, <1>21, <2>1 DEF Kept
<1>28. ASSUME NEW i \in 1 .. n
       PROVE  Holds(bytes, HeaderSize + (i - 1) * HashLength, data.elements[i])
    <2>1. PICK m \in Nat : m = i - 1
        OBVIOUS
    <2>2. m * HashLength \in Nat
        BY <1>h
    <2> QED BY <1>5, <1>13, <1>20, <1>26, <2>1, <2>2, HoldsWithin
<1> QED BY <1>1, <1>3, <1>13, <1>22, <1>23, <1>24, <1>25, <1>27, <1>28

-----------------------------------------------------------------------------
(***************************************************************************)
(* The directions, eight to a byte.                                        *)
(***************************************************************************)

\* The byte after b others holds, shifted k times, the direction of place k in its lowest bit.
LEMMA PackedBit ==
    ASSUME NEW n \in Nat, NEW indices \in [1 .. n -> {0, 1}], NEW b \in Nat,
           NEW k \in 0 .. ByteBits - 1, b * ByteBits + k + 1 \in 1 .. n
    PROVE  Remaining(PackedByte(indices, b)[2], 2, ByteBits)[k] % 2
               = indices[b * ByteBits + k + 1]
<1>0. ByteBits \in Nat \ {0}
    BY ProverAssumption
<1>1. PICK first \in Nat : first = b * ByteBits
    BY <1>0
<1>2. (b + 1) * ByteBits = first + ByteBits
    BY <1>0, <1>1
<1> DEFINE Place(bits) == (b + 1) * ByteBits + 1 - bits
           Bit(bits) == IF Place(bits) \in DOMAIN indices THEN indices[Place(bits)] ELSE 0
           step == [bits \in 1 .. ByteBits |-> [x \in Nat |-> 2 * x + Bit(bits)]]
           Horner(f) == f = [bits \in 0 .. ByteBits |->
                                 IF bits = 0 THEN 0 ELSE 2 * f[bits - 1] + Bit(bits)]
           held == CHOOSE f : Horner(f)
<1>3. \A bits \in 1 .. ByteBits : Bit(bits) \in {0, 1}
    <2> TAKE bits \in 1 .. ByteBits
    <2>1. PICK place : place = Place(bits)
        OBVIOUS
    <2> QED BY <2>1
<1>4. PackedByte(indices, b) = Plain(held[ByteBits])
    BY DEF PackedByte
<1> HIDE DEF Bit
<1>5. PICK f : Iterates(f, ByteBits, 0, step, Nat)
    <2>1. step \in [1 .. ByteBits -> [Nat -> Nat]]
        <3>1. \A bits \in 1 .. ByteBits, x \in Nat : 2 * x + Bit(bits) \in Nat
            BY <1>3
        <3> QED BY <3>1
    <2> HIDE DEF step
    <2> QED BY <1>0, <2>1, IterationExists
<1>6. f \in [0 .. ByteBits -> Nat] /\ f[0] = 0
      /\ \A bits \in 1 .. ByteBits : f[bits] = 2 * f[bits - 1] + Bit(bits)
    <2>1. f \in [0 .. ByteBits -> Nat] /\ f[0] = 0
          /\ \A bits \in 1 .. ByteBits : f[bits] = step[bits][f[bits - 1]]
        BY <1>5 DEF Iterates
    <2>2. \A bits \in 1 .. ByteBits : bits - 1 \in 0 .. ByteBits
        BY <1>0
    <2> QED BY <2>1, <2>2
<1>7. Horner(f)
    BY <1>6
<1>8. Horner(held)
    <2> HIDE DEF Horner
    <2> QED BY <1>7
<1> HIDE DEF held
<1>9. held = [bits \in 0 .. ByteBits |-> held[bits]] /\ held[0] = 0
      /\ \A bits \in 1 .. ByteBits : held[bits] = 2 * held[bits - 1] + Bit(bits)
    <2>1. held = [bits \in 0 .. ByteBits |->
                      IF bits = 0 THEN 0 ELSE 2 * held[bits - 1] + Bit(bits)]
        BY <1>8
    <2>2. 0 \in 0 .. ByteBits /\ \A bits \in 1 .. ByteBits : bits \in 0 .. ByteBits /\ bits # 0
        BY <1>0
    <2> HIDE DEF Horner
    <2>3. \A bits \in 0 .. ByteBits :
              held[bits] = IF bits = 0 THEN 0 ELSE 2 * held[bits - 1] + Bit(bits)
        BY <2>1
    <2> QED BY <2>1, <2>2, <2>3
<1>10. held \in [0 .. ByteBits -> Nat]
    <2> DEFINE T == {bits \in Nat : held[bits] \in Nat}
    <2>1. 0 \in T
        BY <1>9
    <2>2. ASSUME NEW bits \in 1 .. ByteBits, bits - 1 \in T PROVE bits \in T
        <3>1. PICK x \in Nat : x = held[bits - 1]
            BY <2>2
        <3>2. held[bits] = 2 * held[bits - 1] + Bit(bits) /\ bits \in Nat
            <4>1. held[bits] = 2 * held[bits - 1] + Bit(bits)
                <5> HIDE DEF T
                <5> QED BY <1>9
            <4>2. bits \in Nat
                BY <1>0
            <4> QED BY <4>1, <4>2
        <3>3. held[bits] \in Nat
            BY <1>3, <3>1, <3>2
        <3> QED BY <3>2, <3>3
    <2>3. 0 .. ByteBits \subseteq T
        <3> HIDE DEF T
        <3> QED BY <1>0, <2>1, <2>2, IntervalInduction
    <2> QED BY <1>9, <2>3
<1>11. PICK value \in Nat : value = held[ByteBits] /\ PackedByte(indices, b)[2] = value
    <2>1. held[ByteBits] \in Nat
        BY <1>0, <1>10
    <2> QED BY <1>4, <2>1 DEF Plain, Byte
<1>12. PICK left : left = Remaining(value, 2, ByteBits) /\ Shifted(left, value, 2, ByteBits)
    BY <1>0, RemainingUnfolds
\* What is left after some shifts is what was held before as many directions.
<1> DEFINE R == {shifts \in Nat : left[shifts] = held[ByteBits - shifts]}
<1>13. \A bits \in 1 .. ByteBits : held[bits] \div 2 = held[bits - 1] /\ held[bits] % 2 = Bit(bits)
    <2> TAKE bits \in 1 .. ByteBits
    <2>1. PICK x \in Nat, bit \in {0, 1} : x = held[bits - 1] /\ bit = Bit(bits)
        <3>1. bits - 1 \in 0 .. ByteBits
            BY <1>0
        <3> QED BY <1>3, <1>10, <3>1
    <2>2. held[bits] = 2 * x + bit
        BY <1>9, <2>1
    <2>3. ((2 * x + bit) \div 2) = x /\ ((2 * x + bit) % 2) = bit
        OBVIOUS
    <2> QED BY <2>1, <2>2, <2>3
<1>14. 0 .. ByteBits \subseteq R
    <2>1. 0 \in R
        BY <1>0, <1>11, <1>12 DEF Shifted
    <2>2. ASSUME NEW shifts \in 1 .. ByteBits, shifts - 1 \in R PROVE shifts \in R
        <3>1. ByteBits - (shifts - 1) \in 1 .. ByteBits /\ shifts \in Nat
              /\ ByteBits - (shifts - 1) - 1 = ByteBits - shifts
            BY <1>0
        <3>2. /\ left[shifts] = left[shifts - 1] \div 2
              /\ left[shifts - 1] = held[ByteBits - (shifts - 1)]
            BY <1>12, <2>2 DEF Shifted
        <3> QED BY <1>13, <3>1, <3>2
    <2> HIDE DEF R
    <2> QED BY <1>0, <2>1, <2>2, IntervalInduction
<1>15. left[k] % 2 = Bit(ByteBits - k)
    <2>1. k \in 0 .. ByteBits /\ ByteBits - k \in 1 .. ByteBits
        BY <1>0
    <2>2. left[k] = held[ByteBits - k]
        BY <1>14, <2>1
    <2> QED BY <1>13, <2>1, <2>2
<1>16. Bit(ByteBits - k) = indices[b * ByteBits + k + 1]
    <2>1. Place(ByteBits - k) = first + k + 1
        BY <1>0, <1>2
    <2> HIDE DEF Place
    <2>2. first + k + 1 \in DOMAIN indices
        BY <1>1
    <2> QED BY <1>1, <2>1, <2>2 DEF Bit
<1> QED BY <1>11, <1>12, <1>15, <1>16

\* Every direction has a byte, and a place in it.
LEMMA PackedPlace ==
    ASSUME NEW n \in Nat, NEW i \in 1 .. n
    PROVE  LET b == (i - 1) \div ByteBits
               k == (i - 1) % ByteBits
           IN  /\ b \in Nat /\ k \in 0 .. ByteBits - 1 /\ b * ByteBits + k + 1 = i
               /\ b + 1 \in 1 .. BytesOf(n)
<1>1. PICK d \in Nat \ {0} : d = ByteBits
    BY ProverAssumption
<1>2. PICK x \in Nat : x = i - 1
    OBVIOUS
<1>3. PICK b \in Nat, k \in 0 .. d - 1 : b = (x \div d) /\ k = (x % d) /\ x = d * b + k
    BY Division
<1>4. PICK y \in Nat : y = n + d - 1
    OBVIOUS
<1>5. PICK q \in Nat, r \in 0 .. d - 1 : q = (y \div d) /\ y = d * q + r
    BY Division
<1>6. d * b + d <= y
    BY <1>2, <1>3, <1>4
<1>7. b + 1 <= q
    <2>1. SUFFICES ASSUME q <= b PROVE FALSE
        OBVIOUS
    <2>2. d * q <= d * b
        BY <2>1
    <2> QED BY <1>5, <1>6, <2>2
<1>8. q = BytesOf(n)
    BY <1>1, <1>4, <1>5 DEF BytesOf
<1>9. b * ByteBits + k + 1 = i
    BY <1>1, <1>2, <1>3
<1> QED BY <1>1, <1>2, <1>3, <1>7, <1>8, <1>9

-----------------------------------------------------------------------------
(***************************************************************************)
(* The proofs that are made, and what they are bound to.                   *)
(***************************************************************************)
IsHash(bytes) == \E preimage : bytes = Sha256(preimage)

\* A path as a caller passes it in, of n elements and directions.
PathOf(inputs, n) ==
    /\ Len(inputs.elements) = n /\ Len(inputs.indices) = n
    /\ inputs.indices \in [1 .. n -> {0, 1}]
    /\ inputs.elements = [i \in 1 .. n |-> inputs.elements[i]]
    /\ \A i \in 1 .. n : IsHash(inputs.elements[i])

LEMMA PathsPassedIn ==
    ASSUME NEW inputs \in PrivateInputs
    PROVE  \E n \in Nat : PathOf(inputs, n)
<1>1. PICK length \in {PathLength - 1, PathLength} :
          /\ inputs.elements = Siblings(length)
          /\ inputs.indices \in [1 .. length -> {0, 1}]
    BY DEF PrivateInputs
<1>2. PICK n \in Nat : 1 .. length = 1 .. n
    <2>1. length \in Int
        BY ProverAssumption
    <2>2. CASE length >= 0
        BY <2>1, <2>2
    <2>3. CASE length < 0
        <3>1. 1 .. length = 1 .. 0
            BY <2>1, <2>3
        <3> QED BY <3>1
    <2> QED BY <2>1, <2>2, <2>3
<1>3. PICK elements, indices : elements = inputs.elements /\ indices = inputs.indices
    OBVIOUS
<1>4. elements = [i \in 1 .. n |-> Sha256(<<Plain(i)>>)]
    BY <1>1, <1>2, <1>3 DEF Siblings
<1>5. indices \in [1 .. n -> {0, 1}]
    BY <1>1, <1>2, <1>3
<1>6. elements = [i \in 1 .. n |-> elements[i]]
    BY <1>4
<1>7. Len(elements) = n /\ Len(indices) = n
    <2>1. indices = [i \in 1 .. n |-> indices[i]]
        BY <1>5
    <2> QED BY <1>6, <2>1, TableIsBytes
<1>8. \A i \in 1 .. n : IsHash(elements[i])
    BY <1>4 DEF IsHash
<1>9. PathOf(inputs, n)
    BY <1>3, <1>5, <1>6, <1>7, <1>8 DEF PathOf
<1> QED BY <1>9

\* The root of a path is a hash, even of an empty one.
LEMMA RootIsHash ==
    ASSUME NEW inputs \in PrivateInputs
    PROVE  IsHash(RootOf(inputs))
<1>1. PICK n \in Nat : PathOf(inputs, n)
    BY PathsPassedIn
<1> DEFINE Above(hash, i) == IF inputs.indices[i] = 1 THEN Sha256(inputs.elements[i] \o hash)
                             ELSE Sha256(hash \o inputs.elements[i])
           leaf == Commitment(inputs.secret, inputs.nullifier, inputs.amount)
           Climbs(f, m) == f = [i \in 0 .. m |-> IF i = 0 THEN leaf ELSE Above(f[i - 1], i)]
           hash == CHOOSE f : Climbs(f, n)
           T == {m \in Nat : \E f : Climbs(f, m)}
<1>2. RootOf(inputs) = hash[n]
    BY <1>1 DEF RootOf, PathOf
<1>3. IsHash(leaf) /\ \A below, i : IsHash(Above(below, i))
    BY DEF IsHash, Commitment
<1> HIDE DEF Above, leaf
<1>4. 0 \in T
    <2>1. Climbs([i \in 0 .. 0 |-> leaf], 0)
        OBVIOUS
    <2> QED BY <2>1
<1>5. ASSUME NEW m \in 1 .. n, m - 1 \in T PROVE m \in T
    <2>1. PICK f : Climbs(f, m - 1)
        BY <1>5
    <2> DEFINE g == [i \in 0 .. m |-> IF i = m THEN Above(f[m - 1], m) ELSE f[i]]
    <2>2. \A i \in 0 .. m - 1 : f[i] = IF i = 0 THEN leaf ELSE Above(f[i - 1], i)
        BY <2>1
    <2>3. \A i \in 0 .. m : g[i] = IF i = 0 THEN leaf ELSE Above(g[i - 1], i)
        <3> TAKE i \in 0 .. m
        <3>1. i # 0 => g[i - 1] = f[i - 1]
            OBVIOUS
        <3>2. g[i] = IF i = 0 THEN leaf ELSE Above(f[i - 1], i)
            <4>1. CASE i = m
                BY <4>1
            <4>2. CASE i # m
                <5>1. i \in 0 .. m - 1 /\ g[i] = f[i]
                    BY <4>2
                <5> QED BY <2>2, <5>1
            <4> QED BY <4>1, <4>2
        <3> HIDE DEF g
        <3> QED BY <3>1, <3>2
    <2>4. Climbs(g, m)
        <3>1. g = [i \in 0 .. m |-> g[i]]
            OBVIOUS
        <3> HIDE DEF g
        <3> QED BY <2>3, <3>1
    <2> HIDE DEF g, Climbs
    <2> QED BY <2>4
<1>6. Climbs(hash, n)
    <2>1. 0 .. n \subseteq T
        <3> HIDE DEF T
        <3> QED BY <1>4, <1>5, IntervalInduction
    <2> HIDE DEF Climbs
    <2>2. \E f : Climbs(f, n)
        BY <2>1
    <2> QED BY <2>2
<1> HIDE DEF hash
<1>7. hash[n] = IF n = 0 THEN leaf ELSE Above(hash[n - 1], n)
    BY <1>6
<1> QED BY <1>2, <1>3, <1>7

LEMMA HashesAreBytes ==
    ASSUME NEW bytes, IsHash(bytes)
    PROVE  IsBytes(bytes) /\ Len(bytes) = HashLength
    BY HashBytes DEF IsHash

\* What lies where in four parts.
LiesIn(whole, a, b, c, d) ==
    /\ Len(whole) = Len(a) + Len(b) + Len(c) + Len(d)
    /\ a = SliceAt(whole, 0, Len(a)) /\ b = SliceAt(whole, Len(a), Len(b))
    /\ c = SliceAt(whole, Len(a) + Len(b), Len(c))
    /\ d = SliceAt(whole, Len(a) + Len(b) + Len(c), Len(d))

LEMMA FourParts ==
    ASSUME NEW a, NEW b, NEW c, NEW d, NEW whole,
           IsBytes(a), IsBytes(b), IsBytes(c), IsBytes(d), whole = a \o b \o c \o d
    PROVE  LiesIn(whole, a, b, c, d)
<1>1. PICK ab, abc : ab = a \o b /\ abc = ab \o c /\ whole = abc \o d
    OBVIOUS
<1>2. /\ IsBytes(ab) /\ Len(ab) = Len(a) + Len(b)
      /\ Holds(ab, 0, a) /\ Holds(ab, Len(a), b)
    BY ONLY <1>1, IsBytes(a), IsBytes(b), JoinedTo
<1>3. /\ IsBytes(abc) /\ Len(abc) = Len(ab) + Len(c)
      /\ Holds(abc, Len(ab), c) /\ Kept(ab, abc)
    BY ONLY <1>1, <1>2, IsBytes(c), JoinedTo
<1>4. /\ IsBytes(whole) /\ Len(whole) = Len(abc) + Len(d)
      /\ Holds(whole, Len(abc), d) /\ Kept(abc, whole)
    BY ONLY <1>1, <1>3, IsBytes(d), JoinedTo
<1>5. Len(a) \in Nat /\ Len(b) \in Nat /\ Len(c) \in Nat /\ Len(d) \in Nat
    BY DEF IsBytes
<1>6. Holds(whole, 0, a) /\ Holds(whole, Len(a), b)
    BY <1>2, <1>3, <1>4, <1>5 DEF Kept
<1>7. Holds(whole, Len(a) + Len(b), c)
    BY <1>2, <1>3, <1>4, <1>5 DEF Kept
<1>8. Holds(whole, Len(a) + Len(b) + Len(c), d)
    BY <1>2, <1>3, <1>4
<1>9. Len(a) + Len(b) \in Nat /\ Len(a) + Len(b) + Len(c) \in Nat
    BY <1>5
<1>10. a = SliceAt(whole, 0, Len(a)) /\ b = SliceAt(whole, Len(a), Len(b))
    BY <1>4, <1>5, <1>6, SliceOfPart
<1>11. c = SliceAt(whole, Len(a) + Len(b), Len(c))
    BY <1>4, <1>7, <1>9, SliceOfPart
<1>12. d = SliceAt(whole, Len(a) + Len(b) + Len(c), Len(d))
    BY <1>4, <1>8, <1>9, SliceOfPart
<1>13. Len(whole) = Len(a) + Len(b) + Len(c) + Len(d)
    BY <1>2, <1>3, <1>4
<1> QED BY <1>10, <1>11, <1>12, <1>13 DEF LiesIn

\* No two pairs of a recipient and a fee give the bytes of one challenge.
LEMMA ChallengeTellsPublic ==
    ASSUME NEW mine \in PrivateInputs, NEW r \in Recipients, NEW fee \in Fees,
           NEW other \in PrivateInputs, NEW s \in Recipients, NEW gee \in Fees,
           ComputeChallenge(PublicFor(mine, r, fee)) = ComputeChallenge(PublicFor(other, s, gee))
    PROVE  PublicFor(mine, r, fee) = PublicFor(other, s, gee)
<1>1. PICK a1, b1, d1, a2, b2, d2 :
        /\ a1 = NullifierHash(mine.nullifier) /\ a2 = NullifierHash(other.nullifier)
        /\ b1 = RootOf(mine) /\ b2 = RootOf(other)
        /\ d1 = Uint128BE(fee) /\ d2 = Uint128BE(gee)
    OBVIOUS
<1>2. PICK whole : whole = a1 \o b1 \o r \o d1
    OBVIOUS
<1>3. whole = a2 \o b2 \o s \o d2
    <2>1. Sha256(a1 \o b1 \o r \o d1) = Sha256(a2 \o b2 \o s \o d2)
        BY <1>1 DEF ComputeChallenge, PublicFor, FeeBytes
    <2> QED BY <1>2, <2>1, HashTellsInput
<1>4. /\ IsBytes(a1) /\ IsBytes(a2) /\ IsBytes(b1) /\ IsBytes(b2)
      /\ Len(a1) = HashLength /\ Len(a2) = HashLength
      /\ Len(b1) = HashLength /\ Len(b2) = HashLength
    BY <1>1, RootIsHash, HashesAreBytes, HashBytes DEF NullifierHash
<1>5. IsBytes(d1) /\ IsBytes(d2) /\ Len(d1) = FeeLength /\ Len(d2) = FeeLength
    BY <1>1, BigEndianBytes, SdkBytesAssumption DEF Uint128BE
<1>6. IsBytes(r) /\ IsBytes(s)
    BY ProverAssumption DEF IsBytes
<1>7. LiesIn(whole, a1, b1, r, d1)
    BY <1>2, <1>4, <1>5, <1>6, FourParts
<1>8. LiesIn(whole, a2, b2, s, d2)
    BY <1>3, <1>4, <1>5, <1>6, FourParts
<1>9. Len(r) = Len(s)
    <2>1. Len(r) \in Nat /\ Len(s) \in Nat /\ HashLength \in Nat /\ FeeLength \in Nat
        BY <1>6, SdkBytesAssumption DEF IsBytes
    <2> QED BY <1>4, <1>5, <1>7, <1>8, <2>1 DEF LiesIn
<1>10. a1 = a2 /\ b1 = b2 /\ r = s /\ d1 = d2
    BY <1>4, <1>5, <1>7, <1>8, <1>9 DEF LiesIn
<1>11. fee = gee
    <2>1. IsUint(fee) /\ IsUint(gee)
        BY ProverAssumption
    <2> QED BY <1>1, <1>10, <2>1, BytesTellUint
<1> QED BY <1>1, <1>10, <1>11 DEF PublicFor

-----------------------------------------------------------------------------
\* A hash-based proof reads back as what it was made from.
LEMMA HashBasedReadsBack ==
    ASSUME NEW inputs \in PrivateInputs, NEW public
    PROVE  LET data == DeserializeProof(HashBasedProof(inputs, public))
           IN  /\ data.nullifierHash = NullifierHash(inputs.nullifier)
               /\ data.challengeHash = ComputeChallenge(public)
               /\ data.responseHash # Zeros(HashLength)
               /\ data.elements = inputs.elements /\ data.indices = inputs.indices
<1>1. PICK n \in Nat : PathOf(inputs, n)
    BY PathsPassedIn
<1>2. PICK data, answered :
        /\ data = [nullifierHash |-> NullifierHash(inputs.nullifier),
                   challengeHash |-> ComputeChallenge(public),
                   responseHash |-> Sha256(answered),
                   elements |-> inputs.elements, indices |-> inputs.indices]
        /\ HashBasedProof(inputs, public) = SerializeProof(data)
    BY DEF HashBasedProof
<1>3. /\ IsBytes(data.nullifierHash) /\ Len(data.nullifierHash) = HashLength
      /\ IsBytes(data.challengeHash) /\ Len(data.challengeHash) = HashLength
      /\ IsBytes(data.responseHash) /\ Len(data.responseHash) = HashLength
    BY <1>2, HashBytes DEF NullifierHash, ComputeChallenge
<1>4. /\ n = Len(data.elements) /\ Len(data.indices) = n
      /\ data.elements = [i \in 1 .. n |-> data.elements[i]]
      /\ \A i \in 1 .. n : IsBytes(data.elements[i]) /\ Len(data.elements[i]) = HashLength
    BY <1>1, <1>2, HashesAreBytes DEF PathOf
<1>5. PICK bytes : bytes = SerializeProof(data)
    OBVIOUS
<1>6. /\ IsBytes(bytes)
      /\ Holds(bytes, 1, data.nullifierHash) /\ Holds(bytes, 1 + HashLength, data.challengeHash)
      /\ Holds(bytes, 1 + 2 * HashLength, data.responseHash)
      /\ Holds(bytes, HeaderSize - 1, <<Plain(n)>>)
      /\ \A i \in 1 .. n : Holds(bytes, HeaderSize + (i - 1) * HashLength, data.elements[i])
      /\ Holds(bytes, HeaderSize + n * HashLength, PackedIndices(data.indices))
    BY <1>3, <1>4, <1>5, ProofLayout
<1>7. HashLength \in Nat /\ 1 + HashLength \in Nat /\ 1 + 2 * HashLength \in Nat
      /\ HeaderSize \in Nat
    BY SdkBytesAssumption DEF HeaderSize
<1>8. PathLengthOf(bytes) = n
    <2>1. bytes[HeaderSize - 1 + 1] = Plain(n)
        BY <1>6 DEF Holds
    <2>2. HeaderSize - 1 + 1 = HeaderSize
        BY <1>7
    <2> QED BY <2>1, <2>2 DEF PathLengthOf, Plain, Byte
<1>9. /\ SliceAt(bytes, 1, HashLength) = data.nullifierHash
      /\ SliceAt(bytes, 1 + HashLength, HashLength) = data.challengeHash
      /\ SliceAt(bytes, 1 + 2 * HashLength, HashLength) = data.responseHash
    BY <1>3, <1>6, <1>7, SliceOfPart
<1>10. [i \in 1 .. n |-> SliceAt(bytes, HeaderSize + (i - 1) * HashLength, HashLength)]
           = data.elements
    <2>1. ASSUME NEW i \in 1 .. n
          PROVE  SliceAt(bytes, HeaderSize + (i - 1) * HashLength, HashLength) = data.elements[i]
        <3>1. PICK m \in Nat : m = i - 1
            OBVIOUS
        <3>2. HeaderSize + m * HashLength \in Nat
            BY <1>7
        <3>3. PICK part : part = data.elements[i]
            OBVIOUS
        <3>4. IsBytes(part) /\ Len(part) = HashLength
              /\ Holds(bytes, HeaderSize + m * HashLength, part)
            BY <1>4, <1>6, <3>1, <3>3
        <3> QED BY <1>6, <3>1, <3>2, <3>3, <3>4, SliceOfPart
    <2> QED BY <1>4, <2>1
<1> DEFINE Bit(i) == Remaining(bytes[HeaderSize + n * HashLength + 1
                                     + (i - 1) \div ByteBits][2], 2, ByteBits)
                         [(i - 1) % ByteBits] % 2
<1>11. ASSUME NEW i \in 1 .. n PROVE Bit(i) = inputs.indices[i]
    <2>1. PICK b \in Nat, k \in 0 .. ByteBits - 1 :
            /\ b = (i - 1) \div ByteBits /\ k = (i - 1) % ByteBits
            /\ b * ByteBits + k + 1 = i /\ b + 1 \in 1 .. BytesOf(n)
        BY PackedPlace
    <2>2. PICK packed : packed = PackedIndices(data.indices)
        OBVIOUS
    <2>3. Len(packed) = BytesOf(n) /\ packed[b + 1] = PackedByte(inputs.indices, b)
        <3>1. Len(packed) = BytesOf(n)
            BY <1>4, <2>2, PackedBytes
        <3>2. data.indices = inputs.indices
            BY <1>2
        <3>3. packed[b + 1] = PackedByte(data.indices, b + 1 - 1)
            BY <1>4, <2>1, <2>2 DEF PackedIndices
        <3>4. b + 1 - 1 = b
            OBVIOUS
        <3> QED BY <3>1, <3>2, <3>3, <3>4
    <2>4. bytes[HeaderSize + n * HashLength + (b + 1)] = PackedByte(inputs.indices, b)
        BY <1>6, <2>1, <2>2, <2>3 DEF Holds
    <2>5. PICK start \in Nat : start = HeaderSize + n * HashLength
        BY <1>7
    <2>6. start + (b + 1) = start + 1 + b
        OBVIOUS
    <2>7. Remaining(PackedByte(inputs.indices, b)[2], 2, ByteBits)[k] % 2
              = inputs.indices[b * ByteBits + k + 1]
        BY <1>1, <2>1, PackedBit DEF PathOf
    <2> QED BY <2>1, <2>4, <2>5, <2>6, <2>7
<1>12. [i \in 1 .. n |-> Bit(i)] = inputs.indices
    <2> HIDE DEF Bit
    <2>1. PICK indices \in [1 .. n -> {0, 1}] : indices = inputs.indices
        BY <1>1 DEF PathOf
    <2> QED BY <1>11, <2>1
<1>13. DeserializeProof(bytes) =
           [nullifierHash |-> data.nullifierHash, challengeHash |-> data.challengeHash,
            responseHash |-> data.responseHash, elements |-> data.elements,
            indices |-> inputs.indices]
    BY <1>8, <1>9, <1>10, <1>12 DEF DeserializeProof
<1>14. data.responseHash # Zeros(HashLength)
    <2>1. 1 \in 1 .. HashLength
        BY SdkBytesAssumption
    <2>2. Sha256(answered)[1] = Byte(answered, 1) /\ Zeros(HashLength)[1] = Byte(<<>>, 0)
        BY <2>1 DEF Sha256, Zeros, Plain
    <2> QED BY <1>2, <2>2 DEF Byte
<1> QED BY <1>2, <1>5, <1>13, <1>14

\* A proof of the other backend is no hash-based one.
LEMMA StarkIsOther ==
    ASSUME NEW raw, IsBytes(raw)
    PROVE  ~Deserializes(SerializeForClarity(raw))
<1>1. PICK a, b, ab, whole : /\ a = <<Plain(2)>> /\ b = BigEndian(Len(raw), 4)
                             /\ ab = a \o b /\ whole = ab \o raw
    OBVIOUS
<1>2. IsBytes(a) /\ Len(a) = 1 /\ IsBytes(b)
    <2>1. <<Plain(2)>> \in Seq({Plain(2)})
        OBVIOUS
    <2> QED BY <1>1, <2>1, BigEndianBytes DEF IsBytes
<1>3. IsBytes(ab) /\ Holds(ab, 0, a)
    <2>1. ab = a \o b
        BY <1>1
    <2> QED BY ONLY <1>2, <2>1, JoinedTo
<1>4. IsBytes(whole) /\ Holds(whole, 0, a)
    <2>1. IsBytes(whole) /\ Kept(ab, whole)
        BY <1>1, <1>3, JoinedTo
    <2> QED BY <1>2, <1>3, <2>1 DEF Kept
<1>5. Holds(Padded(whole), 0, a)
    BY <1>2, <1>4, PaddedBytes DEF Kept
<1>6. Padded(whole)[1] = Plain(2)
    BY <1>1, <1>2, <1>5 DEF Holds
<1>7. SerializeForClarity(raw) = Padded(whole)
    BY <1>1 DEF SerializeForClarity
<1> QED BY <1>6, <1>7 DEF Deserializes, Plain, Byte

\* A proof that was made of a witness, by either backend.
MadeOf(proof, inputs, public) ==
    /\ WitnessExists(inputs, public)
    /\ proof.inputs = inputs /\ proof.public = public
    /\ \/ proof.bytes = HashBasedProof(inputs, public)
       \/ \E length \in RawLengths :
              proof.bytes = SerializeForClarity(RawProof(inputs, public, length))

ProofsMade ==
    \A proof \in proofs :
        \E inputs, other \in PrivateInputs, recipient \in Recipients, fee \in Fees :
            MadeOf(proof, inputs, PublicFor(other, recipient, fee))

LEMMA ProofsMadeKept == ProofsMade /\ [ProverNext]_proverVars => ProofsMade'
<1> SUFFICES ASSUME ProofsMade, [ProverNext]_proverVars PROVE ProofsMade'
    OBVIOUS
<1>1. CASE GenerateWithdrawalProof
    <2>1. PICK inputs \in PrivateInputs, other \in PrivateInputs,
               recipient \in Recipients, fee \in Fees :
            \E proof : /\ proofs' = proofs \cup {proof}
                       /\ MadeOf(proof, inputs, PublicFor(other, recipient, fee))
        <3>1. PICK inputs \in PrivateInputs, other \in PrivateInputs,
                   recipient \in Recipients, fee \in Fees : \E public, bytes :
                /\ public = PublicFor(other, recipient, fee) /\ WitnessExists(inputs, public)
                /\ proofs' = proofs \cup {[bytes |-> bytes, inputs |-> inputs, public |-> public]}
                /\ \/ bytes = HashBasedProof(inputs, public)
                   \/ \E length \in RawLengths :
                          bytes = SerializeForClarity(RawProof(inputs, public, length))
            BY <1>1 DEF GenerateWithdrawalProof
        <3>2. PICK public, bytes :
                /\ public = PublicFor(other, recipient, fee) /\ WitnessExists(inputs, public)
                /\ proofs' = proofs \cup {[bytes |-> bytes, inputs |-> inputs, public |-> public]}
                /\ \/ bytes = HashBasedProof(inputs, public)
                   \/ \E length \in RawLengths :
                          bytes = SerializeForClarity(RawProof(inputs, public, length))
            BY <3>1
        <3>3. MadeOf([bytes |-> bytes, inputs |-> inputs, public |-> public], inputs, public)
            BY <3>2 DEF MadeOf
        <3> QED BY <3>2, <3>3
    <2> QED BY <2>1 DEF ProofsMade
<1>2. CASE proofs' = proofs
    BY <1>2 DEF ProofsMade
<1> QED BY <1>1, <1>2 DEF ProverNext, proverVars, LoadCalled, LoadEnds, SetWasmProver,
                         ResetWasmLoader

LEMMA MadeIsBound ==
    ASSUME NEW proof, NEW inputs \in PrivateInputs, NEW other \in PrivateInputs,
           NEW recipient \in Recipients, NEW fee \in Fees,
           MadeOf(proof, inputs, PublicFor(other, recipient, fee))
    PROVE  /\ \A given \in PrivateInputs, r \in Recipients, g \in Fees :
                  VerifyProofLocally(proof.bytes, PublicFor(given, r, g)) <=>
                      Deserializes(proof.bytes) /\ PublicFor(given, r, g) = proof.public
           /\ Deserializes(proof.bytes) =>
                  LET data == DeserializeProof(proof.bytes)
                  IN  /\ data.elements = proof.inputs.elements
                      /\ data.indices = proof.inputs.indices
<1>1. PICK public : public = PublicFor(other, recipient, fee) /\ proof.public = public
    BY DEF MadeOf
<1>2. CASE proof.bytes = HashBasedProof(inputs, public)
    <2>1. PICK data : data = DeserializeProof(proof.bytes)
        OBVIOUS
    <2>2. /\ data.nullifierHash = NullifierHash(inputs.nullifier)
          /\ data.challengeHash = ComputeChallenge(public)
          /\ data.responseHash # Zeros(HashLength)
          /\ data.elements = inputs.elements /\ data.indices = inputs.indices
        BY <1>2, <2>1, HashBasedReadsBack
    <2>3. /\ NullifierHash(inputs.nullifier) = public.nullifierHash
          /\ Len(inputs.elements) = PathLength /\ proof.inputs = inputs
        BY <1>1 DEF MadeOf, WitnessExists, PrivateValid
    <2>4. ASSUME NEW given \in PrivateInputs, NEW r \in Recipients, NEW g \in Fees
          PROVE  VerifyProofLocally(proof.bytes, PublicFor(given, r, g)) <=>
                     Deserializes(proof.bytes) /\ PublicFor(given, r, g) = public
        <3>1. PICK claimed : claimed = PublicFor(given, r, g)
            OBVIOUS
        <3>2. ComputeChallenge(public) = ComputeChallenge(claimed) => claimed = public
            BY <1>1, <3>1, ChallengeTellsPublic
        <3>3. VerifyProofLocally(proof.bytes, claimed) <=>
                  Deserializes(proof.bytes) /\ claimed = public
            BY <2>1, <2>2, <2>3, <3>2 DEF VerifyProofLocally
        <3> QED BY <3>1, <3>3
    <2> QED BY <1>1, <2>1, <2>2, <2>3, <2>4
<1>3. CASE \E length \in RawLengths :
               proof.bytes = SerializeForClarity(RawProof(inputs, public, length))
    <2>1. PICK length \in RawLengths :
              proof.bytes = SerializeForClarity(RawProof(inputs, public, length))
        BY <1>3
    <2>2. IsBytes(RawProof(inputs, public, length))
        <3>1. PICK raw : raw = RawProof(inputs, public, length)
            OBVIOUS
        <3>2. raw = [i \in 1 .. length |-> raw[i]] /\ length \in Nat
            BY <3>1, ProverAssumption DEF RawProof
        <3> QED BY <3>1, <3>2, TableIsBytes
    <2>3. ~Deserializes(proof.bytes)
        BY <2>1, <2>2, StarkIsOther
    <2> QED BY <2>3 DEF VerifyProofLocally
<1> QED BY <1>1, <1>2, <1>3 DEF MadeOf

\* A proof verifies with its own public inputs and no other, and reads back as its path,
\* for any lengths of hashes, uints, paths and proofs and any recipients and fees that fit.
THEOREM ProofsStayBound == ProverSpec => []BoundToInputs
<1>1. ProverInit => ProofsMade
    BY DEF ProverInit, ProofsMade
<1>2. ProofsMade => BoundToInputs
    BY MadeIsBound DEF ProofsMade, BoundToInputs
<1> QED BY <1>1, <1>2, ProofsMadeKept, PTL DEF ProverSpec

-----------------------------------------------------------------------------
(***************************************************************************)
(* The hooks of the app.                                                   *)
(***************************************************************************)
WalletTyped ==
    /\ wallet \in [Views -> WalletState]
    /\ connects \in [Views -> [Clicks -> 0 .. Providers + 1]]

\* A view that is connecting has a call that waits for the picker or a wallet.
ConnectingWaits ==
    \A v \in Views : wallet[v].isConnecting => \E c \in Clicks : connects[v][c] # 0

WalletInv == WalletTyped /\ ConnectingWaits

\* A call of a view ends and takes the view out of connecting, or goes on to the next
\* wallet; other views are as they were.
LEMMA WalletInvCall ==
    ASSUME WalletInv, NEW v \in Views, NEW c \in Clicks, connects[v][c] # 0,
           CallEnds(v, c, Connected) \/ AskNextWallet(v, c)
    PROVE  WalletInv'
<1>1. CASE \E state \in WalletState : CallEnds(v, c, state) /\ ~state.isConnecting
    <2>1. PICK state \in WalletState : CallEnds(v, c, state) /\ ~state.isConnecting
        BY <1>1
    <2>2. WalletTyped'
        BY <2>1, WalletAssumption DEF CallEnds, WalletInv, WalletTyped
    <2>3. ConnectingWaits'
        BY <2>1 DEF CallEnds, WalletInv, WalletTyped, ConnectingWaits
    <2> QED BY <2>2, <2>3 DEF WalletInv
<1>2. CASE connects[v][c] <= Providers /\ AskNextWallet(v, c)
    <2>1. connects' = [connects EXCEPT ![v][c] = @ + 1] /\ wallet' = wallet
        BY <1>2 DEF AskNextWallet
    <2>2. connects[v][c] + 1 \in 1 .. Providers + 1
        BY <1>2, WalletAssumption DEF WalletInv, WalletTyped
    <2>3. WalletTyped'
        BY <2>1, <2>2, WalletAssumption DEF WalletInv, WalletTyped
    <2>4. ConnectingWaits'
        BY <2>1, <2>2 DEF WalletInv, WalletTyped, ConnectingWaits
    <2> QED BY <2>3, <2>4 DEF WalletInv
<1>3. Connected \in WalletState /\ ~Connected.isConnecting
    BY DEF Connected, WalletState
<1>4. Failed(wallet[v]) \in WalletState /\ ~Failed(wallet[v]).isConnecting
    BY DEF Failed, WalletState, WalletInv, WalletTyped
<1> QED BY <1>1, <1>2, <1>3, <1>4 DEF AskNextWallet

LEMMA WalletInvInit == WalletInit => WalletInv
BY WalletAssumption
DEF WalletInit, WalletInv, WalletTyped, ConnectingWaits, Mounted, Connected, Disconnected,
    WalletState

LEMMA WalletInvNext == WalletInv /\ [WalletNext]_walletVars => WalletInv'
<1> SUFFICES ASSUME WalletInv, [WalletNext]_walletVars PROVE WalletInv'
    OBVIOUS
<1> USE WalletAssumption
<1>1. CASE LateAnswer \/ UNCHANGED walletVars
    BY <1>1 DEF LateAnswer, walletVars, WalletInv, WalletTyped, ConnectingWaits
<1>2. ASSUME NEW v \in Views, NEW state \in WalletState, ~state.isConnecting,
             wallet' = [wallet EXCEPT ![v] = state],
             connects' = connects \/ connects' = [connects EXCEPT ![v] = [c \in Clicks |-> 0]]
      PROVE  WalletInv'
    BY <1>2 DEF WalletInv, WalletTyped, ConnectingWaits
<1>3. Connected \in WalletState /\ ~Connected.isConnecting
      /\ Disconnected \in WalletState /\ ~Disconnected.isConnecting
    BY DEF Connected, Disconnected, WalletState
<1>4. ASSUME NEW v \in Views, Remounts(v) \/ Disconnect(v)
      PROVE  WalletInv'
    BY <1>2, <1>3, <1>4 DEF Remounts, Disconnect, Mounted
<1>5. ASSUME NEW v \in Views, ClearError(v)
      PROVE  WalletInv'
    BY <1>5 DEF ClearError, WalletInv, WalletTyped, WalletState, ConnectingWaits
<1>6. ASSUME NEW v \in Views, NEW c \in Clicks, Connect(v, c)
      PROVE  WalletInv'
    <2>1. CASE stored
        BY <1>2, <1>3, <1>6, <2>1 DEF Connect
    <2>2. CASE ~stored
        <3>1. /\ connects[v][c] = 0
              /\ wallet' = [wallet EXCEPT ![v].isConnecting = TRUE, ![v].error = FALSE]
              /\ connects' = [connects EXCEPT ![v][c] = 1]
            BY <1>6, <2>2 DEF Connect
        <3>2. \A w \in Views : w # v => wallet'[w] = wallet[w] /\ connects'[w] = connects[w]
            BY <3>1 DEF WalletInv, WalletTyped
        <3>3. connects' \in [Views -> [Clicks -> 0 .. Providers + 1]] /\ connects'[v][c] = 1
            BY <3>1 DEF WalletInv, WalletTyped
        <3>4. wallet' \in [Views -> WalletState]
            <4>1. [wallet[v] EXCEPT !.isConnecting = TRUE] \in WalletState
                BY DEF WalletInv, WalletTyped, WalletState
            <4>2. wallet'[v] = [[wallet[v] EXCEPT !.isConnecting = TRUE] EXCEPT !.error = FALSE]
                BY <3>1 DEF WalletInv, WalletTyped
            <4>3. wallet'[v] \in WalletState
                BY <4>1, <4>2 DEF WalletState
            <4> QED BY <3>1, <4>3 DEF WalletInv, WalletTyped
        <3> QED BY <3>2, <3>3, <3>4 DEF WalletInv, WalletTyped, ConnectingWaits
    <2> QED BY <2>1, <2>2
<1>7. ASSUME NEW v \in Views, NEW c \in Clicks,
             \/ WalletAnswers(v, c) \/ WalletRefuses(v, c)
             \/ AnswerLacksAddress(v, c) \/ WalletTimesOut(v, c)
      PROVE  WalletInv'
    BY <1>7, WalletInvCall
    DEF WalletAnswers, WalletRefuses, AnswerLacksAddress, WalletTimesOut
<1> QED BY <1>1, <1>4, <1>5, <1>6, <1>7 DEF WalletNext

\* The connect button is never disabled for nothing: for any number of views, wallets and
\* overlapping calls, no end of one call, disconnect, late answer or remount leaves a view
\* connecting with no call under way, whose timeouts will end it.
THEOREM ButtonNeverStuck == WalletSpec => []ConnectingWaits
<1>1. WalletInv => ConnectingWaits
    BY DEF WalletInv
<1> QED BY <1>1, WalletInvInit, WalletInvNext, PTL DEF WalletSpec

-----------------------------------------------------------------------------
\* A note of the open form is pending only while the form waits for its request.
PendingAwaited ==
    \A note \in DOMAIN formNotes : formNotes[note] = "pending" => note = depositing

\* No note has the number that stands for none, or one not drawn yet.
NotesDrawn == drawn \in Nat /\ DOMAIN formNotes \subseteq 1 .. drawn

FormInv == NotesDrawn /\ PendingAwaited

LEMMA FormInvNext == FormInv /\ [DashboardNext]_dashboardVars => FormInv'
<1> SUFFICES ASSUME FormInv, [DashboardNext]_dashboardVars PROVE FormInv'
    OBVIOUS
<1>1. CASE SwitchTab
    <2>1. formNotes' = <<>> /\ drawn' = drawn
        BY <1>1 DEF SwitchTab
    <2> QED BY <2>1 DEF FormInv, NotesDrawn, PendingAwaited
<1>2. CASE Deposit
    <2>1. /\ depositing = 0 /\ drawn' = drawn + 1 /\ depositing' = drawn'
          /\ formNotes' = With(formNotes, drawn', "pending")
        BY <1>2 DEF Deposit
    <2>2. DOMAIN formNotes' = DOMAIN formNotes \cup {drawn'}
        BY <2>1 DEF With
    <2>3. \A note \in DOMAIN formNotes : note # 0 /\ formNotes'[note] = formNotes[note]
        BY <2>1 DEF With, FormInv, NotesDrawn
    <2> QED BY <2>1, <2>2, <2>3 DEF FormInv, NotesDrawn, PendingAwaited
<1>3. CASE DepositEnds
    BY <1>3 DEF DepositEnds, FormInv, NotesDrawn, PendingAwaited
<1>4. CASE UNCHANGED <<formNotes, depositing, drawn>>
    BY <1>4 DEF FormInv, NotesDrawn, PendingAwaited
<1> QED
    BY <1>1, <1>2, <1>3, <1>4
    DEF DashboardNext, Withdraw, CheckStatus, CheckAnswered, CheckFails, RelayerChanges,
        dashboardVars, hookVars

\* Whatever tabs are opened meanwhile and whenever the relayer goes, a note that the open
\* form shows as pending is one whose request is still awaited.
THEOREM PendingNotesAwaited == DashboardSpec => []PendingAwaited
<1>1. DashboardInit => FormInv
    BY DEF DashboardInit, FormInv, NotesDrawn, PendingAwaited
<1>2. FormInv => PendingAwaited
    BY DEF FormInv
<1> QED BY <1>1, <1>2, FormInvNext, PTL DEF DashboardSpec
=============================================================================
