------------------------------- MODULE Backup -------------------------------
(* The backup store (packages/backup, apps/api/src/backup, the worker's     *)
(* backup.create).  The API creates, deletes and restores backups, the      *)
(* worker creates them from jobs, under one lock file; but the lock does    *)
(* not keep either process's other components from writing their section    *)
(* of runtime-data meanwhile.  A section is what its directory holds.       *)
EXTENDS Naturals

CONSTANTS Section, Content,
          Inventory,     \* the section that is validated before a restore
          Sound,         \* the contents that pass
          BackupId,
          None

BackupProcess == {"api", "worker"}
Archive == [sections : SUBSET Section, entries : [Section -> Content \cup {None}]]

ASSUME BackupAssumption ==
    /\ Inventory \in Section
    /\ None \notin Content /\ None \notin Archive
    /\ \A ids \in SUBSET BackupId : ids # None

VARIABLES section,  \* what each section's directory holds; None: no directory
          records,  \* the backups in the state file, or None: missing or cut off
          archive,  \* the archive of each backup, or None
          locked,   \* is there a lock file?
          proc,     \* the store's call of each process
          returned, \* history: backups whose creation was answered
          removed,  \* history: backups whose deletion began
          cut,      \* history: those of them it ended at the archive
          lost      \* history: was a state file cut off?

backupHistory == <<returned, removed, cut, lost>>
backupVars == <<section, records, archive, locked, proc, backupHistory>>

Holding == {"collecting", "removing", "saving", "clearing", "writing", "undoing",
            "persisting", "releasing"}

BackupTypeOK ==
    /\ section \in [Section -> Content \cup {None}]
    /\ records \in (SUBSET BackupId) \cup {None}
    /\ archive \in [BackupId -> Archive \cup {None}]
    /\ locked \in BOOLEAN
    /\ proc \in [BackupProcess ->
          [at : {"idle"} \cup Holding, op : {"create", "delete", "restore"},
           backup : BackupId \cup {None},
           sections : SUBSET Section, left : SUBSET Section,
           got : [Section -> Content \cup {None}],
           next : SUBSET BackupId,
           outcome : {"none", "done", "thrown", "undone", "ruined"},
           before : [Section -> Content \cup {None}], touched : SUBSET Section]]
    /\ returned \in SUBSET BackupId /\ removed \in SUBSET BackupId
    /\ cut \in SUBSET BackupId /\ lost \in BOOLEAN

-----------------------------------------------------------------------------
Nothing == [s \in Section |-> None]

NoCall == [at |-> "idle", op |-> "create", backup |-> None, sections |-> {}, left |-> {},
           got |-> Nothing, next |-> {}, outcome |-> "none", before |-> Nothing, touched |-> {}]

(* loadState takes a file it cannot parse for an empty store. *)
Listed == IF records = None THEN {} ELSE records

(* withLockedState: a call that does not get the lock in its twenty tries   *)
(* throws and changes nothing; with it, it loads the state.  next is what   *)
(* it will write, got what it has read of the sections.                     *)
Enter(p, op, at, b, S) ==
    /\ proc[p].at = "idle" /\ ~ locked
    /\ locked' = TRUE
    /\ proc' = [proc EXCEPT ![p] = [NoCall EXCEPT
          !.at = at, !.op = op, !.backup = b, !.sections = S, !.left = S,
          !.next = Listed, !.before = section]]
    /\ UNCHANGED <<section, records, archive, backupHistory>>

(* The call's next stage, and the sections it is about. *)
Goto(p, at, S) == proc' = [proc EXCEPT ![p].at = at, ![p].left = S]

Ends(p, outcome) == proc' = [proc EXCEPT ![p].at = "releasing", ![p].outcome = outcome]

(* validateBackupRequest: full is every section, partial those that exist   *)
(* of the ones asked for.                                                   *)
ValidRequest(S) == S # {}

(* createBackup up to its callback, with an id of no other backup. *)
CreateBackup(p, b, S) ==
    /\ ValidRequest(S)
    /\ b \notin Listed /\ archive[b] = None
    /\ \A q \in BackupProcess : proc[q].backup # b
    /\ b \notin removed \cup returned
    /\ Enter(p, "create", "collecting", b, S)

Create(b, S) == CreateBackup("api", b, S)

CreateFromJob(b, S) == CreateBackup("worker", b, S)

(* The sections are read one after the other. *)
Collect(p, s) ==
    /\ proc[p].at = "collecting" /\ s \in proc[p].left
    /\ proc' = [proc EXCEPT ![p].got[s] = section[s], ![p].left = @ \ {s}]
    /\ UNCHANGED <<section, records, archive, locked, backupHistory>>

(* The archive, and then the record; and a creation whose record is all     *)
(* that gets written.                                                       *)
WriteRecordOnly(p) ==
    /\ proc[p].at = "collecting" /\ proc[p].left = {}
    /\ proc' = [proc EXCEPT ![p].at = "persisting", ![p].next = @ \cup {proc[p].backup}]
    /\ UNCHANGED <<section, records, archive, locked, backupHistory>>

WriteArchive(p) ==
    /\ proc[p].at = "collecting" /\ proc[p].left = {}
    /\ archive' = [archive EXCEPT ![proc[p].backup] =
                      [sections |-> proc[p].sections, entries |-> proc[p].got]]
    /\ proc' = [proc EXCEPT ![p].at = "persisting", ![p].next = @ \cup {proc[p].backup}]
    /\ UNCHANGED <<section, records, locked, backupHistory>>

(* deleteBackup: a backup that is not listed leaves the state as it is. *)
Delete(b) ==
    Enter("api", "delete", IF b \in Listed THEN "removing" ELSE "persisting", b, {})

RemoveArchive(p) ==
    LET b == proc[p].backup IN
    /\ proc[p].at = "removing"
    /\ archive' = [archive EXCEPT ![b] = None]
    /\ proc' = [proc EXCEPT ![p].at = "persisting", ![p].next = @ \ {b}]
    /\ removed' = removed \cup {b}
    /\ UNCHANGED <<section, records, locked, returned, cut, lost>>

(* loadInventoryValidation: an archive without an inventory is as good. *)
Previewed(b) == archive[b].entries[Inventory] \in Sound \cup {None}

(* restoreBackup: readArchive and validateRestore, and the first again      *)
(* under the lock, with nobody to delete the archive in between.            *)
Restorable(b) == b \in Listed /\ archive[b] # None /\ Previewed(b)

Restore(b) ==
    /\ Restorable(b)
    /\ Enter("api", "restore", "saving", b, archive[b].sections)

(* Every section is copied, all are removed, the archive's are written. *)
SaveSection(p, s) ==
    LET left == proc[p].left \ {s} IN
    /\ proc[p].at = "saving" /\ s \in proc[p].left
    /\ proc' = [proc EXCEPT
          ![p].got[s] = section[s],
          ![p].at = IF left = {} THEN "clearing" ELSE "saving",
          ![p].left = IF left = {} THEN proc[p].sections ELSE left]
    /\ UNCHANGED <<section, records, archive, locked, backupHistory>>

Written(b) == {s \in archive[b].sections : archive[b].entries[s] # None}

ClearSection(p, s) ==
    LET left == proc[p].left \ {s} IN
    /\ proc[p].at = "clearing" /\ s \in proc[p].left
    /\ section' = [section EXCEPT ![s] = None]
    /\ IF left = {} THEN Goto(p, "writing", Written(proc[p].backup)) ELSE Goto(p, "clearing", left)
    /\ UNCHANGED <<records, archive, locked, backupHistory>>

WriteSection(p, s) ==
    /\ proc[p].at = "writing" /\ s \in proc[p].left
    /\ section' = [section EXCEPT ![s] = archive[proc[p].backup].entries[s]]
    /\ Goto(p, "writing", proc[p].left \ {s})
    /\ UNCHANGED <<records, archive, locked, backupHistory>>

Restored(p) ==
    /\ proc[p].at = "writing" /\ proc[p].left = {}
    /\ Goto(p, "persisting", {})
    /\ UNCHANGED <<section, records, archive, locked, backupHistory>>

(* A removal or a write throws: every section is put back as it was copied; *)
(* or it is not.                                                            *)
GiveUp(p) ==
    /\ proc[p].at \in {"clearing", "writing"}
    /\ Ends(p, "undone")
    /\ UNCHANGED <<section, records, archive, locked, backupHistory>>

Undo(p) ==
    /\ proc[p].at \in {"clearing", "writing"}
    /\ Goto(p, "undoing", proc[p].sections)
    /\ UNCHANGED <<section, records, archive, locked, backupHistory>>

UndoSection(p, s) ==
    /\ proc[p].at = "undoing" /\ s \in proc[p].left
    /\ section' = [section EXCEPT ![s] = proc[p].got[s]]
    /\ IF proc[p].left = {s} THEN Ends(p, "undone") ELSE Goto(p, "undoing", proc[p].left \ {s})
    /\ UNCHANGED <<records, archive, locked, backupHistory>>

(* A throw in the catch: the rollback copy is removed all the same. *)
UndoFails(p) ==
    /\ proc[p].at = "undoing"
    /\ \E s \in proc[p].left, gone \in BOOLEAN :
          section' = IF gone THEN [section EXCEPT ![s] = None] ELSE section
    /\ Ends(p, "ruined")
    /\ UNCHANGED <<records, archive, locked, backupHistory>>

CutsDeletion(p) == proc[p].op = "delete" /\ proc[p].at = "persisting" /\ proc[p].backup \in removed

(* Anything else that throws ends the call before the state is written, a   *)
(* deletion perhaps after it removed the archive.                           *)
Throws(p) ==
    /\ proc[p].at \in {"collecting", "removing", "saving", "persisting"}
    /\ Ends(p, "thrown")
    /\ cut' = IF CutsDeletion(p) THEN cut \cup {proc[p].backup} ELSE cut
    /\ UNCHANGED <<section, records, archive, locked, returned, removed, lost>>

Persist(p) ==
    /\ proc[p].at = "persisting"
    /\ records' = proc[p].next
    /\ Ends(p, "done")
    /\ UNCHANGED <<section, archive, locked, backupHistory>>

Release(p) ==
    /\ proc[p].at = "releasing"
    /\ locked' = FALSE
    /\ proc' = [proc EXCEPT ![p] = NoCall]
    /\ returned' = IF proc[p].op = "create" /\ proc[p].outcome = "done"
                   THEN returned \cup {proc[p].backup} ELSE returned
    /\ UNCHANGED <<section, records, archive, removed, cut, lost>>

(* A process that is in no call of the store writes a section; the other    *)
(* may be in one.                                                           *)
Change(p, s, c) ==
    /\ proc[p].at = "idle"
    /\ section' = [section EXCEPT ![s] = c]
    /\ proc' = [q \in BackupProcess |->
          IF proc[q].at = "idle" THEN proc[q]
          ELSE [proc[q] EXCEPT !.touched = @ \cup {s}]]
    /\ UNCHANGED <<records, archive, locked, backupHistory>>

(* A process ends within a call: the lock file stays, and nothing in the    *)
(* code removes it.  What it was writing is cut off: an archive cannot be   *)
(* read then, a section is as good as absent, a state file taken for empty. *)
CrashInCall(p) ==
    /\ proc[p].at # "idle"
    /\ proc' = [proc EXCEPT ![p] = NoCall]
    /\ \E torn \in {FALSE, proc[p].at = "persisting"} :
          /\ records' = IF torn THEN None ELSE records
          /\ lost' = (lost \/ torn)
    /\ cut' = IF CutsDeletion(p) THEN cut \cup {proc[p].backup} ELSE cut
    /\ UNCHANGED <<section, archive, locked, returned, removed>>

-----------------------------------------------------------------------------
BackupInit ==
    /\ section \in [Section -> Content \cup {None}]
    /\ records = None /\ archive = [b \in BackupId |-> None]
    /\ locked = FALSE /\ proc = [p \in BackupProcess |-> NoCall]
    /\ returned = {} /\ removed = {} /\ cut = {} /\ lost = FALSE

CallNext(p) ==
    \/ \E s \in Section : \/ Collect(p, s) \/ SaveSection(p, s) \/ ClearSection(p, s)
                          \/ WriteSection(p, s) \/ UndoSection(p, s)
    \/ WriteArchive(p) \/ RemoveArchive(p) \/ Restored(p)
    \/ Undo(p) \/ UndoFails(p) \/ Throws(p) \/ Persist(p) \/ Release(p)
    \/ CrashInCall(p)

BackupNext ==
    \/ \E p \in BackupProcess : \/ CallNext(p)
                                \/ \E s \in Section, c \in Content : Change(p, s, c)
    \/ \E b \in BackupId, S \in SUBSET Section : Create(b, S) \/ CreateFromJob(b, S)
    \/ \E b \in BackupId : Delete(b) \/ Restore(b)

BackupSpec == BackupInit /\ [][BackupNext]_backupVars

-----------------------------------------------------------------------------
(* A restore that did its work has left every section as the archive has    *)
(* it, and one that was undone has left them as they were, whichever of its *)
(* removals and writes failed; no other section has changed.  Excepted are  *)
(* sections the other process wrote meanwhile, and an undoing that failed.  *)
RestoreIsWhole ==
    \A p \in BackupProcess :
        LET call == proc[p]
            target(s) == IF call.outcome = "undone" \/ s \notin call.sections
                         THEN call.before[s]
                         ELSE archive[call.backup].entries[s]
        IN  /\ call.op = "restore" /\ call.at = "releasing"
            /\ call.outcome \in {"done", "undone"}
            => \A s \in Section \ call.touched : section[s] = target(s)

(* A backup in the list has its archive, unless its deletion is under way   *)
(* or was cut off; and one whose creation was answered is in the list until *)
(* it is deleted, unless a state file was cut off.                          *)
BackupsRestorable ==
    /\ \A b \in Listed :
          \/ archive[b] # None
          \/ b \in cut
          \/ \E p \in BackupProcess : proc[p].op = "delete" /\ proc[p].backup = b
    /\ ~ lost => returned \ removed \subseteq Listed
=============================================================================
