------------------------------ MODULE Transfer ------------------------------
(* Imports and exports (packages/data-transfer, apps/api/src/import and     *)
(* export, the worker's data-transfer.import).  An import replaces a whole  *)
(* dataset of the transfer store: it loads the store's file and saves it,   *)
(* without a lock, in the API process or as a job in the worker's.          *)
EXTENDS Sequences, FiniteSets, Naturals

CONSTANTS Dataset, Id,
          MaxRows,     \* bound: the rows a document has
          SyncLimit,   \* imports of more records run as jobs
          ImportJob,
          Default,     \* what the store holds where it has no file
          None

TransferProcess == {"api", "worker"}

(* A row as the coercion sees it: its id, and whether every other field it  *)
(* must have is there and valid (a status, a VRF, a CIDR).                  *)
Row == [id : Id \cup {None}, sound : BOOLEAN]
Document == UNION {[1 .. n -> Row] : n \in 0 .. MaxRows}
Records == UNION {[1 .. n -> Id] : n \in 0 .. MaxRows}

VARIABLES store,     \* the file: the records of each dataset, or None
          importing, \* the import each process is in the middle of
          queued,    \* the import jobs, as accepted
          latest,    \* history: the records last saved to each dataset
          clobbered  \* history: datasets saved over unseen, or cut off

transferVars == <<store, importing, queued, latest, clobbered>>

Import == [dataset : Dataset, document : Document]

TransferTypeOK ==
    /\ store \in [Dataset -> Records] \cup {None}
    /\ importing \in [TransferProcess ->
          [at : {"idle", "loaded", "saved"}, job : ImportJob \cup {None},
           dataset : Dataset \cup {None}, records : Records,
           seen : [Dataset -> Records], missed : SUBSET Dataset]]
    /\ queued \in [ImportJob -> Import \cup {None}]
    /\ latest \in [Dataset -> Records]
    /\ clobbered \in SUBSET Dataset

-----------------------------------------------------------------------------
(* coerceRecords and validateImportInput: rows with a problem are left out  *)
(* of the records and make the document invalid, and so does an id that     *)
(* comes twice among the records.                                           *)
Coerced(row) == row.id # None /\ row.sound

Validated(document) == LET good == SelectSeq(document, Coerced) IN [i \in DOMAIN good |-> good[i].id]

Distinct(records) == \A i, j \in DOMAIN records : records[i] = records[j] => i = j

Valid(document) ==
    /\ \A i \in DOMAIN document : Coerced(document[i])
    /\ Distinct(Validated(document))

RunsAsJob(document, asked) == asked \/ Len(Validated(document)) > SyncLimit

Stored == IF store = None THEN Default ELSE store

NoImport == [at |-> "idle", job |-> None, dataset |-> None, records |-> <<>>,
             seen |-> Default, missed |-> {}]

(* applyImport up to the load.  A load that falls into the other process's  *)
(* save finds the defaults, and misses what is on file.                     *)
Load(p, j, import) ==
    /\ importing[p].at = "idle"
    /\ Valid(import.document)
    /\ \E torn \in {FALSE, \E q \in TransferProcess \ {p} : importing[q].at = "loaded"} :
          importing' = [importing EXCEPT ![p] =
              [at |-> "loaded", job |-> j, dataset |-> import.dataset,
               records |-> Validated(import.document),
               seen |-> IF torn THEN Default ELSE Stored, missed |-> IF torn THEN Dataset ELSE {}]]

(* handleCommitImport: a dry run and an invalid document change nothing. *)
CommitNow(import) ==
    /\ ~ RunsAsJob(import.document, FALSE)
    /\ Load("api", None, import)
    /\ UNCHANGED <<store, queued, latest, clobbered>>

CommitAsJob(j, import, asked) ==
    /\ importing["api"].at = "idle" /\ queued[j] = None
    /\ Valid(import.document) /\ RunsAsJob(import.document, asked)
    /\ queued' = [queued EXCEPT ![j] = import]
    /\ UNCHANGED <<store, importing, latest, clobbered>>

RunJob(j) ==
    /\ queued[j] # None
    /\ Load("worker", j, queued[j])
    /\ UNCHANGED <<store, queued, latest, clobbered>>

(* The store with one dataset replaced; and one with nothing else in it.    *)
OnlyThis(seen, d, records) == [Default EXCEPT ![d] = records]
WithDataset(seen, d, records) == [seen EXCEPT ![d] = records]

(* A save that comes between another's load and save is one the other has   *)
(* missed: it saves the dataset as it was before.                           *)
Save(p) ==
    LET import == importing[p]
        d == import.dataset
    IN
    /\ import.at = "loaded"
    /\ store' = WithDataset(import.seen, d, import.records)
    /\ latest' = [latest EXCEPT ![d] = import.records]
    /\ clobbered' = (clobbered \cup import.missed) \ {d}
    /\ importing' = [q \in TransferProcess |->
          IF q = p THEN [import EXCEPT !.at = IF p = "api" THEN "idle" ELSE "saved"]
          ELSE [importing[q] EXCEPT !.missed = IF importing[q].at = "loaded" THEN @ \cup {d} ELSE @]]
    /\ UNCHANGED queued

(* The job is done, or its save threw and the queue will try it again. *)
Settle ==
    /\ importing["worker"].at = "saved"
    /\ queued' = [queued EXCEPT ![importing["worker"].job] = None]
    /\ importing' = [importing EXCEPT !["worker"] = NoImport]
    /\ UNCHANGED <<store, latest, clobbered>>

(* The save throws before it touched the file. *)
SaveFails(p) ==
    /\ importing[p].at = "loaded"
    /\ importing' = [importing EXCEPT ![p] = NoImport]
    /\ UNCHANGED <<store, queued, latest, clobbered>>

(* A process ends: within its save it leaves a file that is cut off.  The   *)
(* worker's job stays queued.                                               *)
ImportCrash(p) ==
    /\ importing[p].at # "idle"
    /\ \/ UNCHANGED <<store, clobbered>>
       \/ /\ importing[p].at = "loaded"
          /\ store' = None
          /\ clobbered' = Dataset
    /\ importing' = [importing EXCEPT ![p] = NoImport]
    /\ UNCHANGED <<queued, latest>>

-----------------------------------------------------------------------------
TransferInit ==
    /\ store = None
    /\ importing = [p \in TransferProcess |-> NoImport]
    /\ queued = [j \in ImportJob |-> None]
    /\ latest = Default /\ clobbered = {}

TransferNext ==
    \/ \E import \in Import : \/ CommitNow(import)
                              \/ \E j \in ImportJob, asked \in BOOLEAN : CommitAsJob(j, import, asked)
    \/ \E j \in ImportJob : RunJob(j)
    \/ \E p \in TransferProcess : Save(p) \/ SaveFails(p) \/ ImportCrash(p)
    \/ Settle

TransferSpec == TransferInit /\ [][TransferNext]_transferVars

-----------------------------------------------------------------------------
(* Each dataset holds what the import that saved it last made of its rows,  *)
(* or the defaults: a later import of another dataset leaves it, and one    *)
(* that overlaps it costs only the datasets that were saved between that    *)
(* one's load and save (applyImport loads and saves the whole file); unless *)
(* the file was cut off.  A job that runs again after its save is the one   *)
(* that saved last, and takes back what was imported in between.            *)
ImportsStay == \A d \in Dataset : d \in clobbered \/ Stored[d] = latest[d]
=============================================================================
