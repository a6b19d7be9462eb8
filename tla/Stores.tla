------------------------------- MODULE Stores -------------------------------
(* The stores beside the queue, and what is shown of them: the backup       *)
(* store, the media, the datasets of imports, the inventory behind its      *)
(* response cache, and the client's pages, views and traces.  Each part has *)
(* its own variables; what they promise together is stated here.            *)
EXTENDS Backup, Integers, Sequences

CONSTANTS MediaId, Tenant, LinkObject, MaxBytes
VARIABLES mediaFile, mediaCopy, content, upload
Media == INSTANCE Media

CONSTANTS Dataset, RecordId, MaxRows, SyncLimit, ImportJob, Default
VARIABLES store, importing, queued, latest, clobbered
Transfer == INSTANCE Transfer WITH Id <- RecordId

CONSTANTS Hook, Crud, Bare, Clearable, Key, Request
VARIABLES pane, loading, failed, request, fresh, overlap
Pages == INSTANCE Pages

CONSTANTS RowOrder, GroupOrder, NodeOrder, Lengths, MaxDirect, Site, Role, Vlan, Attributes
VARIABLES prefixes, expanded, selectedRow, filter, selectedNode
Views == INSTANCE Views WITH Order <- RowOrder

CONSTANTS Point, Kind, Link, MaxHops
VARIABLES links, asked, queue, visited, answer
Trace == INSTANCE PathTrace

CONSTANTS InventoryId, Versions, Start, Order, Named, Identity, HomeOf, RolesOf, PermissionsOf,
          OpsTenant, Question, KeyPart, PageSize, Reader, Writer
VARIABLES inventory, cache, reader, writer, excused
Reads == INSTANCE Reads WITH Id <- InventoryId

-----------------------------------------------------------------------------
(* The default datasets are tables of records, and None is not what a file  *)
(* of datasets holds, though it may hold all that an import makes of a      *)
(* document.                                                                *)
Recorded ==
    Transfer!Records \cup {<<>>}
        \cup {Transfer!Validated(document) : document \in Transfer!Document}

DefaultsAreRecords ==
    /\ Default \in [Dataset -> Transfer!Records]
    /\ None \notin [Dataset -> Recorded]

(* The orders the views are drawn in are sequences, and None is no row of   *)
(* the tree and no node of the graph.                                       *)
OrdersAreDrawn ==
    /\ RowOrder \in Seq(Views!Prefix)
    /\ GroupOrder \in Seq(Views!Group)
    /\ NodeOrder \in Seq(Views!Node)
    /\ None \notin Views!Prefix \cup Views!Group \cup Views!Node

(* A CIDR's prefix is at most 128 bits long, and None is no number.         *)
CapacitiesAreKnown ==
    /\ Lengths \subseteq 0 .. 128
    /\ MaxDirect \in Nat
    /\ None \notin Int

(* A question is one of the kinds an invalidation goes through, and the     *)
(* inventory starts from one version of each record.                        *)
QuestionKind == {"navigation", "list", "detail"}

InventoryRecord == UNION {Versions[x] : x \in InventoryId}

QuestionsAreKnown ==
    /\ \A question \in Question : question.kind \in QuestionKind
    /\ Start \in [InventoryId -> InventoryRecord]

(* An edge leads from one point to another. *)
LinksAreEdges == MaxHops \in Nat /\ Link \subseteq [from : Point, to : Point, kind : Kind]

ASSUME StoresAssumption ==
    /\ None \notin Media!MediaDocument
    /\ DefaultsAreRecords
    /\ Hook \cap Bare = {}
    /\ OrdersAreDrawn
    /\ CapacitiesAreKnown
    /\ LinksAreEdges
    /\ QuestionsAreKnown

-----------------------------------------------------------------------------
(* What has a record has its content: backups have their archives, uploads  *)
(* their bytes.                                                             *)
RecordsHaveContent == BackupsRestorable /\ Media!MediaReadable

(* Transfer's property: a dataset holds what was last saved to it, but for  *)
(* those saved between the load and the save of a later import.             *)
ImportsStay == Transfer!ImportsStay

(* Pages' property: a page shows the answer to what it last asked. *)
ShownIsAsked == Pages!ShownIsAsked

(* Views' properties: the tree and the graph keep no selection that was     *)
(* closed or filtered away, and utilization counts each address once.       *)
SelectionIsShown == Views!SelectionIsShown
UtilizationCounts == Views!UtilizationCounts

(* PathTrace's property: tracePath finds a shortest path, or there is none. *)
TraceIsShortest == Trace!TraceIsShortest

(* Reads' properties: an answer the cache keeps is current or about to go,  *)
(* and whoever gets it was granted it.                                      *)
ReadsAreCurrent == Reads!ReadsAreCurrent
AnsweredWithinGrants == Reads!AnsweredWithinGrants
=============================================================================
