-------------------------------- MODULE Media --------------------------------
(* Uploads (packages/media-core, media-storage, apps/api/src/media): the    *)
(* content, the record and the links are three writes of one request, and   *)
(* there is no operation that takes any of them back.  The repository's     *)
(* file is apps/api/media-data/metadata/media.json, the content next to it. *)
EXTENDS Naturals

CONSTANTS MediaId, Tenant, LinkObject,
          MaxBytes,   \* mediaUploadConstraints.maxBytes
          None

VARIABLES mediaFile, mediaCopy,
          content,    \* the media whose content is stored whole
          upload      \* what the API process is in the middle of

mediaVars == <<mediaFile, mediaCopy, content, upload>>

(* Whose an upload is; the API also takes an empty tenant id, here None. *)
Owner == Tenant \cup {None}

MediaDocument == [media : SUBSET (MediaId \X Owner), links : SUBSET (MediaId \X LinkObject)]
NoMedia == [media |-> {}, links |-> {}]

Repository == INSTANCE CachedRepository WITH
    Instance <- {"api"}, Empty <- NoMedia, file <- mediaFile, copy <- mediaCopy

Doc == Repository!View("api")

(* What an upload is judged by.  Sizes are those at the limits. *)
Upload == [tenant : Owner, size : {0, 1, MaxBytes, MaxBytes + 1},
           named : BOOLEAN,      \* does a character of its name survive sanitizing?
           typed : BOOLEAN,      \* is its content type allowed?
           links : SUBSET LinkObject]

Caller == [tenant : Tenant, permissions : SUBSET {"media:read", "media:write", "media:assign"}]

MediaTypeOK ==
    /\ mediaFile \in MediaDocument \cup {None}
    /\ mediaCopy \in [{"api"} -> MediaDocument \cup {None}]
    /\ content \in SUBSET MediaId
    /\ upload \in [at : {"idle", "storing", "recording", "linking"},
                   media : MediaId \cup {None}, tenant : Owner,
                   links : SUBSET LinkObject]

-----------------------------------------------------------------------------
NoUpload == [at |-> "idle", media |-> None, tenant |-> None, links |-> {}]

ValidateMediaUpload(u) == u.named /\ u.typed /\ u.size > 0 /\ u.size <= MaxBytes

(* resolveMediaAccess and, unless the tenant id is empty,                   *)
(* enforceTenantIsolation.                                                  *)
MayAccess(caller, permission, tenant) ==
    permission \in caller.permissions /\ tenant \in {caller.tenant, None}

MayUpload(caller, u) ==
    /\ MayAccess(caller, "media:write", u.tenant)
    /\ ValidateMediaUpload(u)
    /\ u.links # {} => MayAccess(caller, "media:assign", u.tenant)

StartUpload(m, caller, u) ==
    /\ upload.at = "idle"
    /\ m \notin content /\ \A t \in Owner : <<m, t>> \notin Doc.media
    /\ MayUpload(caller, u)
    /\ upload' = [at |-> "storing", media |-> m, tenant |-> u.tenant, links |-> u.links]
    /\ UNCHANGED <<mediaFile, mediaCopy, content>>

WriteObject ==
    /\ upload.at = "storing"
    /\ content' = content \cup {upload.media}
    /\ upload' = [upload EXCEPT !.at = "recording"]
    /\ UNCHANGED <<mediaFile, mediaCopy>>

SaveMedia ==
    /\ upload.at = "recording"
    /\ Repository!Save("api", [Doc EXCEPT !.media = @ \cup {<<upload.media, upload.tenant>>}])
    /\ upload' = [upload EXCEPT !.at = "linking"]
    /\ UNCHANGED content

SaveLinks ==
    /\ upload.at = "linking"
    /\ Repository!Save("api", [Doc EXCEPT !.links = @ \cup ({upload.media} \X upload.links)])
    /\ upload' = NoUpload
    /\ UNCHANGED content

(* A read of one record, of its content, or of those linked to an object. *)
ReadMedia ==
    /\ upload.at = "idle"
    /\ Repository!Load("api", FALSE)
    /\ UNCHANGED <<content, upload>>

(* The process ends, perhaps within a write.  Content that was cut off is   *)
(* not content.                                                             *)
MediaCrash ==
    /\ \E torn \in {FALSE, upload.at \in {"recording", "linking"}} :
          Repository!Restart({"api"}, torn)
    /\ upload' = NoUpload
    /\ UNCHANGED content

MediaInit ==
    /\ mediaFile = None /\ mediaCopy = [i \in {"api"} |-> None]
    /\ content = {} /\ upload = NoUpload

MediaNext ==
    \/ \E m \in MediaId, caller \in Caller, u \in Upload : StartUpload(m, caller, u)
    \/ WriteObject \/ SaveMedia \/ SaveLinks
    \/ ReadMedia
    \/ MediaCrash

MediaSpec == MediaInit /\ [][MediaNext]_mediaVars

-----------------------------------------------------------------------------
(* What has a record has its content, and what is linked has a record, on   *)
(* disk as in the copy, wherever an upload ends.                            *)
MediaReadable ==
    \A doc \in {Repository!OnFile, Doc} :
        /\ \A r \in doc.media : r[1] \in content
        /\ \A l \in doc.links : \E t \in Owner : <<l[1], t>> \in doc.media
=============================================================================
