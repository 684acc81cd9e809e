--------------------------- MODULE PrivateObjects ---------------------------
(* Private objects: bytes in a MinIO bucket, a row per object in PostgreSQL
   and references to the rows from a passenger's profile (the avatar) and from
   driver documents. Uploads write the three places one after the other and
   clean up behind a failure (platform/storage/minio/store.go, user/adapter/
   postgres/profile_repository.go, driver/app/document_service.go), while
   cmd/storage-migrate copies the objects PostgreSQL still holds into the
   bucket and then drops that copy. *)
EXTENDS Naturals, FiniteSets

CONSTANTS Avatars,     \* uploads of the passenger's avatar
          Documents,   \* uploads of driver documents
          Readers,     \* downloads of the avatar
          LegacyKey,   \* the object the avatar refers to at first, kept in PostgreSQL
          NoKey

VARIABLES
  bucket,     \* objects in MinIO
  row,        \* private_objects: none, legacy (content in PostgreSQL) or external
  verified,   \* rows with external_verified_at
  dropped,    \* private_objects.content is gone
  avatar,     \* avatar_storage_key
  status,     \* driver_documents by their object: none, pending, approved or rejected
  up,         \* uploads: [pc, read, key]: the avatar read at first and the key being deleted
  reader,     \* downloads: [pc, key, late, failed]
  mig,        \* the migration: [pc, key, after]
  lost,       \* history: references whose commit was reported as failed
  left        \* history: objects whose removal failed or that were copied too late

objectVars == <<bucket, row, verified, dropped, avatar, status, up, reader, mig, lost, left>>
store == <<bucket, row, verified, dropped>>
Uploads == Avatars \cup Documents
Keys == Uploads \cup {LegacyKey}

ObjectConstants ==
  /\ Avatars \cap Documents = {} /\ LegacyKey \notin Uploads /\ NoKey \notin Keys

ObjectTypeOK ==
  /\ bucket \subseteq Keys /\ verified \subseteq Keys /\ lost \subseteq Keys /\ left \subseteq Keys
  /\ dropped \in BOOLEAN
  /\ row \in [Keys -> {"none", "legacy", "external"}]
  /\ avatar \in Keys /\ status \in [Documents -> {"none", "pending", "approved", "rejected"}]
  /\ up \in [Uploads -> [pc : {"idle", "put", "meta", "link", "get", "remove", "row", "done"},
                         read : Keys, key : Keys \cup {NoKey}]]
  /\ reader \in [Readers -> [pc : {"idle", "load", "fetch", "ok", "corrupt"}, key : Keys,
                         late : BOOLEAN, failed : BOOLEAN]]
  /\ mig \in [pc : {"next", "copy", "set", "verify", "mark", "drop", "done"},
              key : Keys \cup {NoKey}, after : SUBSET Keys]

ObjectInit ==
  /\ bucket = {} /\ verified = {} /\ dropped = FALSE /\ avatar = LegacyKey
  /\ row = [k \in Keys |-> IF k = LegacyKey THEN "legacy" ELSE "none"]
  /\ status = [d \in Documents |-> "none"]
  /\ up = [u \in Uploads |-> [pc |-> "idle", read |-> LegacyKey, key |-> NoKey]]
  /\ reader = [r \in Readers |-> [pc |-> "idle", key |-> LegacyKey, late |-> FALSE, failed |-> FALSE]]
  /\ \E pc \in {"next", "done"} : mig = [pc |-> pc, key |-> NoKey, after |-> {}]
  /\ lost = {} /\ left = {}

(***************************************************************************)
(* ObjectStore.Store                                                       *)
(***************************************************************************)

\* SaveAvatar and Upload up to the first write; SaveAvatar looks for the profile.
BeginUpload(u) ==
  /\ up[u].pc = "idle"
  /\ up' = [up EXCEPT ![u].pc = "put", ![u].read = avatar]
  /\ UNCHANGED <<store, avatar, status, reader, mig, lost, left>>

PutObject(u) ==
  /\ up[u].pc = "put"
  /\ bucket' = bucket \cup {u} /\ up' = [up EXCEPT ![u].pc = "meta"]
  /\ UNCHANGED <<row, verified, dropped, avatar, status, reader, mig, lost, left>>

\* removeMinIOObject behind a failure; it may fail too.
CleanUp(u) ==
  \/ bucket' = bucket \ {u} /\ UNCHANGED left
  \/ bucket' = bucket \cup {u} /\ left' = left \cup {u}

\* The write fails, with or without having happened.
PutFails(u) ==
  /\ up[u].pc = "put"
  /\ CleanUp(u) /\ up' = [up EXCEPT ![u].pc = "done"]
  /\ UNCHANGED <<row, verified, dropped, avatar, status, reader, mig, lost>>

\* CreateExternalPrivateObject; external_verified_at is not set.
CreateRow(u) ==
  /\ up[u].pc = "meta"
  /\ row' = [row EXCEPT ![u] = "external"] /\ up' = [up EXCEPT ![u].pc = "link"]
  /\ UNCHANGED <<bucket, verified, dropped, avatar, status, reader, mig, lost, left>>

CreateRowFails(u) ==
  /\ up[u].pc = "meta"
  /\ \E applied \in BOOLEAN : row' = IF applied THEN [row EXCEPT ![u] = "external"] ELSE row
  /\ CleanUp(u) /\ up' = [up EXCEPT ![u].pc = "done"]
  /\ UNCHANGED <<verified, dropped, avatar, status, reader, mig, lost>>

(***************************************************************************)
(* The references                                                          *)
(***************************************************************************)

Deleting(u, key) == up' = [up EXCEPT ![u].pc = "get", ![u].key = key]

\* (mutant: the predecessor is the avatar found before the upload)
PredecessorRead(u) == up[u].read

\* The avatar the locked profile row refers to.
Predecessor(u) == avatar

\* The transaction of SaveAvatar; its predecessor is deleted after the commit.
CommitAvatar(u) ==
  /\ u \in Avatars /\ up[u].pc = "link"
  /\ Deleting(u, Predecessor(u)) /\ avatar' = u
  /\ UNCHANGED <<store, status, reader, mig, lost, left>>

CreateDocument(u) ==
  /\ u \in Documents /\ up[u].pc = "link"
  /\ status' = [status EXCEPT ![u] = "pending"] /\ up' = [up EXCEPT ![u].pc = "done"]
  /\ UNCHANGED <<store, avatar, reader, mig, lost, left>>

\* Nothing was committed: the new object is deleted.
LinkFails(u) ==
  /\ up[u].pc = "link"
  /\ Deleting(u, u)
  /\ UNCHANGED <<store, avatar, status, reader, mig, lost, left>>

\* The commit happened and its answer was lost: the new object is deleted all the same.
LinkUnanswered(u) ==
  /\ up[u].pc = "link"
  /\ Deleting(u, u) /\ lost' = lost \cup {u}
  /\ left' = IF u \in Avatars THEN left \cup {avatar} ELSE left
  /\ avatar' = IF u \in Avatars THEN u ELSE avatar
  /\ status' = IF u \in Documents THEN [status EXCEPT ![u] = "pending"] ELSE status
  /\ UNCHANGED <<store, reader, mig>>

Review(d) ==
  /\ status[d] = "pending"
  /\ \E decision \in {"approved", "rejected"} : status' = [status EXCEPT ![d] = decision]
  /\ UNCHANGED <<store, avatar, up, reader, mig, lost, left>>

(***************************************************************************)
(* ObjectStore.Delete                                                      *)
(***************************************************************************)

\* The row says whether there is an object to remove.
DeleteLook(u) ==
  /\ up[u].pc = "get"
  /\ up' = [up EXCEPT ![u].pc = CASE row[up[u].key] = "none" -> "done"
                                  [] row[up[u].key] = "legacy" -> "row"
                                  [] OTHER -> "remove"]
  /\ UNCHANGED <<store, avatar, status, reader, mig, lost, left>>

DeleteObject(u) ==
  /\ up[u].pc = "remove"
  /\ bucket' = bucket \ {up[u].key} /\ up' = [up EXCEPT ![u].pc = "row"]
  /\ UNCHANGED <<row, verified, dropped, avatar, status, reader, mig, lost, left>>

\* An object copied into the bucket since the look stays there.
DeleteRow(u) ==
  /\ up[u].pc = "row"
  /\ row' = [row EXCEPT ![up[u].key] = "none"] /\ up' = [up EXCEPT ![u].pc = "done"]
  /\ left' = left \cup ({up[u].key} \cap {LegacyKey} \cap bucket)
  /\ UNCHANGED <<bucket, verified, dropped, avatar, status, reader, mig, lost>>

\* A failure leaves what is still there behind; it is logged, or joined to the upload's error.
\* (A removal that failed after taking effect is DeleteObject and then this.)
DeleteFails(u) ==
  /\ up[u].pc \in {"get", "remove", "row"}
  /\ up' = [up EXCEPT ![u].pc = "done"] /\ left' = left \cup {up[u].key}
  /\ UNCHANGED <<store, avatar, status, reader, mig, lost>>

(***************************************************************************)
(* GetAvatar                                                               *)
(***************************************************************************)

\* GetPassengerProfileByUserIDFull; when it fails, so does the request, with an error of its own.
ReadAvatar(r) ==
  /\ reader[r].pc = "idle"
  /\ reader' = [reader EXCEPT ![r] = [pc |-> "load", key |-> avatar, late |-> row[avatar] = "legacy",
                                     failed |-> FALSE]]
  /\ UNCHANGED <<store, avatar, status, up, mig, lost, left>>

Answered(r, pc, failed) ==
  /\ reader' = [reader EXCEPT ![r] =
       [pc |-> pc, key |-> @.key, late |-> @.late \/ avatar # @.key, failed |-> failed]]
  /\ UNCHANGED <<store, avatar, status, up, mig, lost, left>>

\* The query of ObjectStore.Read: no row, or one that "has no MinIO storage key", is an error of Read.
LoadRow(r) ==
  /\ reader[r].pc = "load"
  /\ Answered(r, IF row[reader[r].key] = "external" THEN "fetch" ELSE "corrupt", FALSE)

\* readMinIO.
LoadObject(r) ==
  /\ reader[r].pc = "fetch"
  /\ Answered(r, IF reader[r].key \in bucket THEN "ok" ELSE "corrupt", FALSE)

\* The query, GetObject, Stat or reading fails, times out or is cancelled: GetAvatar joins
\* ErrAvatarCorrupt to every error of Read.
LoadFails(r) == reader[r].pc \in {"load", "fetch"} /\ Answered(r, "corrupt", TRUE)

(***************************************************************************)
(* cmd/storage-migrate                                                     *)
(***************************************************************************)

Stop == mig' = [mig EXCEPT !.pc = "done"]

\* MigrateLegacyObjects: the next object PostgreSQL holds, with its content.
MigrateNext ==
  /\ mig.pc = "next"
  /\ IF \E k \in Keys : row[k] = "legacy"
     THEN \E k \in Keys : row[k] = "legacy" /\ mig' = [mig EXCEPT !.pc = "copy", !.key = k]
     ELSE mig' = [mig EXCEPT !.pc = "verify"]
  /\ UNCHANGED <<store, avatar, status, up, reader, lost, left>>

\* PutObject, read back and compared.
MigrateCopy ==
  /\ mig.pc = "copy"
  /\ bucket' = bucket \cup {mig.key} /\ mig' = [mig EXCEPT !.pc = "set"]
  /\ UNCHANGED <<row, verified, dropped, avatar, status, up, reader, lost, left>>

\* SetPrivateObjectExternalStorageKey; a row that has gone ends the run, its copy stays.
MigrateSet ==
  LET k == mig.key
  IN /\ mig.pc = "set"
     /\ row' = IF row[k] = "legacy" THEN [row EXCEPT ![k] = "external"] ELSE row
     /\ verified' = IF row[k] = "legacy" THEN verified \cup {k} ELSE verified
     /\ left' = IF row[k] = "none" THEN left \cup {k} ELSE left
     /\ mig' = [mig EXCEPT !.pc = IF row[k] = "none" THEN "done" ELSE "next"]
     /\ UNCHANGED <<bucket, dropped, avatar, status, up, reader, lost>>

\* CountPrivateObjectsPendingExternalStorage, asked again by the contraction's own guard.
Pending == {k \in Keys : row[k] = "legacy" \/ (row[k] = "external" /\ k \notin verified)}

\* VerifyExternalObjects: the next external object is read back; none is left: count the pending.
VerifyNext ==
  LET rest == {k \in Keys \ mig.after : row[k] = "external"}
  IN /\ mig.pc = "verify"
     /\ IF rest = {} THEN mig' = [mig EXCEPT !.pc = IF Pending = {} THEN "drop" ELSE "done"]
        ELSE \E k \in rest : mig' = [mig EXCEPT !.pc = IF k \in bucket THEN "mark" ELSE "done", !.key = k]
     /\ UNCHANGED <<store, avatar, status, up, reader, lost, left>>

\* SetPrivateObjectExternalStorageVerifiedAt.
VerifyMark ==
  LET k == mig.key
      present == row[k] = "external"
  IN /\ mig.pc = "mark"
     /\ verified' = IF present THEN verified \cup {k} ELSE verified
     /\ mig' = [mig EXCEPT !.pc = IF present THEN "verify" ELSE "done", !.after = @ \cup {k}]
     /\ UNCHANGED <<bucket, row, dropped, avatar, status, up, reader, lost, left>>

\* The contraction drops the content, or raises while objects are pending.
Contract ==
  /\ mig.pc = "drop"
  /\ dropped' = (Pending = {}) /\ Stop
  /\ UNCHANGED <<bucket, row, verified, avatar, status, up, reader, lost, left>>

\* A call of the migration fails, or it is interrupted; a copy it made may stay.
MigrateFails ==
  /\ mig.pc # "done" /\ Stop
  /\ left' = IF mig.pc = "set" THEN left \cup {mig.key} ELSE left
  /\ UNCHANGED <<store, avatar, status, up, reader, lost>>

\* The command is run, also for another time.
MigrateAgain ==
  /\ mig.pc = "done" /\ ~dropped
  /\ mig' = [pc |-> "next", key |-> NoKey, after |-> {}]
  /\ UNCHANGED <<store, avatar, status, up, reader, lost, left>>

ObjectNext ==
  \/ \E u \in Uploads : \/ BeginUpload(u) \/ PutObject(u) \/ PutFails(u) \/ CreateRow(u) \/ CreateRowFails(u)
                        \/ CommitAvatar(u) \/ CreateDocument(u) \/ LinkFails(u) \/ LinkUnanswered(u)
                        \/ DeleteLook(u) \/ DeleteObject(u) \/ DeleteRow(u) \/ DeleteFails(u)
  \/ \E d \in Documents : Review(d)
  \/ \E r \in Readers : ReadAvatar(r) \/ LoadRow(r) \/ LoadObject(r) \/ LoadFails(r)
  \/ MigrateNext \/ MigrateCopy \/ MigrateSet \/ VerifyNext \/ VerifyMark \/ Contract
  \/ MigrateFails \/ MigrateAgain

ObjectSpec == ObjectInit /\ [][ObjectNext]_objectVars

(***************************************************************************)
(* Properties                                                              *)
(***************************************************************************)

Referenced == {avatar} \cup {d \in Documents : status[d] # "none"}
Quiet == mig.pc = "done" /\ \A u \in Uploads : up[u].pc \in {"idle", "done"}

\* What a profile or a document refers to still has its bytes, in PostgreSQL until the content is
\* dropped or in the bucket, unless the commit of the reference was reported as failed.
ReferencedKept ==
  \A k \in Referenced \ lost : \/ row[k] = "legacy" /\ ~dropped
                               \/ row[k] = "external" /\ k \in bucket

\* Once all is quiet, the bucket holds no object that nobody refers to, unless its removal failed
\* or the migration copied an object that was being deleted.
OrphanNeedsCause == Quiet => bucket \subseteq Referenced \cup left

\* A download of the avatar is answered as corrupt only if a call of it failed, the avatar was
\* replaced meanwhile or was still in PostgreSQL when the download began, or its commit had been
\* reported as failed.
CorruptNeedsCause ==
  \A r \in Readers :
    reader[r].pc = "corrupt" => reader[r].failed \/ reader[r].late \/ reader[r].key \in lost

\* PrivateObjects: what a profile or a document refers to still has its bytes, the bucket holds no
\* object that nobody refers to, and a download is answered as corrupt, only for one of the causes.
StorageHolds == ObjectTypeOK /\ ReferencedKept /\ OrphanNeedsCause /\ CorruptNeedsCause
=============================================================================
