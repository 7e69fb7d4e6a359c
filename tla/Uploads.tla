------------------------------- MODULE Uploads -------------------------------
(***************************************************************************)
(* Uploaded files and the rows that point at them: CVs (one of them        *)
(* primary), the candidate's photo, the company's logo, and the images of  *)
(* a job description.                                                      *)
(*                                                                         *)
(* The file is stored before its row is written and removed after its row  *)
(* is gone; store and database have no common transaction.  A request is a *)
(* step per call of the store and per statement whose result it uses.      *)
(* Sizes, types and image processing are left out: a request refused by    *)
(* them has changed nothing.  One candidate, one company, one job.         *)
(***************************************************************************)
EXTENDS Naturals, FiniteSets

CONSTANTS
  Keys,       \* storage keys, generated and used once; bound on uploads
  Uploaders,  \* requests that write or remove a file
  Null

VARIABLES
  area,     \* what a key was generated for, Null: not yet
  store,    \* the files there are
  resumes,  \* rows of resume_assets, by storage key
  primary,  \* those of them with is_primary
  pointer,  \* candidates.photo_storage_key, companies.logo_storage_key
  images,   \* rows of job_description_media, by storage key
  up,       \* the requests
  mishap    \* history: a crash or a failed removal may have left a file

rows == <<resumes, primary, pointer, images>>
uploadVars == <<area, store, rows, up, mishap>>

Areas == {"cv", "photo", "logo", "image"}
ASSUME UploadsAssumptions == Null \notin Keys \cup Areas

Pictures == {"photo", "logo"}
UploadPc == {"idle", "demote", "demoting", "insert", "readPhoto", "setPhoto",
             "setLogo", "insertImage", "cleanup", "removeOld"}

\* key: the new file; old: the file it replaces; seen: the rows an UPDATE
\* of resume_assets found when it started.
NoUpload == [pc |-> "idle", key |-> Null, old |-> Null, seen |-> {}]

UploadsTypeOK ==
  /\ area \in [Keys -> Areas \cup {Null}]
  /\ store \subseteq Keys
  /\ resumes \subseteq Keys /\ primary \subseteq resumes
  /\ pointer \in [Pictures -> Keys \cup {Null}]
  /\ images \subseteq Keys
  /\ up \in [Uploaders -> [pc : UploadPc, key : Keys \cup {Null},
                           old : Keys \cup {Null}, seen : SUBSET Keys]]
  /\ mishap \in BOOLEAN

UploadsInit ==
  /\ area = [k \in Keys |-> Null]
  /\ store = {} /\ resumes = {} /\ primary = {} /\ images = {}
  /\ pointer = [p \in Pictures |-> Null]
  /\ up = [u \in Uploaders |-> NoUpload]
  /\ mishap = FALSE

-----------------------------------------------------------------------------
(* The store.                                                              *)

NextPc(a) == CASE a = "cv" -> "demote" [] a = "photo" -> "readPhoto"
               [] a = "logo" -> "setLogo" [] a = "image" -> "insertImage"

\* UploadStorageService.put under a fresh key.
Put(u, a) ==
  /\ up[u].pc = "idle"
  /\ \E k \in Keys :
       /\ area[k] = Null
       /\ area' = [area EXCEPT ![k] = a]
       /\ store' = store \cup {k}
       /\ up' = [up EXCEPT ![u] = [NoUpload EXCEPT !.pc = NextPc(a),
                                                   !.key = k]]
  /\ UNCHANGED <<rows, mishap>>

\* The row that held the file is gone, or was never made.
RemoveFile(u, pc, k) ==
  /\ up[u].pc = pc
  /\ store' = store \ {k}
  /\ up' = [up EXCEPT ![u] = NoUpload]
  /\ UNCHANGED <<area, rows, mishap>>

Cleanup(u) == RemoveFile(u, "cleanup", up[u].key)
RemoveOld(u) == RemoveFile(u, "removeOld", up[u].old)

\* The API dies or a removal fails (it is only logged): the file stays.
GivesUp(u) ==
  /\ up[u].pc # "idle"
  /\ up' = [up EXCEPT ![u] = NoUpload]
  /\ mishap' = TRUE
  /\ UNCHANGED <<area, store, rows>>

-----------------------------------------------------------------------------
(* saveResumeUpload, generateResumeFromTemplate: one transaction that      *)
(* takes is_primary from all rows and inserts the new one with it.         *)

\* The UPDATE sees the rows committed when it starts ...
DemoteStart(u) ==
  /\ up[u].pc = "demote"
  /\ up' = [up EXCEPT ![u].seen = resumes, ![u].pc = "demoting"]
  /\ UNCHANGED <<area, store, rows, mishap>>

Locked == UNION {up[u].seen : u \in {v \in Uploaders : up[v].pc = "insert"}}

\* ... and waits for a transaction that holds one of them.
DemoteEnd(u) ==
  /\ up[u].pc = "demoting"
  /\ up[u].seen \cap Locked = {}
  /\ up' = [up EXCEPT ![u].pc = "insert"]
  /\ UNCHANGED <<area, store, rows, mishap>>

\* Mutant: a failed transaction leaves its file.
InsertPrimaryForgetful(u) ==
  LET demoted == primary \subseteq up[u].seen IN
  /\ up[u].pc = "insert"
  /\ up' = [up EXCEPT ![u] = NoUpload]
  /\ resumes' = IF demoted THEN resumes \cup {up[u].key} ELSE resumes
  /\ primary' = IF demoted THEN {up[u].key} ELSE primary
  /\ UNCHANGED <<area, store, pointer, images, mishap>>

\* resume_assets_candidate_primary_unique refuses a second primary CV, one
\* the UPDATE did not see: the transaction fails and the file is removed.
InsertPrimary(u) ==
  /\ up[u].pc = "insert"
  /\ IF primary \subseteq up[u].seen
     THEN /\ resumes' = resumes \cup {up[u].key}
          /\ primary' = {up[u].key}
          /\ up' = [up EXCEPT ![u] = NoUpload]
     ELSE /\ up' = [up EXCEPT ![u].pc = "cleanup"]
          /\ UNCHANGED <<resumes, primary>>
  /\ UNCHANGED <<area, store, pointer, images, mishap>>

-----------------------------------------------------------------------------
(* savePhoto, deletePhoto: no transaction.                                 *)

ReadPhoto(u) ==
  /\ up[u].pc = "readPhoto"
  /\ up' = [up EXCEPT ![u].old = pointer["photo"], ![u].pc = "setPhoto"]
  /\ UNCHANGED <<area, store, rows, mishap>>

DeletePhoto(u) ==
  /\ up[u].pc = "idle"
  /\ up' = [up EXCEPT ![u] = [NoUpload EXCEPT !.old = pointer["photo"],
                                              !.pc = "setPhoto"]]
  /\ UNCHANGED <<area, store, rows, mishap>>

ThenRemove(u, old) ==
  up' = [up EXCEPT ![u] =
           IF old = Null THEN NoUpload
           ELSE [NoUpload EXCEPT !.old = old, !.pc = "removeOld"]]

\* Mutant: the old file goes before the row stops pointing at it.
SetPhotoRemovesFirst(u) ==
  /\ up[u].pc = "setPhoto"
  /\ store' = store \ {up[u].old}
  /\ IF up[u].old \in store
     THEN UNCHANGED <<pointer, up>>
     ELSE /\ pointer' = [pointer EXCEPT !["photo"] = up[u].key]
          /\ up' = [up EXCEPT ![u] = NoUpload]
  /\ UNCHANGED <<area, resumes, primary, images, mishap>>

SetPhoto(u) ==
  /\ up[u].pc = "setPhoto"
  /\ pointer' = [pointer EXCEPT !["photo"] = up[u].key]
  /\ ThenRemove(u, up[u].old)
  /\ UNCHANGED <<area, store, resumes, primary, images, mishap>>

-----------------------------------------------------------------------------
(* CompanyLogosService: the row is read FOR UPDATE and written in one      *)
(* transaction.                                                            *)

ReplaceLogo(u, k) ==
  /\ pointer' = [pointer EXCEPT !["logo"] = k]
  /\ ThenRemove(u, pointer["logo"])
  /\ UNCHANGED <<area, store, resumes, primary, images, mishap>>

SetLogo(u) == up[u].pc = "setLogo" /\ ReplaceLogo(u, up[u].key)

RemoveLogo(u) == up[u].pc = "idle" /\ ReplaceLogo(u, Null)

\* The transaction of a CV or a logo fails: the new file is removed.
RollBack(u) ==
  /\ up[u].pc \in {"demote", "demoting", "insert", "setLogo"}
  /\ up' = [up EXCEPT ![u].pc = "cleanup"]
  /\ UNCHANGED <<area, store, rows, mishap>>

-----------------------------------------------------------------------------
(* JobDescriptionMediaService: an image is never removed.                  *)

InsertImage(u) ==
  /\ up[u].pc = "insertImage"
  /\ images' = images \cup {up[u].key}
  /\ up' = [up EXCEPT ![u] = NoUpload]
  /\ UNCHANGED <<area, store, resumes, primary, pointer, mishap>>

Upload(u) ==
  \/ \E a \in Areas : Put(u, a)
  \/ Cleanup(u) \/ RemoveOld(u) \/ GivesUp(u) \/ RollBack(u)
  \/ DemoteStart(u) \/ DemoteEnd(u) \/ InsertPrimary(u)
  \/ ReadPhoto(u) \/ DeletePhoto(u) \/ SetPhoto(u)
  \/ SetLogo(u) \/ RemoveLogo(u)
  \/ InsertImage(u)

-----------------------------------------------------------------------------
(* Properties.                                                             *)

Pointers == {pointer[p] : p \in Pictures} \ {Null}

\* No row points at a file that is not there, however uploads, replacements
\* and removals overlap and fail: files are stored before their row and
\* removed after it (removeFileQuietly, "after the row is gone").
RowsHaveFiles == resumes \cup images \cup Pointers \subseteq store
=============================================================================
