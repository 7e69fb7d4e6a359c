-------------------------- MODULE ApplicationsProofs --------------------------
(***************************************************************************)
(* Proofs about Uploads and Applications, for any number of files,         *)
(* requests, jobs and applications.                                        *)
(*                                                                         *)
(* A file belongs to the request that stored it until a row takes it over, *)
(* and from then on nobody stores, holds or takes it over again: what a    *)
(* request removes later can be in no row.  An application request has     *)
(* seen each older application of its job withdrawn, which is for good.    *)
(* The last section maps both modules to CandidateDesk.                    *)
(***************************************************************************)
EXTENDS Applications, TLAPS

Rows == resumes \cup images \cup Pointers

\* A row points at a file that was stored for it.
RowsFit ==
  /\ \A k \in resumes : area[k] = "cv"
  /\ \A k \in images : area[k] = "image"
  /\ \A p \in Pictures : pointer[p] # Null => area[pointer[p]] = p

\* What was never stored is no file.
KeysAreFresh == \A k \in store : area[k] # Null

Unheld(k) == \A v \in Uploaders : up[v].key # k

\* The file of a request is there, in no row, and nobody else's.
HoldsFile(u) ==
  up[u].key # Null =>
    /\ up[u].key \in store /\ up[u].key \notin Rows
    /\ \A v \in Uploaders : up[v].key = up[u].key => v = u

\* A file that is replaced was in a row, and is in none when it goes.
Replaces(u) ==
  /\ up[u].old # Null => area[up[u].old] \in Pictures /\ Unheld(up[u].old)
  /\ up[u].pc = "removeOld" =>
       up[u].old # Null /\ up[u].old \notin Rows /\ up[u].key = Null

\* What the steps to come write belongs where they write it.
FitsStep(u) ==
  LET pc == up[u].pc  k == up[u].key IN
  /\ pc = "idle" => k = Null
  /\ pc \in {"demote", "demoting", "insert"} => k # Null /\ area[k] = "cv"
  /\ pc = "readPhoto" => k # Null /\ area[k] = "photo"
  /\ pc = "setPhoto" => /\ k # Null => area[k] = "photo"
                        /\ up[u].old # Null => area[up[u].old] = "photo"
  /\ pc = "setLogo" => k # Null /\ area[k] = "logo"
  /\ pc = "insertImage" => k # Null /\ area[k] = "image"

UploadOK(u) == HoldsFile(u) /\ Replaces(u) /\ FitsStep(u)
UploadsOK == \A u \in Uploaders : UploadOK(u)

\* A CV that is being deleted was in a row, and is in none when it goes.
DeleteOK(r) ==
  /\ ap[r].pc \in {"inUse", "deleteRow", "removeCv"} =>
       ap[r].cv # Null /\ area[ap[r].cv] = "cv" /\ Unheld(ap[r].cv)
  /\ ap[r].pc = "removeCv" => ap[r].cv \notin Rows

\* What the reads of a request about applications keep true.
Applying == {"active", "withdrawn", "resume", "insert"}
Older(r) == ap[r].knew \cap Of(ap[r].job)
RequestOK(r) ==
  /\ ap[r].pc \in Applying => ap[r].job \in Jobs /\ ap[r].knew \subseteq Made
  /\ ap[r].pc \in Applying \ {"active"} =>
       \A b \in Older(r) : apps[b].status = "withdrawn"
  /\ ap[r].pc \in {"resume", "insert"} =>
       \A b \in Older(r) : now - apps[b].at >= Cooldown
  /\ ap[r].pc \in {"withdraw", "view"} => ap[r].app \in Made
RequestsOK == \A r \in Appliers : DeleteOK(r) /\ RequestOK(r)

KnewMade == \A i \in Made : apps[i].knew \subseteq Made

\* Who still has to see to a file.
InHand(k) ==
  \/ \E u \in Uploaders : up[u].key = k
  \/ \E u \in Uploaders : up[u].pc = "removeOld" /\ up[u].old = k
  \/ \E r \in Appliers : ap[r].pc = "removeCv" /\ ap[r].cv = k
FilesAccounted ==
  ~mishap => \A k \in store :
    area[k] \in {"cv", "logo"} => k \in resumes \cup Pointers \/ InHand(k)

IInv ==
  /\ TypeOK
  /\ RowsFit /\ RowsHaveFiles /\ KeysAreFresh
  /\ UploadsOK /\ RequestsOK
  /\ CvKept
  /\ KnewMade /\ CooldownKept
  /\ FilesAccounted

-----------------------------------------------------------------------------
(* The frame: what a step must leave alone for the others to go on.        *)

\* Membership in Rows, before and after a step, without the set expressions.
LEMMA RowsAre ==
  /\ \A k : k \in Rows <=>
       \/ k \in resumes \/ k \in images
       \/ k # Null /\ (k = pointer["photo"] \/ k = pointer["logo"])
  /\ \A k : k \in Rows' <=>
       \/ k \in resumes' \/ k \in images'
       \/ k # Null /\ (k = pointer'["photo"] \/ k = pointer'["logo"])
  /\ RowsHaveFiles <=> Rows \subseteq store
  /\ RowsHaveFiles' <=> Rows' \subseteq store'
BY DEF Rows, RowsHaveFiles, Pointers, Pictures

\* A step of request u: stored files keep their area, u may give its file up
\* or take a fresh key, only the file of u may enter a row, and no file that
\* another request holds is removed.
Moves(u) ==
  /\ \A k \in Keys : area[k] # Null => area'[k] = area[k]
  /\ \A w \in Uploaders : w # u => up'[w] = up[w]
  /\ \A w \in Uploaders :
       w = u => \/ up'[w].key = Null \/ up'[w].key = up[w].key
                \/ area[up'[w].key] = Null
  /\ \A k \in Rows' :
       k \in Rows \/ (u \in Uploaders /\ k = up[u].key /\ k # Null)
  /\ \A k \in store :
       k \in store' \/ Unheld(k) \/ (u \in Uploaders /\ k = up[u].key)

\* Then the uploads of the others and the deletions go on undisturbed.
LEMMA OthersGoOn ==
  ASSUME TypeOK, UploadsOK, KeysAreFresh, NEW u, Moves(u)
  PROVE  /\ \A v \in Uploaders : v # u => UploadOK(v)'
         /\ \A r \in Appliers : DeleteOK(r) /\ ap'[r] = ap[r] => DeleteOK(r)'
<1> USE UploadsAssumptions DEF UploadsOK, UploadOK, HoldsFile, Replaces
<1>1. \A k \in Keys : area[k] # Null /\ Unheld(k) => Unheld(k)'
  <2> SUFFICES ASSUME NEW k \in Keys, area[k] # Null, Unheld(k),
                      NEW w \in Uploaders
               PROVE  up'[w].key # k
    BY DEF Unheld
  <2> QED
    BY UploadsAssumptions DEF Moves, Unheld
<1>2. \A k \in Keys : Unheld(k) /\ k \notin Rows => k \notin Rows'
  BY DEF Moves, Unheld
<1>3. ASSUME NEW v \in Uploaders, v # u
      PROVE  UploadOK(v)'
  <2>1. up'[v] = up[v] /\ up[v].key \in Keys \cup {Null}
          /\ up[v].old \in Keys \cup {Null}
    BY <1>3 DEF Moves, TypeOK, UploadsTypeOK
  <2>2. HoldsFile(v)'
    <3> SUFFICES ASSUME up[v].key # Null
                 PROVE  /\ up[v].key \in store' /\ up[v].key \notin Rows'
                        /\ \A w \in Uploaders : up'[w].key = up[v].key => w = v
      BY <2>1
    <3>1. /\ up[v].key \in store /\ up[v].key \notin Rows
          /\ \A w \in Uploaders : up[w].key = up[v].key => w = v
      OBVIOUS
    <3>2. area[up[v].key] # Null
      BY <3>1 DEF KeysAreFresh
    <3>3. up[v].key \in store'
      BY <3>1, <1>3 DEF Moves, Unheld
    <3>4. up[v].key \notin Rows'
      BY <3>1, <1>3 DEF Moves
    <3>5. ASSUME NEW w \in Uploaders, up'[w].key = up[v].key
          PROVE  w = v
      <4>1. CASE w = u
        BY <3>1, <3>2, <3>5, <4>1 DEF Moves
      <4>2. CASE w # u
        BY <3>1, <3>5, <4>2 DEF Moves
      <4> QED
        BY <4>1, <4>2
    <3> QED
      BY <3>3, <3>4, <3>5
  <2>3. area'[up[v].key] = area[up[v].key] \/ up[v].key = Null
    <3>1. up[v].key # Null => area[up[v].key] # Null
      BY DEF KeysAreFresh
    <3> QED
      BY <2>1, <3>1 DEF Moves
  <2>4. up[v].old # Null =>
          /\ area[up[v].old] # Null /\ area'[up[v].old] = area[up[v].old]
          /\ Unheld(up[v].old) /\ Unheld(up[v].old)'
    <3>1. up[v].old # Null => area[up[v].old] # Null
      BY DEF Pictures, Areas
    <3> QED
      BY <1>1, <2>1, <3>1 DEF Moves
  <2>5. Replaces(v)'
    BY <1>2, <2>1, <2>4
  <2>6. FitsStep(v)'
    BY <2>1, <2>3, <2>4 DEF FitsStep
  <2> QED
    BY <2>2, <2>5, <2>6
<1>4. ASSUME NEW r \in Appliers, DeleteOK(r), ap'[r] = ap[r]
      PROVE  DeleteOK(r)'
  <2>1. ap[r].cv \in Keys \cup {Null}
    BY DEF TypeOK
  <2>2. ap[r].pc \in {"inUse", "deleteRow", "removeCv"} =>
          /\ area'[ap[r].cv] = area[ap[r].cv]
          /\ Unheld(ap[r].cv)'
    BY <1>1, <1>4, <2>1 DEF DeleteOK, Moves, Areas
  <2> QED
    BY <1>2, <1>4, <2>1, <2>2 DEF DeleteOK
<1> QED
  BY <1>3, <1>4

\* An application that is there stays, with its job, CV and past; a withdrawn
\* one does not change.
AppsGrow ==
  /\ now' \in 0..MaxTime /\ now <= now'
  /\ \A b \in Made :
       /\ b \in Made'
       /\ apps'[b].job = apps[b].job /\ apps'[b].cv = apps[b].cv
       /\ apps'[b].knew = apps[b].knew
       /\ apps'[b].created = apps[b].created
       /\ apps[b].status = "withdrawn" =>
            apps'[b].status = "withdrawn" /\ apps'[b].at = apps[b].at

\* Then what the other requests have read stays true.
LEMMA ReadsStayTrue ==
  ASSUME TypeOK, AppsGrow
  PROVE  \A r \in Appliers : RequestOK(r) /\ ap'[r] = ap[r] => RequestOK(r)'
<1> SUFFICES ASSUME NEW r \in Appliers, RequestOK(r), ap'[r] = ap[r]
             PROVE  RequestOK(r)'
    OBVIOUS
<1>1. /\ now \in Nat /\ now' \in Nat /\ now <= now' /\ Cooldown \in Nat
      /\ \A b \in Made : apps[b].at \in Nat
  BY ApplicationsAssumptions DEF TypeOK, AppsGrow, Made, Application
<1>2. Made \subseteq Made'
  BY DEF AppsGrow
<1>3. ap[r].pc \in Applying => Older(r)' = Older(r) /\ Older(r) \subseteq Made
  BY <1>2 DEF Older, Of, AppsGrow, RequestOK
<1>4. ap[r].pc \in Applying \ {"active"} =>
        \A b \in Older(r) : apps'[b].status = "withdrawn"
                              /\ apps'[b].at = apps[b].at
  BY <1>3 DEF AppsGrow, RequestOK
<1>5. ap[r].pc \in {"resume", "insert"} =>
        \A b \in Older(r) : now' - apps'[b].at >= Cooldown
  <2> SUFFICES ASSUME ap[r].pc \in {"resume", "insert"}, NEW b \in Older(r)
               PROVE  now' - apps'[b].at >= Cooldown
    OBVIOUS
  <2>1. ap[r].pc \in Applying /\ ap[r].pc \in Applying \ {"active"}
    BY DEF Applying
  <2>2. now - apps[b].at >= Cooldown /\ b \in Made
    BY <1>3, <2>1 DEF RequestOK
  <2> QED
    BY <1>1, <1>4, <2>1, <2>2
<1> QED
  BY <1>2, <1>3, <1>4, <1>5 DEF RequestOK, Applying

\* An application made earlier keeps what CooldownKept says of it.
LEMMA CooldownStays ==
  ASSUME TypeOK, AppsGrow, KnewMade, CooldownKept, NEW i \in Made
  PROVE  /\ apps'[i].knew \subseteq Made'
         /\ \A b \in apps'[i].knew \cap Of(apps[i].job)' :
              /\ apps'[b].status = "withdrawn"
              /\ apps'[i].created - apps'[b].at >= Cooldown
<1>1. /\ apps[i].knew \subseteq Made /\ apps'[i].knew = apps[i].knew
      /\ apps[i].knew \subseteq Made'
  BY DEF KnewMade, AppsGrow
<1>2. apps[i].knew \cap Of(apps[i].job)' = apps[i].knew \cap Of(apps[i].job)
  BY <1>1 DEF Of, AppsGrow
<1>3. ASSUME NEW b \in apps[i].knew \cap Of(apps[i].job)
      PROVE  /\ apps'[b].status = "withdrawn"
             /\ apps'[i].created - apps'[b].at >= Cooldown
  <2>1. apps[b].status = "withdrawn" /\ apps[i].created - apps[b].at >= Cooldown
    BY <1>3 DEF CooldownKept
  <2>2. b \in Made
    BY <1>3 DEF Of
  <2> QED
    BY <2>1, <2>2 DEF AppsGrow
<1> QED
  BY <1>1, <1>2, <1>3

\* A step about files alone keeps the invariant once it keeps what it touches.
LEMMA FilesStep ==
  ASSUME IInv, NEW u \in Uploaders, UNCHANGED <<apps, now, ap>>,
         UploadsTypeOK', RowsFit', RowsHaveFiles', KeysAreFresh',
         Moves(u), UploadOK(u)', resumes \subseteq resumes', FilesAccounted'
  PROVE  IInv'
<1>1. Made' = Made
  BY DEF Made
<1>2. AppsGrow
  BY <1>1 DEF IInv, TypeOK, AppsGrow
<1>3. UploadsOK' /\ RequestsOK'
  BY <1>2, OthersGoOn, ReadsStayTrue DEF IInv, UploadsOK, RequestsOK
<1>4. TypeOK'
  BY DEF IInv, TypeOK
<1>5. CvKept'
  BY <1>1 DEF IInv, CvKept, RowsHaveFiles
<1>6. KnewMade' /\ CooldownKept'
  BY <1>1 DEF IInv, KnewMade, CooldownKept, Of
<1> QED
  BY <1>3, <1>4, <1>5, <1>6 DEF IInv

\* The initial state satisfies the invariant.
LEMMA InitIInv == Init => IInv
<1> SUFFICES ASSUME Init PROVE IInv
    OBVIOUS
<1> USE UploadsAssumptions, ApplicationsAssumptions DEF Init, UploadsInit
<1>1. NoUpload.pc = "idle" /\ NoUpload.key = Null /\ NoUpload.old = Null
        /\ NoRequest.pc = "idle" /\ NoUpload.seen = {}
  BY DEF NoUpload, NoRequest
<1>2. TypeOK
  <2>1. NoRequest \in [pc : Pc, job : Jobs \cup {Null}, cv : Keys \cup {Null},
                       app : AppIds \cup {Null}, knew : SUBSET AppIds]
    BY DEF NoRequest, Pc
  <2>2. NoUpload \in [pc : UploadPc, key : Keys \cup {Null},
                      old : Keys \cup {Null}, seen : SUBSET Keys]
    BY DEF NoUpload, UploadPc
  <2>3. UploadsTypeOK
    BY <2>2 DEF UploadsTypeOK
  <2> QED
    BY <2>1, <2>3 DEF TypeOK
<1>3. RowsFit /\ RowsHaveFiles /\ KeysAreFresh
  BY DEF RowsFit, RowsHaveFiles, KeysAreFresh, Pointers
<1>4. Made = {}
  BY DEF Made
<1>5. UploadsOK
  BY <1>1 DEF UploadsOK, UploadOK, HoldsFile, Replaces, FitsStep
<1>6. RequestsOK
  BY <1>1 DEF RequestsOK, RequestOK, DeleteOK, Applying
<1> QED
  BY <1>2, <1>3, <1>4, <1>5, <1>6 DEF IInv, CvKept, KnewMade, CooldownKept,
                                      FilesAccounted

-----------------------------------------------------------------------------
(* Uploads.                                                                *)

Upload1 == [pc : UploadPc, key : Keys \cup {Null}, old : Keys \cup {Null},
            seen : SUBSET Keys]

\* A step that only notes something in its request, or gives up.
LEMMA QuietStep ==
  ASSUME IInv, NEW u \in Uploaders, NEW q \in Upload1,
         up' = [up EXCEPT ![u] = q],
         UNCHANGED <<area, store, rows, apps, now, ap>>,
         \/ mishap' = mishap /\ q.key = up[u].key /\ up[u].pc # "removeOld"
         \/ mishap' = TRUE /\ q.key = Null,
         UploadOK(u)'
  PROVE  IInv'
<1>1. up'[u] = q /\ \A w \in Uploaders : w # u => up'[w] = up[w]
  BY DEF IInv, TypeOK, UploadsTypeOK
<1>2. /\ UNCHANGED <<resumes, primary, pointer, images>>
      /\ Rows' = Rows /\ Pointers' = Pointers
  BY DEF rows, Rows, Pointers
<1>3. UploadsTypeOK'
  BY <1>2 DEF IInv, TypeOK, UploadsTypeOK, Upload1
<1>4. RowsFit' /\ RowsHaveFiles' /\ KeysAreFresh'
  BY <1>2 DEF IInv, RowsFit, RowsHaveFiles, KeysAreFresh
<1>5. Moves(u)
  BY <1>1, <1>2 DEF Moves
<1>6. FilesAccounted'
  <2> SUFFICES ASSUME ~mishap', NEW k \in store, area[k] \in {"cv", "logo"}
               PROVE  k \in resumes \cup Pointers \/ InHand(k)'
    BY <1>2 DEF FilesAccounted
  <2>1. ~mishap /\ q.key = up[u].key /\ up[u].pc # "removeOld"
    OBVIOUS
  <2>2. k \in resumes \cup Pointers \/ InHand(k)
    BY <2>1 DEF IInv, FilesAccounted
  <2>3. \A w \in Uploaders :
          /\ up[w].key = k => up'[w].key = k
          /\ up[w].pc = "removeOld" => up'[w] = up[w]
    BY <1>1, <2>1
  <2> QED
    BY <2>2, <2>3 DEF InHand
<1> QED
  BY <1>2, <1>3, <1>4, <1>5, <1>6, FilesStep

\* Put: the key is fresh, so nobody knows it.
LEMMA PutStep ==
  ASSUME IInv, NEW u \in Uploaders, NEW a \in Areas, Put(u, a),
         UNCHANGED <<apps, now, ap>>
  PROVE  IInv'
<1> USE UploadsAssumptions
<1>1. PICK k \in Keys :
        /\ area[k] = Null
        /\ area' = [area EXCEPT ![k] = a]
        /\ store' = store \cup {k}
        /\ up' = [up EXCEPT ![u] = [NoUpload EXCEPT !.pc = NextPc(a),
                                                    !.key = k]]
  BY DEF Put
<1>2. /\ up[u].pc = "idle" /\ UNCHANGED <<resumes, primary, pointer, images>>
      /\ mishap' = mishap /\ Rows' = Rows /\ Pointers' = Pointers
  BY DEF Put, rows, Rows, Pointers
<1>3. /\ up'[u] = [pc |-> NextPc(a), key |-> k, old |-> Null, seen |-> {}]
      /\ \A w \in Uploaders : w # u => up'[w] = up[w]
  BY <1>1 DEF IInv, TypeOK, UploadsTypeOK, NoUpload
<1>4. area'[k] = a /\ \A x \in Keys : x # k => area'[x] = area[x]
  BY <1>1 DEF IInv, TypeOK, UploadsTypeOK
<1>5. k \notin store /\ k \notin Rows /\ k \notin resumes /\ k \notin images
        /\ \A p \in Pictures : pointer[p] # k
  BY <1>1 DEF IInv, RowsHaveFiles, KeysAreFresh, Rows, Pointers
<1>6. /\ a = "cv" => NextPc(a) = "demote"
      /\ a = "photo" => NextPc(a) = "readPhoto"
      /\ a = "logo" => NextPc(a) = "setLogo"
      /\ a = "image" => NextPc(a) = "insertImage"
  BY DEF NextPc
<1>7. /\ NextPc(a) \in UploadPc \ {"removeOld", "idle", "demoting", "insert",
                                   "setPhoto"}
  BY <1>6 DEF Areas, UploadPc
<1>8. UploadsTypeOK'
  <2>1. up'[u] \in Upload1
    BY <1>3, <1>7 DEF Upload1
  <2>2. up' \in [Uploaders -> Upload1]
    BY <1>1, <1>3, <2>1 DEF IInv, TypeOK, UploadsTypeOK, Upload1
  <2> QED
    BY <1>1, <1>2, <2>2 DEF IInv, TypeOK, UploadsTypeOK, Upload1
<1>9. RowsFit' /\ RowsHaveFiles' /\ KeysAreFresh'
  <2>1. RowsFit'
    BY <1>2, <1>4, <1>5 DEF IInv, RowsFit, TypeOK, UploadsTypeOK
  <2>2. RowsHaveFiles'
    BY <1>1, <1>2 DEF IInv, RowsHaveFiles
  <2>3. KeysAreFresh'
    BY <1>1, <1>4 DEF IInv, KeysAreFresh, TypeOK, UploadsTypeOK
  <2> QED
    BY <2>1, <2>2, <2>3
<1>10. Moves(u)
  BY <1>1, <1>2, <1>3, <1>4 DEF Moves
<1>11. UploadOK(u)'
  <2>1. \A w \in Uploaders : w # u => up'[w].key # k
    <3> SUFFICES ASSUME NEW w \in Uploaders, up[w].key = k PROVE FALSE
      BY <1>3
    <3> QED
      BY <1>5 DEF IInv, UploadsOK, UploadOK, HoldsFile
  <2>2. HoldsFile(u)'
    BY <1>1, <1>2, <1>3, <1>5, <2>1 DEF HoldsFile
  <2>3. Replaces(u)'
    BY <1>3, <1>7 DEF Replaces
  <2>4. FitsStep(u)'
    BY <1>3, <1>4, <1>6, <1>7 DEF FitsStep, Areas
  <2> QED
    BY <2>2, <2>3, <2>4 DEF UploadOK
<1>12. FilesAccounted'
  <2> SUFFICES ASSUME ~mishap', NEW x \in store', area'[x] \in {"cv", "logo"}
               PROVE  x \in resumes \cup Pointers \/ InHand(x)'
    BY <1>2 DEF FilesAccounted
  <2>1. CASE x = k
    BY <1>3, <2>1 DEF InHand
  <2>2. CASE x # k
    <3>1. x \in resumes \cup Pointers \/ InHand(x)
      BY <1>1, <1>2, <1>4, <2>2 DEF IInv, FilesAccounted, TypeOK, UploadsTypeOK
    <3>2. up[u].key # x
      BY <1>1, <1>2, <2>2
         DEF IInv, UploadsOK, UploadOK, FitsStep, TypeOK, UploadsTypeOK
    <3> QED
      BY <1>2, <1>3, <3>1, <3>2 DEF InHand
  <2> QED
    BY <2>1, <2>2
<1> QED
  BY <1>2, <1>8, <1>9, <1>10, <1>11, <1>12, FilesStep

\* Cleanup and RemoveOld: the file that goes is in no row, and nobody else's.
LEMMA RemoveStep ==
  ASSUME IInv, NEW u \in Uploaders, Cleanup(u) \/ RemoveOld(u),
         UNCHANGED <<apps, now, ap>>
  PROVE  IInv'
<1> USE UploadsAssumptions
<1>1. PICK k \in Keys \cup {Null} :
        /\ store' = store \ {k}
        /\ \/ up[u].pc = "cleanup" /\ k = up[u].key
           \/ up[u].pc = "removeOld" /\ k = up[u].old
        /\ up' = [up EXCEPT ![u] = NoUpload]
        /\ UNCHANGED <<area, rows, mishap>>
  BY DEF Cleanup, RemoveOld, RemoveFile, IInv, TypeOK, UploadsTypeOK
<1>2. /\ UNCHANGED <<area, resumes, primary, pointer, images, mishap>>
      /\ Rows' = Rows /\ Pointers' = Pointers
  BY <1>1 DEF rows, Rows, Pointers
<1>3. /\ NoUpload \in Upload1 /\ NoUpload.key = Null /\ NoUpload.old = Null
      /\ NoUpload.pc = "idle"
  BY DEF NoUpload, Upload1, UploadPc
<1>4. up'[u] = NoUpload /\ \A w \in Uploaders : w # u => up'[w] = up[w]
  BY <1>1 DEF IInv, TypeOK, UploadsTypeOK
<1>5. UploadOK(u)
  BY DEF IInv, UploadsOK
<1>6. k \notin Rows
  BY <1>1, <1>5, RowsAre DEF UploadOK, HoldsFile, Replaces, IInv, TypeOK,
                             UploadsTypeOK
<1>7. k # Null => Unheld(k) \/ k = up[u].key
  BY <1>1, <1>5 DEF UploadOK, Replaces
<1>8. UploadsTypeOK'
  BY <1>1, <1>2, <1>3 DEF IInv, TypeOK, UploadsTypeOK, Upload1
<1>9. RowsFit' /\ RowsHaveFiles' /\ KeysAreFresh'
  BY <1>1, <1>2, <1>6, RowsAre DEF IInv, RowsFit, KeysAreFresh
<1>10. Moves(u)
  <2>1. \A x \in store : x \in store' \/ Unheld(x) \/ x = up[u].key
    BY <1>1, <1>7 DEF IInv, TypeOK, UploadsTypeOK
  <2> QED
    BY <1>2, <1>3, <1>4, <2>1 DEF Moves
<1>11. UploadOK(u)'
  BY <1>3, <1>4 DEF UploadOK, HoldsFile, Replaces, FitsStep
<1>12. FilesAccounted'
  <2> SUFFICES ASSUME ~mishap', NEW x \in store', area[x] \in {"cv", "logo"}
               PROVE  x \in resumes \cup Pointers \/ InHand(x)'
    BY <1>2 DEF FilesAccounted
  <2>1. x \in store /\ x # k /\ x \in Keys /\ x # Null
    BY <1>1 DEF IInv, TypeOK, UploadsTypeOK
  <2>2. x \in resumes \cup Pointers \/ InHand(x)
    BY <1>2, <2>1 DEF IInv, FilesAccounted
  <2>3. up[u].key # x /\ ~(up[u].pc = "removeOld" /\ up[u].old = x)
    BY <1>1, <1>5, <2>1 DEF UploadOK, Replaces
  <2> QED
    BY <1>4, <2>2, <2>3 DEF InHand
<1> QED
  BY <1>2, <1>8, <1>9, <1>10, <1>11, <1>12, FilesStep

\* The steps that only note something, read the row, or give up.
LEMMA NotingSteps ==
  ASSUME IInv, NEW u \in Uploaders, UNCHANGED <<apps, now, ap>>,
         \/ DemoteStart(u) \/ DemoteEnd(u) \/ RollBack(u) \/ GivesUp(u)
         \/ ReadPhoto(u) \/ DeletePhoto(u)
  PROVE  IInv'
<1> USE UploadsAssumptions
<1>1. up \in [Uploaders -> Upload1] /\ up[u] \in Upload1
  BY DEF IInv, TypeOK, UploadsTypeOK, Upload1
<1>2. UploadOK(u)
  BY DEF IInv, UploadsOK
<1>3. UNCHANGED <<area, store, rows>> /\ UNCHANGED Rows
  BY DEF DemoteStart, DemoteEnd, RollBack, GivesUp, ReadPhoto, DeletePhoto,
         rows, Rows, Pointers
<1>4. pointer["photo"] \in Keys \cup {Null} /\ resumes \subseteq Keys
  BY DEF IInv, TypeOK, UploadsTypeOK, Pictures
<1>5. ASSUME NEW q \in Upload1, up' = [up EXCEPT ![u] = q], q.key = up[u].key
      PROVE  HoldsFile(u)'
  <2>1. up'[u] = q /\ \A w \in Uploaders : up'[w].key = up[w].key
    BY <1>1, <1>5
  <2> QED
    BY <1>2, <1>3, <1>5, <2>1 DEF UploadOK, HoldsFile
<1>6. CASE DemoteStart(u)
  <2> DEFINE q == [up[u] EXCEPT !.seen = resumes, !.pc = "demoting"]
  <2>1. /\ q \in Upload1 /\ q.pc = "demoting"
        /\ q.key = up[u].key /\ q.old = up[u].old
    BY <1>1, <1>4 DEF Upload1, UploadPc
  <2>2. /\ up' = [up EXCEPT ![u] = q] /\ mishap' = mishap
        /\ up[u].pc = "demote" /\ up'[u] = q
        /\ \A w \in Uploaders : up'[w].key = up[w].key
    BY <1>1, <1>6, <2>1 DEF DemoteStart
  <2>3. UploadOK(u)'
    <3> HIDE DEF q
    <3>1. Replaces(u)' /\ FitsStep(u)'
      BY <1>2, <1>3, <2>1, <2>2 DEF UploadOK, Replaces, FitsStep, Unheld
    <3> QED
      BY <1>5, <2>1, <2>2, <3>1 DEF UploadOK
  <2> HIDE DEF q
  <2> QED
    BY <1>3, <2>1, <2>2, <2>3, QuietStep
<1>7. CASE DemoteEnd(u)
  <2> DEFINE q == [up[u] EXCEPT !.pc = "insert"]
  <2>1. /\ q \in Upload1 /\ q.pc = "insert"
        /\ q.key = up[u].key /\ q.old = up[u].old
    BY <1>1 DEF Upload1, UploadPc
  <2>2. /\ up' = [up EXCEPT ![u] = q] /\ mishap' = mishap
        /\ up[u].pc = "demoting" /\ up'[u] = q
        /\ \A w \in Uploaders : up'[w].key = up[w].key
    BY <1>1, <1>7, <2>1 DEF DemoteEnd
  <2>3. UploadOK(u)'
    <3> HIDE DEF q
    <3>1. Replaces(u)' /\ FitsStep(u)'
      BY <1>2, <1>3, <2>1, <2>2 DEF UploadOK, Replaces, FitsStep, Unheld
    <3> QED
      BY <1>5, <2>1, <2>2, <3>1 DEF UploadOK
  <2> HIDE DEF q
  <2> QED
    BY <1>3, <2>1, <2>2, <2>3, QuietStep
<1>8. CASE RollBack(u)
  <2> DEFINE q == [up[u] EXCEPT !.pc = "cleanup"]
  <2>1. /\ q \in Upload1 /\ q.pc = "cleanup"
        /\ q.key = up[u].key /\ q.old = up[u].old
    BY <1>1 DEF Upload1, UploadPc
  <2>2. /\ up' = [up EXCEPT ![u] = q] /\ mishap' = mishap
        /\ up[u].pc # "removeOld" /\ up'[u] = q
        /\ \A w \in Uploaders : up'[w].key = up[w].key
    BY <1>1, <1>8, <2>1 DEF RollBack
  <2>3. UploadOK(u)'
    <3> HIDE DEF q
    <3>1. Replaces(u)' /\ FitsStep(u)'
      BY <1>2, <1>3, <2>1, <2>2 DEF UploadOK, Replaces, FitsStep, Unheld
    <3> QED
      BY <1>5, <2>1, <2>2, <3>1 DEF UploadOK
  <2> HIDE DEF q
  <2> QED
    BY <1>3, <2>1, <2>2, <2>3, QuietStep
<1>9. CASE GivesUp(u)
  <2>1. /\ NoUpload \in Upload1 /\ NoUpload.key = Null /\ NoUpload.old = Null
        /\ NoUpload.pc = "idle"
    BY DEF NoUpload, Upload1, UploadPc
  <2>2. up' = [up EXCEPT ![u] = NoUpload] /\ mishap' = TRUE /\ up'[u] = NoUpload
    BY <1>1, <1>9 DEF GivesUp
  <2>3. UploadOK(u)'
    BY <2>1, <2>2 DEF UploadOK, HoldsFile, Replaces, FitsStep
  <2> QED
    BY <1>3, <2>1, <2>2, <2>3, QuietStep
<1>10. CASE ReadPhoto(u) \/ DeletePhoto(u)
  <2> DEFINE q == [pc |-> "setPhoto", key |-> up[u].key,
                   old |-> pointer["photo"], seen |-> up'[u].seen]
  <2>1. /\ up' = [up EXCEPT ![u] = q] /\ mishap' = mishap
        /\ up[u].pc \in {"readPhoto", "idle"} /\ up'[u] = q
        /\ q \in Upload1
    <3>1. CASE ReadPhoto(u)
      BY <1>1, <1>4, <3>1 DEF ReadPhoto, Upload1, UploadPc
    <3>2. CASE DeletePhoto(u)
      <4>1. up[u].key = Null
        BY <1>2, <3>2 DEF DeletePhoto, UploadOK, FitsStep
      <4>2. /\ up'[u] = [pc |-> "setPhoto", key |-> Null,
                         old |-> pointer["photo"], seen |-> {}]
            /\ mishap' = mishap /\ up[u].pc = "idle"
        BY <1>1, <3>2 DEF DeletePhoto, NoUpload
      <4>3. up' = [up EXCEPT ![u] = up'[u]]
        BY <1>1, <3>2 DEF DeletePhoto
      <4>4. q = up'[u]
        BY <4>1, <4>2
      <4> QED
        BY <1>4, <4>2, <4>3, <4>4 DEF Upload1, UploadPc
    <3> QED
      BY <1>10, <3>1, <3>2
  <2>2. /\ q.pc = "setPhoto" /\ q.key = up[u].key /\ q.old = pointer["photo"]
        /\ \A w \in Uploaders : up'[w].key = up[w].key
    BY <1>1, <2>1
  <2> HIDE DEF q
  <2>3. pointer["photo"] # Null =>
          /\ area[pointer["photo"]] = "photo"
          /\ pointer["photo"] \in Rows
    BY DEF IInv, RowsFit, Pictures, Rows, Pointers
  <2>4. pointer["photo"] # Null => Unheld(pointer["photo"])
    BY <2>3 DEF IInv, UploadsOK, UploadOK, HoldsFile, Unheld
  <2>5. Replaces(u)' /\ FitsStep(u)'
    BY <1>2, <1>3, <2>1, <2>2, <2>3, <2>4
       DEF UploadOK, Replaces, FitsStep, Unheld, Pictures
  <2>6. UploadOK(u)'
    BY <1>5, <2>1, <2>2, <2>5 DEF UploadOK
  <2> QED
    BY <1>3, <2>1, <2>2, <2>6, QuietStep
<1> QED
  BY <1>6, <1>7, <1>8, <1>9, <1>10

\* A step that lets a row take the file over, and may leave another to remove.
LEMMA TakeOverStep ==
  ASSUME IInv, NEW u \in Uploaders, NEW q \in Upload1, q.key = Null,
         up' = [up EXCEPT ![u] = q], up[u].pc # "removeOld",
         UNCHANGED <<area, store, mishap, apps, now, ap>>,
         UploadsTypeOK', RowsFit', resumes \subseteq resumes',
         \A k \in Rows' : k \in Rows \/ (k = up[u].key /\ k # Null),
         \/ q.pc = "idle" /\ q.old = Null
         \/ /\ q.pc = "removeOld" /\ q.old # Null /\ q.old \notin Rows'
            /\ area[q.old] \in Pictures /\ Unheld(q.old),
         \A k \in store :
           area[k] \in {"cv", "logo"} /\ k \in Pointers \cup {up[u].key}
             => \/ k \in resumes' \/ k \in Pointers'
                \/ q.pc = "removeOld" /\ k = q.old
  PROVE  IInv'
<1>1. up'[u] = q /\ \A w \in Uploaders : w # u => up'[w] = up[w]
  BY DEF IInv, TypeOK, UploadsTypeOK
<1>2. UploadOK(u)
  BY DEF IInv, UploadsOK
<1>3. RowsHaveFiles' /\ KeysAreFresh'
  <2>1. Rows' \subseteq store
    BY <1>2, RowsAre DEF IInv, UploadOK, HoldsFile
  <2> QED
    BY <2>1, RowsAre DEF IInv, KeysAreFresh
<1>4. Moves(u)
  BY <1>1 DEF Moves
<1>5. UploadOK(u)'
  <2>1. HoldsFile(u)'
    BY <1>1 DEF HoldsFile
  <2>2. q.old # Null => Unheld(q.old)'
    BY <1>1 DEF Unheld
  <2>3. Replaces(u)'
    BY <1>1, <2>2 DEF Replaces
  <2>4. FitsStep(u)'
    BY <1>1 DEF FitsStep
  <2> QED
    BY <2>1, <2>3, <2>4 DEF UploadOK
<1>6. FilesAccounted'
  <2> SUFFICES ASSUME ~mishap, NEW k \in store, area[k] \in {"cv", "logo"}
               PROVE  k \in resumes' \/ k \in Pointers' \/ InHand(k)'
    BY DEF FilesAccounted
  <2>1. k \in resumes \/ k \in Pointers \/ InHand(k)
    BY DEF IInv, FilesAccounted
  <2>2. CASE k \in resumes
    BY <2>2
  <2>3. CASE k \in Pointers \cup {up[u].key}
    BY <1>1, <2>3 DEF InHand
  <2>4. CASE InHand(k) /\ k # up[u].key
    BY <1>1, <2>4 DEF InHand
  <2> QED
    BY <2>1, <2>2, <2>3, <2>4
<1> QED
  BY <1>3, <1>4, <1>5, <1>6, FilesStep

\* InsertPrimary, SetPhoto, SetLogo, RemoveLogo, InsertImage.
LEMMA RowSteps ==
  ASSUME IInv, NEW u \in Uploaders, UNCHANGED <<apps, now, ap>>,
         \/ InsertPrimary(u) \/ SetPhoto(u) \/ SetLogo(u) \/ RemoveLogo(u)
         \/ InsertImage(u)
  PROVE  IInv'
<1> USE UploadsAssumptions
<1>1. /\ up \in [Uploaders -> Upload1] /\ up[u] \in Upload1
      /\ pointer \in [Pictures -> Keys \cup {Null}]
      /\ "photo" \in Pictures /\ "logo" \in Pictures
      /\ \A p \in Pictures : p = "photo" \/ p = "logo"
      /\ "photo" # "logo"
  BY DEF IInv, TypeOK, UploadsTypeOK, Upload1, Pictures
<1>2. UploadOK(u)
  BY DEF IInv, UploadsOK
<1>3. /\ NoUpload \in Upload1 /\ NoUpload.key = Null /\ NoUpload.old = Null
      /\ NoUpload.pc = "idle"
  BY DEF NoUpload, Upload1, UploadPc
<1>4. /\ \A k : k \in Pointers <=>
           k # Null /\ (k = pointer["photo"] \/ k = pointer["logo"])
      /\ \A k : k \in Pointers' <=>
           k # Null /\ (k = pointer'["photo"] \/ k = pointer'["logo"])
  BY DEF Pointers, Pictures
<1>5. /\ \A k \in resumes : area[k] = "cv"
      /\ \A k \in images : area[k] = "image"
      /\ \A p \in Pictures : pointer[p] # Null => area[pointer[p]] = p
  BY DEF IInv, RowsFit
<1>6. ASSUME NEW old \in Keys \cup {Null}, ThenRemove(u, old)
      PROVE  \E q \in Upload1 :
               /\ up' = [up EXCEPT ![u] = q] /\ q.key = Null /\ q.old = old
               /\ IF old = Null THEN q.pc = "idle" ELSE q.pc = "removeOld"
  <2>1. CASE old = Null
    BY <1>3, <1>6, <2>1 DEF ThenRemove
  <2>2. CASE old # Null
    <3>1. up'[u] = [pc |-> "removeOld", key |-> Null, old |-> old,
                    seen |-> {}]
      BY <1>1, <1>6, <2>2 DEF ThenRemove, NoUpload
    <3>2. up'[u] \in Upload1
      BY <3>1 DEF Upload1, UploadPc
    <3>3. up' = [up EXCEPT ![u] = up'[u]]
      BY <1>1, <1>6, <2>2 DEF ThenRemove
    <3> QED
      BY <2>2, <3>1, <3>2, <3>3
  <2> QED
    BY <2>1, <2>2
<1>7. CASE InsertPrimary(u)
  <2>1. CASE primary \subseteq up[u].seen
    <3>1. /\ up[u].pc = "insert" /\ up' = [up EXCEPT ![u] = NoUpload]
          /\ resumes' = resumes \cup {up[u].key} /\ primary' = {up[u].key}
          /\ UNCHANGED <<area, store, pointer, images, mishap>>
      BY <1>7, <2>1 DEF InsertPrimary
    <3>2. up[u].key \in Keys /\ area[up[u].key] = "cv"
      BY <1>1, <1>2, <3>1 DEF UploadOK, FitsStep, Upload1
    <3>3. UploadsTypeOK'
      BY <1>3, <3>1, <3>2 DEF IInv, TypeOK, UploadsTypeOK, Upload1
    <3>4. RowsFit'
      BY <1>5, <3>1, <3>2 DEF RowsFit
    <3>5. \A k \in Rows' : k \in Rows \/ (k = up[u].key /\ k # Null)
      BY <3>1, <3>2, RowsAre
    <3> QED
      BY <1>3, <1>4, <3>1, <3>3, <3>4, <3>5, TakeOverStep
  <2>2. CASE ~(primary \subseteq up[u].seen)
    <3> DEFINE q == [up[u] EXCEPT !.pc = "cleanup"]
    <3>1. /\ q \in Upload1 /\ q.pc = "cleanup" /\ q.key = up[u].key
          /\ q.old = up[u].old
      BY <1>1 DEF Upload1, UploadPc
    <3>2. /\ up[u].pc = "insert" /\ up' = [up EXCEPT ![u] = q]
          /\ UNCHANGED <<area, store, rows, mishap>>
      BY <1>7, <2>2 DEF InsertPrimary, rows
    <3> HIDE DEF q
    <3>3. Rows' = Rows
      BY <3>2 DEF rows, Rows, Pointers
    <3>4. up'[u] = q /\ \A w \in Uploaders : up'[w].key = up[w].key
      BY <1>1, <3>1, <3>2
    <3>5. UploadOK(u)'
      BY <1>2, <3>1, <3>2, <3>3, <3>4
         DEF UploadOK, HoldsFile, Replaces, FitsStep, Unheld
    <3> QED
      BY <3>1, <3>2, <3>5, QuietStep
  <2> QED
    BY <2>1, <2>2
<1>8. CASE SetPhoto(u)
  <2>1. /\ up[u].pc = "setPhoto" /\ ThenRemove(u, up[u].old)
        /\ pointer' = [pointer EXCEPT !["photo"] = up[u].key]
        /\ UNCHANGED <<area, store, resumes, primary, images, mishap>>
        /\ up[u].old \in Keys \cup {Null} /\ up[u].key \in Keys \cup {Null}
    BY <1>1, <1>8 DEF SetPhoto, Upload1
  <2>2. PICK q \in Upload1 :
          /\ up' = [up EXCEPT ![u] = q] /\ q.key = Null /\ q.old = up[u].old
          /\ IF up[u].old = Null THEN q.pc = "idle" ELSE q.pc = "removeOld"
    BY <1>6, <2>1
  <2>3. pointer'["photo"] = up[u].key /\ pointer'["logo"] = pointer["logo"]
    BY <1>1, <2>1
  <2>4. /\ up[u].key # Null => area[up[u].key] = "photo"
        /\ up[u].old # Null => /\ area[up[u].old] = "photo"
                               /\ Unheld(up[u].old)
    BY <1>2, <2>1 DEF UploadOK, FitsStep, Replaces
  <2>5. UploadsTypeOK'
    BY <2>1, <2>2 DEF IInv, TypeOK, UploadsTypeOK, Upload1
  <2>6. RowsFit'
    BY <1>1, <1>5, <2>1, <2>3, <2>4 DEF RowsFit
  <2>7. \A k \in Rows' : k \in Rows \/ (k = up[u].key /\ k # Null)
    BY <2>1, <2>3, RowsAre
  <2>8. up[u].old # Null => up[u].old \notin Rows'
    BY <1>1, <1>5, <2>1, <2>3, <2>4, RowsAre DEF Unheld
  <2>9. \A k \in store :
          area[k] \in {"cv", "logo"} /\ k \in Pointers \cup {up[u].key}
            => k \in Pointers'
    BY <1>1, <1>4, <1>5, <2>3, <2>4 DEF IInv, TypeOK, UploadsTypeOK
  <2>10. \/ q.pc = "idle" /\ q.old = Null
         \/ /\ q.pc = "removeOld" /\ q.old # Null /\ q.old \notin Rows'
            /\ area[q.old] \in Pictures /\ Unheld(q.old)
    BY <1>1, <2>2, <2>4, <2>8
  <2>11. up[u].pc # "removeOld" /\ resumes \subseteq resumes'
    BY <2>1
  <2> QED
    BY <2>1, <2>2, <2>5, <2>6, <2>7, <2>9, <2>10, <2>11, TakeOverStep
<1>9. ASSUME NEW k0 \in {up[u].key}, ReplaceLogo(u, k0),
             up[u].pc \in {"setLogo", "idle"}
      PROVE  IInv'
  <2>1. /\ ThenRemove(u, pointer["logo"])
        /\ pointer' = [pointer EXCEPT !["logo"] = k0]
        /\ UNCHANGED <<area, store, resumes, primary, images, mishap>>
        /\ pointer["logo"] \in Keys \cup {Null} /\ k0 \in Keys \cup {Null}
    BY <1>1, <1>9 DEF ReplaceLogo, Upload1
  <2>2. PICK q \in Upload1 :
          /\ up' = [up EXCEPT ![u] = q] /\ q.key = Null
          /\ q.old = pointer["logo"]
          /\ IF pointer["logo"] = Null THEN q.pc = "idle"
             ELSE q.pc = "removeOld"
    BY <1>6, <2>1
  <2>3. pointer'["logo"] = k0 /\ pointer'["photo"] = pointer["photo"]
    BY <1>1, <2>1
  <2>4. k0 # Null => area[k0] = "logo" /\ k0 \notin Rows
    BY <1>2, <1>9 DEF UploadOK, FitsStep, HoldsFile
  <2>5. pointer["logo"] # Null =>
          /\ pointer["logo"] \in Rows /\ area[pointer["logo"]] = "logo"
          /\ Unheld(pointer["logo"])
    <3>1. pointer["logo"] # Null =>
            pointer["logo"] \in Rows /\ area[pointer["logo"]] = "logo"
      BY <1>1, <1>5, RowsAre
    <3> QED
      BY <3>1 DEF IInv, UploadsOK, UploadOK, HoldsFile, Unheld
  <2>6. UploadsTypeOK'
    BY <2>1, <2>2 DEF IInv, TypeOK, UploadsTypeOK, Upload1
  <2>7. RowsFit'
    BY <1>1, <1>5, <2>1, <2>3, <2>4 DEF RowsFit
  <2>8. \A k \in Rows' : k \in Rows \/ (k = up[u].key /\ k # Null)
    BY <1>9, <2>1, <2>3, RowsAre
  <2>9. pointer["logo"] # Null => pointer["logo"] \notin Rows'
    BY <1>1, <1>5, <2>1, <2>3, <2>4, <2>5, RowsAre
  <2>10. \A k \in store :
           area[k] \in {"cv", "logo"} /\ k \in Pointers \cup {up[u].key}
             => k \in Pointers' \/ (k = pointer["logo"] /\ k # Null)
    BY <1>4, <1>9, <2>3 DEF IInv, TypeOK, UploadsTypeOK
  <2>11. \/ q.pc = "idle" /\ q.old = Null
         \/ /\ q.pc = "removeOld" /\ q.old # Null /\ q.old \notin Rows'
            /\ area[q.old] \in Pictures /\ Unheld(q.old)
    BY <1>1, <2>2, <2>5, <2>9
  <2>12. \A k \in store :
           area[k] \in {"cv", "logo"} /\ k \in Pointers \cup {up[u].key}
             => \/ k \in resumes' \/ k \in Pointers'
                \/ q.pc = "removeOld" /\ k = q.old
    BY <2>2, <2>10
  <2>13. up[u].pc # "removeOld" /\ resumes \subseteq resumes'
    BY <1>9, <2>1
  <2> QED
    BY <2>1, <2>2, <2>6, <2>7, <2>8, <2>11, <2>12, <2>13, TakeOverStep
<1>10. CASE SetLogo(u)
  BY <1>9, <1>10 DEF SetLogo
<1>11. CASE RemoveLogo(u)
  <2>1. up[u].pc = "idle" /\ up[u].key = Null
    BY <1>2, <1>11 DEF RemoveLogo, UploadOK, FitsStep
  <2> QED
    BY <1>9, <1>11, <2>1 DEF RemoveLogo
<1>12. CASE InsertImage(u)
  <2>1. /\ up[u].pc = "insertImage" /\ up' = [up EXCEPT ![u] = NoUpload]
        /\ images' = images \cup {up[u].key}
        /\ UNCHANGED <<area, store, resumes, primary, pointer, mishap>>
    BY <1>12 DEF InsertImage
  <2>2. up[u].key \in Keys /\ area[up[u].key] = "image"
    BY <1>1, <1>2, <2>1 DEF UploadOK, FitsStep, Upload1
  <2>3. UploadsTypeOK'
    BY <1>3, <2>1, <2>2 DEF IInv, TypeOK, UploadsTypeOK, Upload1
  <2>4. RowsFit'
    BY <1>5, <2>1, <2>2 DEF RowsFit
  <2>5. \A k \in Rows' : k \in Rows \/ (k = up[u].key /\ k # Null)
    BY <2>1, <2>2, RowsAre
  <2>6. \A k \in store :
          area[k] \in {"cv", "logo"} /\ k \in Pointers \cup {up[u].key}
            => k \in Pointers'
    BY <1>4, <2>1, <2>2
  <2> QED
    BY <1>3, <2>1, <2>3, <2>4, <2>5, <2>6, TakeOverStep
<1> QED
  BY <1>7, <1>8, <1>10, <1>11, <1>12

-----------------------------------------------------------------------------
(* Requests about applications.                                            *)

Request1 == [pc : Pc, job : Jobs \cup {Null}, cv : Keys \cup {Null},
             app : AppIds \cup {Null}, knew : SUBSET AppIds]

\* A step that is no upload's: rows and files only go, and no file that an
\* upload holds.
LEMMA RequestStep ==
  ASSUME IInv, TypeOK', AppsGrow, UNCHANGED <<area, up, pointer, images>>,
         resumes' \subseteq resumes, store' \subseteq store,
         \A k \in store : k \in store' \/ Unheld(k),
         \A r \in Appliers :
           ap'[r] = ap[r] \/ (DeleteOK(r)' /\ RequestOK(r)'),
         RowsHaveFiles', CvKept', KnewMade', CooldownKept', FilesAccounted'
  PROVE  IInv'
<1>1. PICK u : u \notin Uploaders
  BY NoSetContainsEverything
<1>2. Rows' \subseteq Rows
  BY RowsAre
<1>3. Moves(u)
  BY <1>1, <1>2 DEF Moves
<1>4. UploadsOK' /\ RequestsOK'
  <2>1. \A r \in Appliers : ap'[r] = ap[r] => DeleteOK(r)' /\ RequestOK(r)'
    BY <1>3, OthersGoOn, ReadsStayTrue DEF IInv, RequestsOK
  <2>2. \A v \in Uploaders : UploadOK(v)'
    BY <1>1, <1>3, OthersGoOn DEF IInv
  <2> QED
    BY <2>1, <2>2 DEF UploadsOK, RequestsOK
<1>5. RowsFit' /\ KeysAreFresh'
  BY DEF IInv, RowsFit, KeysAreFresh
<1> QED
  BY <1>4, <1>5 DEF IInv

\* An idle request asks nothing of the state.
LEMMA Idle ==
  /\ NoRequest \in Request1 /\ NoRequest.pc = "idle"
  /\ \A r : ap'[r] = NoRequest => DeleteOK(r)' /\ RequestOK(r)'
<1>1. NoRequest \in Request1 /\ NoRequest.pc = "idle"
  BY DEF NoRequest, Request1, Pc
<1> QED
  BY <1>1 DEF DeleteOK, RequestOK, Applying

\* A step that only notes something in its request, or gives up.
LEMMA QuietRequest ==
  ASSUME IInv, NEW r \in Appliers, NEW q \in Request1,
         ap' = [ap EXCEPT ![r] = q],
         UNCHANGED <<area, store, rows, up, apps, now>>,
         (mishap' = mishap /\ ap[r].pc # "removeCv") \/ mishap' = TRUE,
         DeleteOK(r)', RequestOK(r)'
  PROVE  IInv'
<1>1. UNCHANGED <<resumes, primary, pointer, images>> /\ Pointers' = Pointers
  BY DEF rows, Pointers
<1>2. Made' = Made
  BY DEF Made
<1>3. ap'[r] = q /\ \A o \in Appliers : o # r => ap'[o] = ap[o]
  BY DEF IInv, TypeOK
<1>4. TypeOK'
  BY <1>1 DEF IInv, TypeOK, UploadsTypeOK, Request1
<1>5. AppsGrow
  BY <1>2 DEF IInv, TypeOK, AppsGrow
<1>6. RowsHaveFiles' /\ CvKept' /\ KnewMade'
  BY <1>1, <1>2 DEF IInv, RowsHaveFiles, CvKept, KnewMade
<1>7. CooldownKept'
  BY <1>2 DEF IInv, CooldownKept, Of
<1>8. FilesAccounted'
  <2> SUFFICES ASSUME ~mishap', NEW k \in store, area[k] \in {"cv", "logo"}
               PROVE  k \in resumes \cup Pointers \/ InHand(k)'
    BY <1>1 DEF FilesAccounted
  <2>1. k \in resumes \cup Pointers \/ InHand(k)
    BY DEF IInv, FilesAccounted
  <2> QED
    BY <1>3, <2>1 DEF InHand
<1> QED
  BY <1>1, <1>3, <1>4, <1>5, <1>6, <1>7, <1>8, RequestStep

\* Reading for an application.
LEMMA ReadSteps ==
  ASSUME IInv, NEW r \in Appliers,
         ReadJob(r) \/ ReadActive(r) \/ ReadWithdrawn(r) \/ ReadResume(r)
  PROVE  IInv'
<1>1. /\ ap \in [Appliers -> Request1] /\ ap[r] \in Request1
      /\ RequestOK(r) /\ resumes \subseteq Keys /\ primary \subseteq Keys
      /\ Made \subseteq AppIds
  BY DEF IInv, TypeOK, UploadsTypeOK, Request1, RequestsOK, Made
<1>2. /\ UNCHANGED <<area, store, rows, up, apps, now>> /\ mishap' = mishap
      /\ ap[r].pc \in {"idle", "active", "withdrawn", "resume"}
  BY DEF ReadJob, ReadActive, ReadWithdrawn, ReadResume, uploadVars
<1>3. ASSUME ap' = [ap EXCEPT ![r] = NoRequest]
      PROVE  IInv'
  <2>1. ap'[r] = NoRequest
    BY <1>1, <1>3
  <2> QED
    BY <1>2, <1>3, <2>1, Idle, QuietRequest
<1>4. ASSUME NEW q \in Request1, ap' = [ap EXCEPT ![r] = q],
             q.pc \in Applying, RequestOK(r)'
      PROVE  IInv'
  <2>1. DeleteOK(r)'
    BY <1>1, <1>4 DEF DeleteOK, Applying
  <2> QED
    BY <1>2, <1>4, <2>1, QuietRequest
<1>5. CASE ReadJob(r)
  <2>1. PICK j \in Jobs, c \in resumes \cup {Null} :
          ap' = [ap EXCEPT ![r] = [NoRequest EXCEPT !.pc = "active", !.job = j,
                                                    !.cv = c, !.knew = Made]]
    BY <1>5 DEF ReadJob
  <2>2. /\ ap'[r] = [pc |-> "active", job |-> j, cv |-> c, app |-> Null,
                     knew |-> Made]
        /\ ap' = [ap EXCEPT ![r] = ap'[r]]
    BY <1>1, <2>1 DEF NoRequest
  <2>3. ap'[r] \in Request1
    BY <1>1, <2>2 DEF Request1, Pc
  <2>4. Made' = Made
    BY <1>2 DEF Made
  <2>5. RequestOK(r)'
    BY <2>2, <2>4 DEF RequestOK, Applying
  <2> QED
    BY <1>4, <2>2, <2>3, <2>5 DEF Applying
<1>6. CASE ReadActive(r)
  <2>1. CASE Active(ap[r].job) = {}
    <3>1. /\ ap[r].pc = "active" /\ ap' = [ap EXCEPT ![r].pc = "withdrawn"]
      BY <1>6, <2>1 DEF ReadActive, Check, GoOn
    <3>2. /\ ap' = [ap EXCEPT ![r] = ap'[r]] /\ ap'[r] \in Request1
          /\ ap'[r].pc = "withdrawn" /\ ap'[r].job = ap[r].job
          /\ ap'[r].knew = ap[r].knew
      BY <1>1, <3>1 DEF Request1, Pc
    <3>3. \A b \in Older(r) : apps[b].status = "withdrawn"
      BY <2>1 DEF Older, Active
    <3>4. Made' = Made /\ Older(r)' = Older(r)
      BY <1>2, <3>2 DEF Made, Older, Of
    <3>5. RequestOK(r)'
      BY <1>1, <1>2, <3>1, <3>2, <3>3, <3>4 DEF RequestOK, Applying
    <3> QED
      BY <1>4, <3>2, <3>5 DEF Applying
  <2>2. CASE Active(ap[r].job) # {}
    BY <1>3, <1>6, <2>2 DEF ReadActive, Check, Answer
  <2> QED
    BY <2>1, <2>2
<1>7. CASE ReadWithdrawn(r)
  <2>1. CASE ~InCooldown(ap[r].job)
    <3>1. /\ ap[r].pc = "withdrawn" /\ ap' = [ap EXCEPT ![r].pc = "resume"]
      BY <1>7, <2>1 DEF ReadWithdrawn, Check, GoOn
    <3>2. /\ ap' = [ap EXCEPT ![r] = ap'[r]] /\ ap'[r] \in Request1
          /\ ap'[r].pc = "resume" /\ ap'[r].job = ap[r].job
          /\ ap'[r].knew = ap[r].knew
      BY <1>1, <3>1 DEF Request1, Pc
    <3>3. \A b \in Older(r) : apps[b].status = "withdrawn"
      BY <1>1, <3>1 DEF RequestOK, Applying
    <3>4. \A b \in Older(r) : now - apps[b].at >= Cooldown
      <4>1. \A b \in Older(r) : ~(now - apps[b].at < Cooldown)
        BY <2>1, <3>3 DEF InCooldown, Older
      <4>2. \A b \in Older(r) : apps[b].at \in Nat
        BY DEF Older, Of, Made, IInv, TypeOK, Application
      <4> QED
        BY <4>1, <4>2, ApplicationsAssumptions DEF IInv, TypeOK
    <3>5. Made' = Made /\ Older(r)' = Older(r)
      BY <1>2, <3>2 DEF Made, Older, Of
    <3>6. RequestOK(r)'
      BY <1>1, <1>2, <3>1, <3>2, <3>3, <3>4, <3>5 DEF RequestOK, Applying
    <3> QED
      BY <1>4, <3>2, <3>6 DEF Applying
  <2>2. CASE InCooldown(ap[r].job)
    BY <1>3, <1>7, <2>2 DEF ReadWithdrawn, Check, Answer
  <2> QED
    BY <2>1, <2>2
<1>8. CASE ReadResume(r)
  <2>1. CASE Answer(r)
    BY <1>3, <2>1 DEF Answer
  <2>2. ASSUME NEW c \in Keys, ap' = [ap EXCEPT ![r].cv = c, ![r].pc = "insert"],
               ap[r].pc = "resume"
        PROVE  IInv'
    <3>1. /\ ap' = [ap EXCEPT ![r] = ap'[r]] /\ ap'[r] \in Request1
          /\ ap'[r].pc = "insert" /\ ap'[r].job = ap[r].job
          /\ ap'[r].knew = ap[r].knew
      BY <1>1, <2>2 DEF Request1, Pc
    <3>2. Made' = Made /\ Older(r)' = Older(r)
      BY <1>2, <3>1 DEF Made, Older, Of
    <3>3. RequestOK(r)'
      BY <1>1, <1>2, <2>2, <3>1, <3>2 DEF RequestOK, Applying
    <3> QED
      BY <1>4, <3>1, <3>3 DEF Applying
  <2> QED
    BY <1>1, <1>8, <2>1, <2>2 DEF ReadResume
<1> QED
  BY <1>5, <1>6, <1>7, <1>8

\* Looking up an application or a CV, and giving up.
LEMMA BeginSteps ==
  ASSUME IInv, NEW r \in Appliers,
         \/ WithdrawRead(r) \/ Download(r) \/ DeleteBegin(r) \/ CheckInUse(r)
         \/ Fails(r)
  PROVE  IInv'
<1>1. /\ ap \in [Appliers -> Request1] /\ ap[r] \in Request1
      /\ DeleteOK(r) /\ resumes \subseteq Keys /\ Made \subseteq AppIds
      /\ mishap \in BOOLEAN
  BY DEF IInv, TypeOK, UploadsTypeOK, Request1, RequestsOK, Made
<1>2. UNCHANGED <<area, store, rows, up, apps, now>>
  BY DEF WithdrawRead, Download, DeleteBegin, CheckInUse, Fails, Begin,
         uploadVars
<1>3. Made' = Made /\ Rows' = Rows
  BY <1>2 DEF Made, rows, Rows, Pointers
<1>4. ASSUME NEW i \in Made, NEW pc \in {"withdraw", "view"}, Begin(r, i, pc)
      PROVE  IInv'
  <2>1. ap[r].pc = "idle" /\ mishap' = mishap
    BY <1>4 DEF Begin, uploadVars
  <2>2. /\ ap' = [ap EXCEPT ![r] = ap'[r]]
        /\ ap'[r] = [pc |-> pc, job |-> Null, cv |-> Null, app |-> i,
                     knew |-> {}]
    BY <1>1, <1>4 DEF Begin, NoRequest
  <2>3. ap'[r] \in Request1
    BY <1>1, <2>2 DEF Request1, Pc
  <2>4. DeleteOK(r)' /\ RequestOK(r)'
    BY <1>3, <2>2 DEF DeleteOK, RequestOK, Applying
  <2> QED
    BY <1>2, <2>1, <2>2, <2>3, <2>4, QuietRequest
<1>5. CASE WithdrawRead(r)
  BY <1>4, <1>5 DEF WithdrawRead
<1>6. CASE Download(r)
  BY <1>4, <1>6 DEF Download
<1>7. CASE DeleteBegin(r)
  <2>1. PICK k \in resumes :
          ap' = [ap EXCEPT ![r] = [NoRequest EXCEPT !.pc = "inUse", !.cv = k]]
    BY <1>7 DEF DeleteBegin
  <2>2. /\ ap' = [ap EXCEPT ![r] = ap'[r]]
        /\ ap'[r] = [pc |-> "inUse", job |-> Null, cv |-> k, app |-> Null,
                     knew |-> {}]
    BY <1>1, <2>1 DEF NoRequest
  <2>3. ap'[r] \in Request1
    BY <1>1, <2>2 DEF Request1, Pc
  <2>4. k # Null /\ area[k] = "cv" /\ k \in Rows
    BY <1>1, UploadsAssumptions DEF IInv, RowsFit, Rows
  <2>5. Unheld(k)'
    BY <1>2, <2>4 DEF IInv, UploadsOK, UploadOK, HoldsFile, Unheld
  <2>6. DeleteOK(r)' /\ RequestOK(r)'
    BY <1>2, <2>2, <2>4, <2>5 DEF DeleteOK, RequestOK, Applying
  <2>7. ap[r].pc = "idle" /\ mishap' = mishap
    BY <1>7 DEF DeleteBegin, uploadVars
  <2> QED
    BY <1>2, <2>2, <2>3, <2>6, <2>7, QuietRequest
<1>8. CASE CheckInUse(r)
  <2>1. ap[r].pc = "inUse" /\ mishap' = mishap
    BY <1>8 DEF CheckInUse, uploadVars
  <2>2. CASE InUse(ap[r].cv)
    <3>1. ap' = [ap EXCEPT ![r] = NoRequest] /\ ap'[r] = NoRequest
      BY <1>1, <1>8, <2>2 DEF CheckInUse, Check, Answer
    <3> QED
      BY <1>2, <2>1, <3>1, Idle, QuietRequest
  <2>3. CASE ~InUse(ap[r].cv)
    <3>1. /\ ap' = [ap EXCEPT ![r] = ap'[r]] /\ ap'[r] \in Request1
          /\ ap'[r].pc = "deleteRow" /\ ap'[r].cv = ap[r].cv
      BY <1>1, <1>8, <2>3 DEF CheckInUse, Check, GoOn, Request1, Pc
    <3>2. DeleteOK(r)' /\ RequestOK(r)'
      BY <1>1, <1>2, <2>1, <3>1
         DEF DeleteOK, RequestOK, Applying, Unheld
    <3> QED
      BY <1>2, <2>1, <3>1, <3>2, QuietRequest
  <2> QED
    BY <2>2, <2>3
<1>9. CASE Fails(r)
  <2>1. /\ ap' = [ap EXCEPT ![r] = NoRequest] /\ ap'[r] = NoRequest
        /\ mishap' = (mishap \/ ap[r].pc = "removeCv")
    BY <1>1, <1>9 DEF Fails, Answer
  <2>2. CASE ap[r].pc = "removeCv"
    <3>1. mishap' = TRUE
      BY <2>1, <2>2
    <3> QED
      BY <1>2, <2>1, <3>1, Idle, QuietRequest
  <2>3. CASE ap[r].pc # "removeCv"
    <3>1. mishap' = mishap
      BY <1>1, <2>1, <2>3
    <3> QED
      BY <1>2, <2>1, <2>3, <3>1, Idle, QuietRequest
  <2> QED
    BY <2>2, <2>3
<1> QED
  BY <1>5, <1>6, <1>7, <1>8, <1>9

\* A step that changes applications only, and may answer a request.
LEMMA AppsStep ==
  ASSUME IInv, UNCHANGED <<uploadVars, now>>, AppsGrow,
         apps' \in [AppIds -> Application \cup {Null}],
         \/ ap' = ap
         \/ \E r \in Appliers : /\ ap[r].pc # "removeCv"
                                /\ ap' = [ap EXCEPT ![r] = NoRequest],
         CvKept', KnewMade', CooldownKept'
  PROVE  IInv'
<1>1. UNCHANGED <<area, store, resumes, primary, pointer, images, up, mishap>>
        /\ Pointers' = Pointers
  BY DEF uploadVars, rows, Pointers
<1>2. /\ ap' \in [Appliers -> Request1]
      /\ \A r \in Appliers :
           \/ ap'[r] = ap[r]
           \/ ap'[r] = NoRequest /\ ap[r].pc # "removeCv"
  BY Idle DEF IInv, TypeOK, Request1
<1>3. TypeOK'
  BY <1>1, <1>2 DEF IInv, TypeOK, UploadsTypeOK, Request1
<1>4. \A r \in Appliers : ap'[r] = ap[r] \/ (DeleteOK(r)' /\ RequestOK(r)')
  BY <1>2, Idle
<1>5. RowsHaveFiles'
  BY <1>1 DEF IInv, RowsHaveFiles
<1>6. FilesAccounted'
  <2> SUFFICES ASSUME ~mishap, NEW k \in store, area[k] \in {"cv", "logo"}
               PROVE  k \in resumes \cup Pointers \/ InHand(k)'
    BY <1>1 DEF FilesAccounted
  <2>1. k \in resumes \cup Pointers \/ InHand(k)
    BY DEF IInv, FilesAccounted
  <2> QED
    BY <1>1, <1>2, <2>1 DEF InHand
<1> QED
  BY <1>1, <1>3, <1>4, <1>5, <1>6, RequestStep

\* InsertApplication.
LEMMA InsertStep ==
  ASSUME IInv, NEW r \in Appliers, InsertApplication(r)
  PROVE  IInv'
<1> USE NullIsNoApplication, ApplicationsAssumptions
<1>1. /\ apps \in [AppIds -> Application \cup {Null}] /\ now \in 0..MaxTime
      /\ resumes \subseteq Keys /\ ap[r] \in Request1 /\ RequestOK(r)
  BY DEF IInv, TypeOK, UploadsTypeOK, RequestsOK, Request1
<1>2. /\ ap[r].pc = "insert" /\ ap' = [ap EXCEPT ![r] = NoRequest]
      /\ UNCHANGED <<uploadVars, now>>
  BY DEF InsertApplication, Answer
<1>3. UNCHANGED <<resumes, store>>
  BY <1>2 DEF uploadVars, rows
<1>4. CASE UNCHANGED apps
  <2>1. Made' = Made
    BY <1>4 DEF Made
  <2>2. AppsGrow
    BY <1>1, <1>2, <1>4, <2>1 DEF AppsGrow
  <2>3. CvKept' /\ KnewMade'
    BY <1>3, <1>4, <2>1 DEF IInv, CvKept, KnewMade
  <2>4. CooldownKept'
    BY <1>4, <2>1 DEF IInv, CooldownKept, Of
  <2> QED
    BY <1>1, <1>2, <1>4, <2>2, <2>3, <2>4, AppsStep
<1>5. CASE ap[r].cv \in resumes /\ \E i \in AppIds \ Made :
             apps' = [apps EXCEPT ![i] =
               [job |-> ap[r].job, cv |-> ap[r].cv, status |-> "submitted",
                at |-> now, created |-> now, knew |-> ap[r].knew]]
  <2> DEFINE new == [job |-> ap[r].job, cv |-> ap[r].cv,
                     status |-> "submitted", at |-> now, created |-> now,
                     knew |-> ap[r].knew]
  <2>1. PICK i \in AppIds \ Made : apps' = [apps EXCEPT ![i] = new]
    BY <1>5
  <2>2. ap[r].job \in Jobs /\ ap[r].knew \subseteq Made
    BY <1>1, <1>2 DEF RequestOK, Applying
  <2>3. new \in Application /\ new # Null
    BY <1>1, <1>5, <2>2 DEF Application, Status, Made
  <2>4. apps'[i] = new /\ \A b \in AppIds : b # i => apps'[b] = apps[b]
    BY <1>1, <2>1
  <2>5. Made' = Made \cup {i} /\ i \notin Made
    BY <2>3, <2>4 DEF Made
  <2>6. AppsGrow
    BY <1>1, <1>2, <2>4, <2>5 DEF AppsGrow, Made
  <2>7. CvKept'
    <3>1. apps'[i].cv \in resumes
      BY <1>5, <2>4
    <3>2. resumes \subseteq store
      BY DEF IInv, RowsHaveFiles
    <3> QED
      BY <1>3, <2>4, <2>5, <3>1, <3>2 DEF IInv, CvKept, Made
  <2>8. KnewMade'
    BY <2>2, <2>4, <2>5 DEF IInv, KnewMade, Made
  <2>9. \A b \in ap[r].knew \cap Of(ap[r].job) :
          /\ apps[b].status = "withdrawn" /\ now - apps[b].at >= Cooldown
          /\ b \in Made /\ b # i
    BY <1>1, <1>2, <2>2, <2>5 DEF RequestOK, Older, Applying
  <2>10. CooldownKept'
    <3> SUFFICES ASSUME NEW n \in Made', NEW b \in apps'[n].knew, b \in Made',
                        apps'[b].job = apps'[n].job
                 PROVE  /\ apps'[b].status = "withdrawn"
                        /\ apps'[n].created - apps'[b].at >= Cooldown
      BY DEF CooldownKept, Of
    <3>1. CASE n \in Made
      <4>1. b \in Made /\ b # i /\ n # i
        BY <2>4, <2>5, <3>1 DEF IInv, KnewMade, Made
      <4>2. apps'[b] = apps[b] /\ apps'[n] = apps[n]
        BY <2>4, <4>1, <3>1 DEF Made
      <4> QED
        BY <3>1, <4>1, <4>2 DEF IInv, CooldownKept, Of
    <3>2. CASE n = i
      <4>1. b \in ap[r].knew /\ b \in Made /\ b # i
        BY <2>2, <2>4, <2>5, <3>2
      <4>2. apps'[b] = apps[b]
        BY <2>4, <4>1 DEF Made
      <4>3. b \in Of(ap[r].job)
        BY <2>4, <3>2, <4>1, <4>2 DEF Of
      <4> QED
        BY <2>4, <2>9, <3>2, <4>1, <4>2, <4>3
    <3> QED
      BY <2>5, <3>1, <3>2
  <2>11. apps' \in [AppIds -> Application \cup {Null}]
    BY <1>1, <2>1, <2>3
  <2>12. ap[r].pc # "removeCv"
    BY <1>2
  <2> QED
    BY <1>2, <2>6, <2>7, <2>8, <2>10, <2>11, <2>12, AppsStep
<1> QED
  BY <1>4, <1>5 DEF InsertApplication

\* A decision, a withdrawal, a view: an application that was not withdrawn
\* changes its status.
LEMMA StatusStep ==
  ASSUME IInv, NEW i \in Made, NEW from, NEW to \in Status,
         from \subseteq Status \ {"withdrawn"}, SetStatus(i, from, to),
         \/ ap' = ap
         \/ \E r \in Appliers : /\ ap[r].pc # "removeCv"
                                /\ ap' = [ap EXCEPT ![r] = NoRequest]
  PROVE  IInv'
<1> USE NullIsNoApplication, ApplicationsAssumptions
<1>1. /\ apps \in [AppIds -> Application \cup {Null}] /\ now \in 0..MaxTime
      /\ Made \subseteq AppIds /\ apps[i] \in Application
      /\ \A b \in Made : apps[b] # Null
  BY DEF IInv, TypeOK, Made
<1>2. UNCHANGED <<uploadVars, now>> /\ UNCHANGED <<resumes, store>>
  BY DEF SetStatus, uploadVars, rows
<1>3. \/ apps' = apps
      \/ /\ apps[i].status # "withdrawn"
         /\ apps' = [apps EXCEPT ![i] = [@ EXCEPT !.status = to, !.at = now]]
  BY DEF SetStatus
<1>4. /\ apps' \in [AppIds -> Application \cup {Null}]
      /\ \A b \in AppIds : b # i => apps'[b] = apps[b]
      /\ apps'[i] \in Application /\ apps'[i].job = apps[i].job
      /\ apps'[i].cv = apps[i].cv /\ apps'[i].knew = apps[i].knew
      /\ apps'[i].created = apps[i].created
      /\ apps[i].status = "withdrawn" => apps'[i] = apps[i]
  <2>1. CASE apps' = apps
    BY <1>1, <2>1
  <2>2. CASE apps' # apps
    <3> DEFINE new == [apps[i] EXCEPT !.status = to, !.at = now]
    <3>1. /\ new \in Application /\ new.job = apps[i].job
          /\ new.cv = apps[i].cv /\ new.knew = apps[i].knew
          /\ new.created = apps[i].created
      BY <1>1 DEF Application
    <3>2. apps' = [apps EXCEPT ![i] = new] /\ apps[i].status # "withdrawn"
      BY <1>3, <2>2
    <3> HIDE DEF new
    <3> QED
      BY <1>1, <3>1, <3>2
  <2> QED
    BY <2>1, <2>2
<1>5. Made' = Made
  BY <1>1, <1>4 DEF Made
<1>6. AppsGrow
  BY <1>1, <1>2, <1>4, <1>5 DEF AppsGrow
<1>7. CvKept'
  BY <1>1, <1>2, <1>4, <1>5 DEF IInv, CvKept
<1>8. KnewMade'
  BY <1>1, <1>4, <1>5 DEF IInv, KnewMade
<1>9. CooldownKept'
  <2> SUFFICES ASSUME NEW n \in Made, NEW b \in apps'[n].knew, b \in Made,
                      apps'[b].job = apps'[n].job
               PROVE  /\ apps'[b].status = "withdrawn"
                      /\ apps'[n].created - apps'[b].at >= Cooldown
    BY <1>5 DEF CooldownKept, Of
  <2>1. /\ apps'[n].knew = apps[n].knew /\ apps'[n].job = apps[n].job
        /\ apps'[n].created = apps[n].created /\ apps'[b].job = apps[b].job
    BY <1>6 DEF AppsGrow
  <2>2. apps[b].status = "withdrawn" /\ apps[n].created - apps[b].at >= Cooldown
    BY <2>1 DEF IInv, CooldownKept, Of
  <2> QED
    BY <1>6, <2>1, <2>2 DEF AppsGrow
<1> QED
  BY <1>2, <1>4, <1>6, <1>7, <1>8, <1>9, AppsStep

\* WithdrawWrite, MarkViewed, Decide: what they write is an edge of the graph.
LEMMA Statuses ==
  ASSUME IInv, NEW r \in Appliers,
         WithdrawWrite(r) \/ MarkViewed(r) \/ Decide(r)
  PROVE  \E i \in Made, from \in SUBSET (Status \ {"withdrawn"}),
            to \in Status :
           /\ SetStatus(i, from, to)
           /\ \A s \in from : <<s, to>> \in Edges
           /\ \/ ap' = ap
              \/ ap[r].pc # "removeCv" /\ ap' = [ap EXCEPT ![r] = NoRequest]
<1>1. RequestOK(r)
  BY DEF IInv, RequestsOK
<1>2. CASE WithdrawWrite(r)
  <2>1. /\ ap[r].pc = "withdraw" /\ SetStatus(ap[r].app, Withdrawable, "withdrawn")
        /\ ap' = [ap EXCEPT ![r] = NoRequest]
    BY <1>2 DEF WithdrawWrite, Move, Answer
  <2>2. ap[r].app \in Made
    BY <1>1, <2>1 DEF RequestOK
  <2>3. /\ Withdrawable \in SUBSET (Status \ {"withdrawn"})
        /\ "withdrawn" \in Status
        /\ \A s \in Withdrawable : <<s, "withdrawn">> \in Edges
    BY DEF Withdrawable, Status, Edges
  <2> QED
    BY <2>1, <2>2, <2>3
<1>3. CASE MarkViewed(r)
  <2>1. /\ ap[r].pc = "view" /\ SetStatus(ap[r].app, {"submitted"}, "viewed")
        /\ ap' = [ap EXCEPT ![r] = NoRequest]
    BY <1>3 DEF MarkViewed, Move, Answer
  <2>2. ap[r].app \in Made
    BY <1>1, <2>1 DEF RequestOK
  <2>3. /\ {"submitted"} \in SUBSET (Status \ {"withdrawn"})
        /\ "viewed" \in Status
        /\ \A s \in {"submitted"} : <<s, "viewed">> \in Edges
    BY DEF Status, Edges
  <2> QED
    BY <2>1, <2>2, <2>3
<1>4. CASE Decide(r)
  <2>1. PICK i \in Made, t \in Targets :
          SetStatus(i, {s \in Status : MayMove(s, t)}, t) /\ ap' = ap
    BY <1>4 DEF Decide
  <2> DEFINE from == {s \in Status : MayMove(s, t)}
  <2>2. ASSUME NEW s \in from
        PROVE  <<s, t>> \in Edges /\ s # "withdrawn"
    <3>1. s \in Status /\ MayMove(s, t)
      BY <2>2
    <3>2. CASE t = "viewed"
      BY <3>1, <3>2 DEF MayMove, Edges
    <3>3. CASE t = "shortlisted"
      BY <3>1, <3>3 DEF MayMove, Edges
    <3>4. CASE t = "rejected"
      BY <3>1, <3>4 DEF MayMove, Edges
    <3>5. CASE t = "hired"
      BY <3>1, <3>5 DEF MayMove, Edges
    <3> QED
      BY <3>2, <3>3, <3>4, <3>5 DEF Targets
  <2>3. from \in SUBSET (Status \ {"withdrawn"}) /\ t \in Status
    BY <2>2 DEF Targets, Status
  <2> HIDE DEF from
  <2>4. SetStatus(i, from, t)
    BY <2>1 DEF from
  <2> QED
    BY <2>1, <2>2, <2>3, <2>4
<1> QED
  BY <1>2, <1>3, <1>4

\* DeleteRow: no application has the CV, and no upload holds it.
LEMMA DeleteRowStep ==
  ASSUME IInv, NEW r \in Appliers, DeleteRow(r)
  PROVE  IInv'
<1> DEFINE k == ap[r].cv
<1>1. /\ ap \in [Appliers -> Request1] /\ ap[r] \in Request1 /\ DeleteOK(r)
      /\ ap[r].pc = "deleteRow"
      /\ UNCHANGED <<area, store, pointer, images, up, mishap, apps, now>>
  BY DEF IInv, TypeOK, Request1, RequestsOK, DeleteRow
<1>2. CASE InUse(k)
  <2>1. /\ ap' = [ap EXCEPT ![r] = NoRequest] /\ UNCHANGED <<resumes, primary>>
    BY <1>2 DEF DeleteRow, Answer
  <2>2. ap'[r] = NoRequest
    BY <1>1, <2>1
  <2>3. UNCHANGED rows
    BY <1>1, <2>1 DEF rows
  <2> QED
    BY <1>1, <2>1, <2>2, <2>3, Idle, QuietRequest
<1>3. CASE ~InUse(k)
  <2>1. /\ resumes' = resumes \ {k} /\ primary' = primary \ {k}
        /\ ap' = [ap EXCEPT ![r].pc = "removeCv"]
    BY <1>3 DEF DeleteRow, GoOn
  <2>2. /\ ap'[r] \in Request1 /\ ap'[r].pc = "removeCv" /\ ap'[r].cv = k
        /\ ap' \in [Appliers -> Request1]
        /\ \A o \in Appliers : o # r => ap'[o] = ap[o]
    BY <1>1, <2>1 DEF Request1, Pc
  <2>3. k # Null /\ area[k] = "cv" /\ Unheld(k) /\ k \in Keys
    BY <1>1 DEF DeleteOK, Request1
  <2>4. k \notin Rows'
    BY <1>1, <2>1, <2>3, RowsAre DEF IInv, RowsFit, Pictures
  <2>5. Unheld(k)'
    BY <1>1, <2>2, <2>3 DEF Unheld
  <2>6. DeleteOK(r)' /\ RequestOK(r)'
    BY <1>1, <2>2, <2>3, <2>4, <2>5 DEF DeleteOK, RequestOK, Applying
  <2>7. Made' = Made /\ Pointers' = Pointers
    BY <1>1 DEF Made, Pointers
  <2>8. TypeOK'
    <3>1. primary' \subseteq resumes' /\ resumes' \subseteq Keys
      BY <2>1 DEF IInv, TypeOK, UploadsTypeOK
    <3>2. UploadsTypeOK'
      BY <1>1, <3>1 DEF IInv, TypeOK, UploadsTypeOK
    <3> QED
      BY <1>1, <2>2, <3>2 DEF IInv, TypeOK, Request1
  <2>9. AppsGrow
    BY <1>1, <2>7 DEF IInv, TypeOK, AppsGrow
  <2>10. RowsHaveFiles'
    BY <1>1, <2>1, <2>7 DEF IInv, RowsHaveFiles
  <2>11. CvKept'
    BY <1>1, <1>3, <2>1, <2>7 DEF IInv, CvKept, InUse
  <2>12. KnewMade'
    BY <1>1, <2>7 DEF IInv, KnewMade
  <2>13. CooldownKept'
    BY <1>1, <2>7 DEF IInv, CooldownKept, Of
  <2>14. FilesAccounted'
    <3> SUFFICES ASSUME ~mishap, NEW x \in store, area[x] \in {"cv", "logo"}
                 PROVE  x \in resumes' \/ x \in Pointers \/ InHand(x)'
      BY <1>1, <2>7 DEF FilesAccounted
    <3>1. x \in resumes \/ x \in Pointers \/ InHand(x)
      BY DEF IInv, FilesAccounted
    <3>2. CASE x = k
      BY <2>2, <3>2 DEF InHand
    <3>3. CASE InHand(x) /\ x # k
      BY <1>1, <2>2, <3>3 DEF InHand
    <3> QED
      BY <2>1, <3>1, <3>2, <3>3
  <2>15. \A o \in Appliers : ap'[o] = ap[o] \/ (DeleteOK(o)' /\ RequestOK(o)')
    BY <2>2, <2>6
  <2> QED
    BY <1>1, <2>1, <2>8, <2>9, <2>10, <2>11, <2>12, <2>13, <2>14, <2>15,
       RequestStep
<1> QED
  BY <1>2, <1>3

\* RemoveCv: the file is in no row, so no application has it.
LEMMA RemoveCvStep ==
  ASSUME IInv, NEW r \in Appliers, RemoveCv(r)
  PROVE  IInv'
<1> DEFINE k == ap[r].cv
<1>1. /\ ap \in [Appliers -> Request1] /\ DeleteOK(r) /\ ap[r].pc = "removeCv"
      /\ UNCHANGED <<area, resumes, primary, pointer, images, up, mishap, apps,
                     now>>
      /\ store' = store \ {k} /\ ap' = [ap EXCEPT ![r] = NoRequest]
  BY DEF IInv, TypeOK, Request1, RequestsOK, RemoveCv, Answer, rows
<1>2. /\ ap'[r] = NoRequest /\ ap' \in [Appliers -> Request1]
      /\ \A o \in Appliers : o # r => ap'[o] = ap[o]
  BY <1>1, Idle
<1>3. k \notin Rows /\ Unheld(k)
  BY <1>1 DEF DeleteOK
<1>4. Made' = Made /\ Pointers' = Pointers /\ Rows' = Rows
  BY <1>1 DEF Made, Pointers, Rows
<1>5. TypeOK'
  BY <1>1, <1>2 DEF IInv, TypeOK, UploadsTypeOK, Request1
<1>6. AppsGrow
  BY <1>1, <1>4 DEF IInv, TypeOK, AppsGrow
<1>7. RowsHaveFiles'
  BY <1>1, <1>3, <1>4, RowsAre DEF IInv
<1>8. CvKept'
  BY <1>1, <1>3, <1>4, RowsAre DEF IInv, CvKept
<1>9. KnewMade'
  BY <1>1, <1>4 DEF IInv, KnewMade
<1>10. CooldownKept'
  BY <1>1, <1>4 DEF IInv, CooldownKept, Of
<1>11. FilesAccounted'
  <2> SUFFICES ASSUME ~mishap, NEW x \in store, x # k,
                      area[x] \in {"cv", "logo"}
               PROVE  x \in resumes \/ x \in Pointers \/ InHand(x)'
    BY <1>1, <1>4 DEF FilesAccounted
  <2>1. x \in resumes \/ x \in Pointers \/ InHand(x)
    BY DEF IInv, FilesAccounted
  <2>2. CASE InHand(x)
    BY <1>1, <1>2, <2>2 DEF InHand
  <2> QED
    BY <2>1, <2>2
<1>12. \A o \in Appliers : ap'[o] = ap[o] \/ (DeleteOK(o)' /\ RequestOK(o)')
  BY <1>2, Idle
<1>13. \A x \in store : x \in store' \/ Unheld(x)
  BY <1>1, <1>3
<1> QED
  BY <1>1, <1>5, <1>6, <1>7, <1>8, <1>9, <1>10, <1>11, <1>12, <1>13,
     RequestStep

\* The clock.
LEMMA TickStep == IInv /\ Tick => IInv'
<1> SUFFICES ASSUME IInv, Tick PROVE IInv'
    OBVIOUS
<1>1. /\ UNCHANGED <<uploadVars, apps, ap>> /\ now' = now + 1 /\ now < MaxTime
      /\ now \in 0..MaxTime /\ MaxTime \in Nat
  BY ApplicationsAssumptions DEF Tick, IInv, TypeOK
<1>2. UNCHANGED <<area, store, resumes, primary, pointer, images, up, mishap>>
        /\ Made' = Made /\ Pointers' = Pointers
  BY <1>1 DEF uploadVars, rows, Made, Pointers
<1>3. now' \in 0..MaxTime /\ now <= now'
  BY <1>1
<1>4. AppsGrow
  BY <1>1, <1>2, <1>3 DEF AppsGrow
<1>5. TypeOK'
  BY <1>1, <1>2, <1>3 DEF IInv, TypeOK, UploadsTypeOK
<1>6. RowsHaveFiles' /\ CvKept' /\ KnewMade'
  BY <1>1, <1>2 DEF IInv, RowsHaveFiles, CvKept, KnewMade
<1>7. CooldownKept'
  BY <1>1, <1>2 DEF IInv, CooldownKept, Of
<1>8. FilesAccounted'
  BY <1>1, <1>2 DEF IInv, FilesAccounted, InHand
<1> QED
  BY <1>1, <1>2, <1>4, <1>5, <1>6, <1>7, <1>8, RequestStep

-----------------------------------------------------------------------------
(* The theorems.                                                           *)

\* Every step keeps the invariant.
LEMMA NextIInv == IInv /\ [Next]_vars => IInv'
<1> SUFFICES ASSUME IInv, [Next]_vars PROVE IInv'
    OBVIOUS
<1>1. CASE UNCHANGED vars
  <2>1. /\ UNCHANGED <<area, store, resumes, primary, pointer, images, up,
                       mishap, apps, now, ap>>
    BY <1>1 DEF vars, uploadVars, rows
  <2>2. TypeOK' /\ RowsFit' /\ RowsHaveFiles' /\ KeysAreFresh'
    BY <2>1 DEF IInv, TypeOK, UploadsTypeOK, RowsFit, RowsHaveFiles, Pointers,
                KeysAreFresh
  <2>3. AppsGrow
    BY <2>1 DEF AppsGrow, Made, IInv, TypeOK
  <2>4. CvKept' /\ KnewMade' /\ CooldownKept' /\ FilesAccounted'
    BY <2>1 DEF IInv, CvKept, KnewMade, CooldownKept, Made, Of,
                FilesAccounted, InHand, Pointers
  <2> QED
    BY <2>1, <2>2, <2>3, <2>4, RequestStep
<1>2. ASSUME NEW r \in Appliers, Apply(r)
      PROVE  IInv'
  <2>1. CASE WithdrawWrite(r) \/ MarkViewed(r) \/ Decide(r)
    BY <2>1, Statuses, StatusStep
  <2> QED
    BY <1>2, <2>1, ReadSteps, InsertStep, BeginSteps, DeleteRowStep,
       RemoveCvStep DEF Apply
<1>3. ASSUME NEW u \in Uploaders, Upload(u), UNCHANGED <<apps, now, ap>>
      PROVE  IInv'
  BY <1>3, PutStep, RemoveStep, NotingSteps, RowSteps DEF Upload
<1>4. CASE Tick
  BY <1>4, TickStep
<1> QED
  BY <1>1, <1>2, <1>3, <1>4 DEF Next

\* The invariant holds whatever uploads, applications and deletions overlap.
THEOREM Invariance == Spec => []IInv
<1> QED
  BY InitIInv, NextIInv, PTL DEF Spec

\* Every variable keeps its type.
THEOREM TypeCorrect == Spec => []TypeOK
<1>1. IInv => TypeOK
  BY DEF IInv
<1> QED
  BY <1>1, Invariance, PTL

\* No CV, photo, logo or image row points at a file that is gone.
THEOREM RowsHaveFilesHolds == Spec => []RowsHaveFiles
<1>1. IInv => RowsHaveFiles
  BY DEF IInv
<1> QED
  BY <1>1, Invariance, PTL

\* An application keeps its CV, row and file.
THEOREM CvKeptHolds == Spec => []CvKept
<1>1. IInv => CvKept
  BY DEF IInv
<1> QED
  BY <1>1, Invariance, PTL

\* Nobody applies again within the cooldown.
THEOREM CooldownKeptHolds == Spec => []CooldownKept
<1>1. IInv => CooldownKept
  BY DEF IInv
<1> QED
  BY <1>1, Invariance, PTL

\* Short of a crash or a failed removal, no CV and no logo stays without a row.
THEOREM NoFileLeftBehindHolds == Spec => []NoFileLeftBehind
<1>1. IInv => NoFileLeftBehind
  <2> SUFFICES ASSUME IInv, ~mishap, AllIdle, NEW k \in store,
                      area[k] \in {"cv", "logo"}
               PROVE  k \in resumes \cup Pointers
    BY DEF NoFileLeftBehind
  <2>1. k \in resumes \cup Pointers \/ InHand(k)
    BY DEF IInv, FilesAccounted
  <2>2. k # Null
    BY UploadsAssumptions DEF IInv, TypeOK, UploadsTypeOK
  <2>3. ~InHand(k)
    BY <2>2 DEF IInv, UploadsOK, UploadOK, FitsStep, AllIdle, InHand
  <2> QED
    BY <2>1, <2>3
<1> QED
  BY <1>1, Invariance, PTL

\* Statuses move along the graph: nothing leaves a decision or a withdrawal,
\* and no view takes back a shortlisting.
THEOREM StatusFollowsGraphHolds == Spec => StatusFollowsGraph
<1> DEFINE Moved(i) == \/ apps'[i].status = apps[i].status
                       \/ <<apps[i].status, apps'[i].status>> \in Edges
<1>1. IInv /\ [Next]_vars => [\A i \in Made : Moved(i)]_vars
  <2> SUFFICES ASSUME IInv, Next, NEW i \in Made
               PROVE  Moved(i)
    OBVIOUS
  <2>1. apps \in [AppIds -> Application \cup {Null}] /\ i \in AppIds
          /\ apps[i] \in Application
    BY DEF IInv, TypeOK, Made
  <2>2. CASE apps'[i] = apps[i]
    BY <2>2
  <2>3. ASSUME NEW r \in Appliers, Apply(r), apps'[i] # apps[i]
        PROVE  Moved(i)
    <3>1. CASE WithdrawWrite(r) \/ MarkViewed(r) \/ Decide(r)
      <4>1. PICK n \in Made, from \in SUBSET (Status \ {"withdrawn"}),
                 to \in Status :
              SetStatus(n, from, to) /\ \A s \in from : <<s, to>> \in Edges
        BY <3>1, Statuses
      <4>2. apps[i].status \in from /\ apps'[i].status = to
        BY <2>1, <2>3, <4>1 DEF SetStatus, Application
      <4> QED
        BY <4>1, <4>2
    <3>2. CASE InsertApplication(r)
      BY <2>1, <2>3, <3>2 DEF InsertApplication
    <3>3. CASE DeleteRow(r) \/ RemoveCv(r) \/ Fails(r) \/ CheckInUse(r)
      BY <2>3, <3>3 DEF DeleteRow, RemoveCv, Fails, CheckInUse
    <3>4. CASE \/ ReadJob(r) \/ ReadActive(r) \/ ReadWithdrawn(r)
               \/ ReadResume(r)
      BY <2>3, <3>4 DEF ReadJob, ReadActive, ReadWithdrawn, ReadResume
    <3>5. CASE WithdrawRead(r) \/ Download(r) \/ DeleteBegin(r)
      BY <2>3, <3>5 DEF WithdrawRead, Download, DeleteBegin, Begin
    <3> QED
      BY <2>3, <3>1, <3>2, <3>3, <3>4, <3>5 DEF Apply
  <2>4. CASE UNCHANGED apps
    BY <2>4
  <2> QED
    BY <2>2, <2>3, <2>4 DEF Next, Tick
<1> QED
  BY <1>1, Invariance, PTL DEF Spec, StatusFollowsGraph

-----------------------------------------------------------------------------
(* Applications implements CandidateDesk.                                  *)

\* What does not change in Applications does not change on the desk.
LEMMA DeskFrame ==
  /\ apps' = apps => AppRows' = AppRows
  /\ area' = area => Generated' = Generated
  /\ DOMAIN AppRows = Made
  /\ UNCHANGED <<area, store, resumes, primary, pointer, images, apps>>
       => Desk!desk' = Desk!desk
<1>1. apps' = apps => AppRows' = AppRows
  BY DEF AppRows, Made
<1>2. area' = area => Generated' = Generated
  BY DEF Generated
<1>3. DOMAIN AppRows = Made
  BY DEF AppRows
<1> QED
  BY <1>1, <1>2, <1>3 DEF Desk!desk

\* A file that is in no row is in none of the desk's.
LEMMA DeskRows == \A k : k \notin Rows /\ k # Null => ~Desk!InRow(k)
BY RowsAre DEF Desk!InRow, Desk!Pictures

\* Put stores a file.
LEMMA PutIsStore ==
  ASSUME IInv, NEW u \in Uploaders, NEW a \in Areas, Put(u, a), apps' = apps
  PROVE  \E k \in Keys : Desk!Store(k)
<1>1. PICK k \in Keys :
        /\ area[k] = Null
        /\ area' = [area EXCEPT ![k] = a]
        /\ store' = store \cup {k}
  BY DEF Put
<1>2. UNCHANGED <<resumes, primary, pointer, images>>
  BY DEF Put, rows
<1>3. Generated' = Generated \cup {k} /\ k \notin Generated
  <2>1. a # Null
    BY UploadsAssumptions
  <2>2. area \in [Keys -> Areas \cup {Null}]
    BY DEF IInv, TypeOK, UploadsTypeOK
  <2> QED
    BY <1>1, <2>1, <2>2 DEF Generated
<1> QED
  BY <1>1, <1>2, <1>3, DeskFrame DEF Desk!Store

\* Cleanup and RemoveOld throw a file away that is in no row.
LEMMA RemovalIsDiscard ==
  ASSUME IInv, NEW u \in Uploaders, Cleanup(u) \/ RemoveOld(u), apps' = apps
  PROVE  Desk!desk' = Desk!desk \/ \E k \in Keys : Desk!Discard(k)
<1>1. PICK k \in Keys \cup {Null} :
        /\ store' = store \ {k}
        /\ \/ up[u].pc = "cleanup" /\ k = up[u].key
           \/ up[u].pc = "removeOld" /\ k = up[u].old
        /\ UNCHANGED <<area, rows>>
  BY DEF Cleanup, RemoveOld, RemoveFile, IInv, TypeOK, UploadsTypeOK
<1>2. UNCHANGED <<area, resumes, primary, pointer, images>>
  BY <1>1 DEF rows
<1>3. CASE k = Null
  <2>1. store' = store
    BY <1>1, <1>3, UploadsAssumptions DEF IInv, TypeOK, UploadsTypeOK
  <2> QED
    BY <1>2, <2>1, DeskFrame
<1>4. CASE k # Null
  <2>1. k \notin Rows
    BY <1>1, <1>4 DEF IInv, UploadsOK, UploadOK, HoldsFile, Replaces
  <2>2. ~Desk!InRow(k)
    BY <1>4, <2>1, DeskRows
  <2> QED
    BY <1>1, <1>2, <1>4, <2>2, DeskFrame DEF Desk!Discard
<1> QED
  BY <1>3, <1>4

\* The file of a request is ready for a row.
LEMMA HeldIsReady ==
  ASSUME IInv, NEW u \in Uploaders, up[u].key # Null
  PROVE  up[u].key \in Keys /\ Desk!Ready(up[u].key)
<1>1. up[u].key \in store /\ up[u].key \notin Rows
  BY DEF IInv, UploadsOK, UploadOK, HoldsFile
<1>2. up[u].key \in Keys
  BY <1>1 DEF IInv, TypeOK, UploadsTypeOK
<1> QED
  BY <1>1, <1>2, DeskRows DEF Desk!Ready

\* InsertPrimary adds a CV, or its transaction changes nothing.
LEMMA InsertIsAddCv ==
  ASSUME IInv, NEW u \in Uploaders, InsertPrimary(u), apps' = apps
  PROVE  Desk!desk' = Desk!desk \/ \E k \in Keys : Desk!AddCv(k)
<1>1. /\ up[u].pc = "insert"
      /\ UNCHANGED <<area, store, pointer, images>>
      /\ \/ resumes' = resumes \cup {up[u].key} /\ primary' = {up[u].key}
         \/ UNCHANGED <<resumes, primary>>
  BY DEF InsertPrimary
<1>2. up[u].key # Null
  BY <1>1 DEF IInv, UploadsOK, UploadOK, FitsStep
<1> QED
  BY <1>1, <1>2, HeldIsReady, DeskFrame DEF Desk!AddCv

\* SetPhoto, SetLogo and RemoveLogo set a picture.
LEMMA PicturesAreSet ==
  ASSUME IInv, NEW u \in Uploaders, SetPhoto(u) \/ SetLogo(u) \/ RemoveLogo(u),
         apps' = apps
  PROVE  \E p \in Desk!Pictures, k \in Keys \cup {Null} : Desk!SetPicture(p, k)
<1>1. PICK p \in Pictures, k \in {up[u].key, Null} :
        /\ pointer' = [pointer EXCEPT ![p] = k]
        /\ UNCHANGED <<area, store, resumes, primary, images>>
  BY DEF SetPhoto, SetLogo, RemoveLogo, ReplaceLogo, Pictures
<1>2. CASE k = Null
  BY <1>1, <1>2, DeskFrame DEF Desk!SetPicture, Desk!Pictures, Pictures
<1>3. CASE k = up[u].key /\ k # Null
  <2>1. k \in Keys /\ Desk!Ready(k)
    BY <1>3, HeldIsReady
  <2> QED
    BY <1>1, <2>1, DeskFrame DEF Desk!SetPicture, Desk!Pictures, Pictures
<1> QED
  BY <1>1, <1>2, <1>3

\* InsertImage adds an image.
LEMMA InsertIsAddImage ==
  ASSUME IInv, NEW u \in Uploaders, InsertImage(u), apps' = apps
  PROVE  \E k \in Keys : Desk!AddImage(k)
<1>1. /\ up[u].pc = "insertImage"
      /\ images' = images \cup {up[u].key}
      /\ UNCHANGED <<area, store, resumes, primary, pointer>>
  BY DEF InsertImage
<1>2. up[u].key # Null
  BY <1>1 DEF IInv, UploadsOK, UploadOK, FitsStep
<1> QED
  BY <1>1, <1>2, HeldIsReady, DeskFrame DEF Desk!AddImage

\* Every step of an upload is one operation of the desk, or none.
LEMMA UploadOnDesk ==
  ASSUME IInv, NEW u \in Uploaders, Upload(u), apps' = apps
  PROVE  [Desk!Next]_(Desk!desk)
<1>1. CASE \/ DemoteStart(u) \/ DemoteEnd(u) \/ RollBack(u) \/ GivesUp(u)
           \/ ReadPhoto(u) \/ DeletePhoto(u)
  <2>1. UNCHANGED <<area, store, resumes, primary, pointer, images, apps>>
    BY <1>1 DEF DemoteStart, DemoteEnd, RollBack, GivesUp, ReadPhoto,
                DeletePhoto, rows
  <2> QED
    BY <2>1, DeskFrame
<1>2. CASE \E a \in Areas : Put(u, a)
  BY <1>2, PutIsStore DEF Desk!Next
<1>3. CASE Cleanup(u) \/ RemoveOld(u)
  BY <1>3, RemovalIsDiscard DEF Desk!Next
<1>4. CASE InsertPrimary(u)
  BY <1>4, InsertIsAddCv DEF Desk!Next
<1>5. CASE SetPhoto(u) \/ SetLogo(u) \/ RemoveLogo(u)
  BY <1>5, PicturesAreSet DEF Desk!Next
<1>6. CASE InsertImage(u)
  BY <1>6, InsertIsAddImage DEF Desk!Next
<1> QED
  BY <1>1, <1>2, <1>3, <1>4, <1>5, <1>6 DEF Upload

\* InsertApplication applies, or is refused by an index or a foreign key.
LEMMA InsertIsApply ==
  ASSUME IInv, NEW r \in Appliers, InsertApplication(r)
  PROVE  \/ Desk!desk' = Desk!desk
         \/ \E i \in AppIds, j \in Jobs, k \in Keys : Desk!Apply(i, j, k)
<1> USE NullIsNoApplication
<1>1. /\ apps \in [AppIds -> Application \cup {Null}] /\ now \in 0..MaxTime
      /\ resumes \subseteq Keys /\ ap[r] \in Request1 /\ RequestOK(r)
  BY DEF IInv, TypeOK, UploadsTypeOK, RequestsOK, Request1
<1>2. /\ ap[r].pc = "insert"
      /\ UNCHANGED <<area, store, resumes, primary, pointer, images>>
  BY DEF InsertApplication, uploadVars, rows
<1>3. CASE UNCHANGED apps
  BY <1>2, <1>3, DeskFrame
<1>4. ASSUME ~UNCHANGED apps
      PROVE  \E i \in AppIds, j \in Jobs, k \in Keys : Desk!Apply(i, j, k)
  <2> DEFINE new == [job |-> ap[r].job, cv |-> ap[r].cv,
                     status |-> "submitted", at |-> now, created |-> now,
                     knew |-> ap[r].knew]
             Row(b) == [job |-> apps[b].job, cv |-> apps[b].cv,
                        status |-> apps[b].status]
  <2>1. PICK i \in AppIds \ Made :
          /\ apps' = [apps EXCEPT ![i] = new]
          /\ ap[r].cv \in resumes /\ Active(ap[r].job) = {}
    BY <1>4 DEF InsertApplication
  <2>2. ap[r].job \in Jobs /\ ap[r].cv \in Keys
    BY <1>1, <1>2, <2>1 DEF RequestOK, Applying
  <2>3. new \in Application
    BY <1>1, <2>2 DEF Application, Status, Request1
  <2>4. /\ new.job = ap[r].job /\ new.cv = ap[r].cv /\ new.status = "submitted"
        /\ new # Null
    BY <2>3
  <2> HIDE DEF new
  <2>5. apps'[i] = new /\ \A b \in AppIds : b # i => apps'[b] = apps[b]
    BY <1>1, <2>1
  <2>6. Made' = Made \cup {i}
    BY <2>4, <2>5 DEF Made
  <2>7. \A b \in Made : apps'[b] = apps[b]
    BY <2>1, <2>5 DEF Made
  <2>8. AppRows' = [b \in DOMAIN AppRows \cup {i} |->
                     IF b = i THEN [job |-> ap[r].job, cv |-> ap[r].cv,
                                    status |-> "submitted"]
                     ELSE AppRows[b]]
    <3>1. \A b \in Made' : Row(b)' = IF b = i
                             THEN [job |-> ap[r].job, cv |-> ap[r].cv,
                                   status |-> "submitted"]
                             ELSE AppRows[b]
      BY <2>1, <2>4, <2>5, <2>6, <2>7 DEF AppRows
    <3> QED
      BY <2>6, <3>1, DeskFrame DEF AppRows
  <2>9. \A b \in DOMAIN AppRows :
          AppRows[b].job = ap[r].job => AppRows[b].status = "withdrawn"
    BY <2>1, DeskFrame DEF Active, Of, AppRows
  <2> QED
    BY <1>2, <2>1, <2>2, <2>8, <2>9, DeskFrame DEF Desk!Apply
<1> QED
  BY <1>3, <1>4

\* A withdrawal, a view or a decision moves an application, or finds it moved.
LEMMA StatusIsMove ==
  ASSUME IInv, NEW r \in Appliers,
         WithdrawWrite(r) \/ MarkViewed(r) \/ Decide(r)
  PROVE  Desk!desk' = Desk!desk \/ \E i \in AppIds : Desk!Move(i)
<1>1. PICK i \in Made, from \in SUBSET (Status \ {"withdrawn"}), to \in Status :
        SetStatus(i, from, to) /\ \A s \in from : <<s, to>> \in Edges
  BY Statuses
<1>2. /\ apps \in [AppIds -> Application \cup {Null}]
      /\ Made \subseteq AppIds /\ apps[i] \in Application
  BY DEF IInv, TypeOK, Made
<1>3. UNCHANGED <<area, store, resumes, primary, pointer, images>>
  BY <1>1 DEF SetStatus, uploadVars, rows
<1>4. CASE UNCHANGED apps
  BY <1>3, <1>4, DeskFrame
<1>5. ASSUME ~UNCHANGED apps
      PROVE  Desk!Move(i)
  <2> DEFINE new == [apps[i] EXCEPT !.status = to, !.at = now]
             Row(b) == [job |-> apps[b].job, cv |-> apps[b].cv,
                        status |-> apps[b].status]
  <2>1. apps[i].status \in from /\ apps' = [apps EXCEPT ![i] = new]
    BY <1>1, <1>5 DEF SetStatus
  <2>2. <<apps[i].status, to>> \in Edges
    BY <1>1, <2>1
  <2>3. new \in Application
    BY <1>2 DEF IInv, TypeOK, Application
  <2>4. new.job = apps[i].job /\ new.cv = apps[i].cv /\ new.status = to
          /\ new # Null
    BY <1>2, <2>3, NullIsNoApplication DEF Application
  <2> HIDE DEF new
  <2>5. apps'[i] = new /\ \A b \in AppIds : b # i => apps'[b] = apps[b]
    BY <1>2, <2>1
  <2>6. Made' = Made
    BY <1>2, <2>4, <2>5 DEF Made
  <2>7. AppRows' = [AppRows EXCEPT ![i].status = to]
    <3>1. AppRows[i] = Row(i) /\ AppRows[i].status = apps[i].status
      BY DEF AppRows
    <3>2. Row(i)' = [AppRows[i] EXCEPT !.status = to]
      BY <2>4, <2>5, <3>1
    <3>3. \A b \in Made : b # i => Row(b)' = AppRows[b]
      BY <1>2, <2>5 DEF AppRows
    <3> QED
      BY <2>6, <3>2, <3>3, DeskFrame DEF AppRows
  <2>8. AppRows[i].status = apps[i].status
    BY DEF AppRows
  <2>9. /\ AppRows[i].status \in DOMAIN Desk!Moves
        /\ to \in Desk!Moves[AppRows[i].status]
    BY <2>2, <2>8 DEF Edges, Desk!Moves
  <2> QED
    BY <1>3, <2>7, <2>9, DeskFrame DEF Desk!Move
<1> QED
  BY <1>1, <1>2, <1>4, <1>5

\* DeleteRow drops a CV no application has, RemoveCv throws its file away.
LEMMA DeletionOnDesk ==
  ASSUME IInv, NEW r \in Appliers, DeleteRow(r) \/ RemoveCv(r)
  PROVE  \/ Desk!desk' = Desk!desk
         \/ \E k \in Keys : Desk!DropCv(k) \/ Desk!Discard(k)
<1>1. DeleteOK(r) /\ ap[r].cv \in Keys \cup {Null}
  BY DEF IInv, RequestsOK, TypeOK
<1>2. ap[r].cv \in Keys /\ ap[r].cv # Null
  BY <1>1 DEF DeleteOK, DeleteRow, RemoveCv
<1>3. CASE DeleteRow(r)
  <2>1. UNCHANGED <<area, store, pointer, images, apps>>
    BY <1>3 DEF DeleteRow
  <2>2. CASE InUse(ap[r].cv)
    <3>1. UNCHANGED <<resumes, primary>>
      BY <1>3, <2>2 DEF DeleteRow
    <3> QED
      BY <2>1, <3>1, DeskFrame
  <2>3. CASE ~InUse(ap[r].cv)
    <3>1. /\ resumes' = resumes \ {ap[r].cv}
          /\ primary' = primary \ {ap[r].cv}
      BY <1>3, <2>3 DEF DeleteRow
    <3>2. \A i \in DOMAIN AppRows : AppRows[i].cv # ap[r].cv
      BY <2>3, DeskFrame DEF InUse, AppRows
    <3>3. Desk!DropCv(ap[r].cv)
      BY <2>1, <3>1, <3>2, DeskFrame DEF Desk!DropCv
    <3> QED
      BY <1>2, <3>3
  <2> QED
    BY <2>2, <2>3
<1>4. CASE RemoveCv(r)
  <2>1. /\ ap[r].pc = "removeCv" /\ store' = store \ {ap[r].cv}
        /\ UNCHANGED <<area, resumes, primary, pointer, images, apps>>
    BY <1>4 DEF RemoveCv, rows
  <2>2. ~Desk!InRow(ap[r].cv)
    BY <1>1, <1>2, <2>1, DeskRows DEF DeleteOK
  <2>3. Desk!Discard(ap[r].cv)
    BY <2>1, <2>2, DeskFrame DEF Desk!Discard
  <2> QED
    BY <1>2, <2>3
<1> QED
  BY <1>3, <1>4

\* Every step about applications is one operation of the desk, or none.
LEMMA ApplyOnDesk ==
  ASSUME IInv, NEW r \in Appliers, Apply(r)
  PROVE  [Desk!Next]_(Desk!desk)
<1>1. CASE \/ ReadJob(r) \/ ReadActive(r) \/ ReadWithdrawn(r) \/ ReadResume(r)
           \/ WithdrawRead(r) \/ Download(r) \/ DeleteBegin(r)
           \/ CheckInUse(r) \/ Fails(r)
  <2>1. UNCHANGED <<area, store, resumes, primary, pointer, images, apps>>
    BY <1>1 DEF ReadJob, ReadActive, ReadWithdrawn, ReadResume, WithdrawRead,
                Download, DeleteBegin, Begin, CheckInUse, Fails, uploadVars,
                rows
  <2> QED
    BY <2>1, DeskFrame
<1>2. CASE InsertApplication(r)
  BY <1>2, InsertIsApply DEF Desk!Next
<1>3. CASE WithdrawWrite(r) \/ MarkViewed(r) \/ Decide(r)
  BY <1>3, StatusIsMove DEF Desk!Next
<1>4. CASE DeleteRow(r) \/ RemoveCv(r)
  BY <1>4, DeletionOnDesk DEF Desk!Next
<1> QED
  BY <1>1, <1>2, <1>3, <1>4 DEF Apply

\* However uploads, deletions, applications and decisions overlap and fail,
\* files, rows and applications change as CandidateDesk changes them.
THEOREM ImplementsDesk == Spec => DeskSpec
<1>1. Init => Desk!Init
  <2> SUFFICES ASSUME Init PROVE Desk!Init
    OBVIOUS
  <2>1. Made = {} /\ Generated = {}
    BY DEF Init, UploadsInit, Made, Generated
  <2>2. AppRows = [i \in {} |-> Null]
    BY <2>1 DEF AppRows
  <2> QED
    BY <2>1, <2>2 DEF Init, UploadsInit, Desk!Init, Desk!Pictures, Pictures
<1>2. IInv /\ [Next]_vars => [Desk!Next]_(Desk!desk)
  <2> SUFFICES ASSUME IInv, [Next]_vars PROVE [Desk!Next]_(Desk!desk)
    OBVIOUS
  <2>1. CASE UNCHANGED vars \/ Tick
    <3>1. UNCHANGED <<area, store, resumes, primary, pointer, images, apps>>
      BY <2>1 DEF vars, Tick, uploadVars, rows
    <3> QED
      BY <3>1, DeskFrame
  <2>2. ASSUME NEW r \in Appliers, Apply(r)
        PROVE  [Desk!Next]_(Desk!desk)
    BY <2>2, ApplyOnDesk
  <2>3. ASSUME NEW u \in Uploaders, Upload(u), UNCHANGED <<apps, now, ap>>
        PROVE  [Desk!Next]_(Desk!desk)
    BY <2>3, UploadOnDesk
  <2> QED
    BY <2>1, <2>2, <2>3 DEF Next
<1> QED
  BY <1>1, <1>2, Invariance, PTL DEF Spec, DeskSpec, Desk!Spec

=============================================================================
