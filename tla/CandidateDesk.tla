---------------------------- MODULE CandidateDesk ----------------------------
(***************************************************************************)
(* What uploads and applications promise, one whole operation at a time: a *)
(* file is stored once, is in one row at most, and is thrown away only     *)
(* when it is in none; a candidate has one active application to a job,    *)
(* with a CV that stays as long as the application does; and applications  *)
(* move along their graph.                                                 *)
(***************************************************************************)
EXTENDS Naturals

CONSTANTS Keys, Jobs, AppIds, Null

VARIABLES
  made,    \* keys generated so far
  files,   \* those that have their file
  cvs,     \* rows of CVs, and which of them is the primary one
  primary,
  picture, \* the file of the candidate's photo and of the company's logo
  images,  \* rows of images
  apps     \* applications: job, CV, status

desk == <<made, files, cvs, primary, picture, images, apps>>

Pictures == {"photo", "logo"}

Init ==
  /\ made = {} /\ files = {} /\ cvs = {} /\ primary = {} /\ images = {}
  /\ picture = [p \in Pictures |-> Null]
  /\ apps = [i \in {} |-> Null]

InRow(k) == k \in cvs \cup images \/ \E p \in Pictures : picture[p] = k
Ready(k) == k \in files /\ ~InRow(k)

Store(k) ==
  /\ k \notin made
  /\ made' = made \cup {k} /\ files' = files \cup {k}
  /\ UNCHANGED <<cvs, primary, picture, images, apps>>

Discard(k) ==
  /\ ~InRow(k)
  /\ files' = files \ {k}
  /\ UNCHANGED <<made, cvs, primary, picture, images, apps>>

\* The newest CV is the primary one.
AddCv(k) ==
  /\ Ready(k)
  /\ cvs' = cvs \cup {k} /\ primary' = {k}
  /\ UNCHANGED <<made, files, picture, images, apps>>

DropCv(k) ==
  /\ \A i \in DOMAIN apps : apps[i].cv # k
  /\ cvs' = cvs \ {k} /\ primary' = primary \ {k}
  /\ UNCHANGED <<made, files, picture, images, apps>>

SetPicture(p, k) ==
  /\ k = Null \/ Ready(k)
  /\ picture' = [picture EXCEPT ![p] = k]
  /\ UNCHANGED <<made, files, cvs, primary, images, apps>>

AddImage(k) ==
  /\ Ready(k)
  /\ images' = images \cup {k}
  /\ UNCHANGED <<made, files, cvs, primary, picture, apps>>

Apply(i, j, k) ==
  /\ i \notin DOMAIN apps /\ k \in cvs
  /\ \A b \in DOMAIN apps : apps[b].job = j => apps[b].status = "withdrawn"
  /\ apps' = [b \in DOMAIN apps \cup {i} |->
       IF b = i THEN [job |-> j, cv |-> k, status |-> "submitted"]
       ELSE apps[b]]
  /\ UNCHANGED <<made, files, cvs, primary, picture, images>>

Moves ==
  [submitted |-> {"viewed", "shortlisted", "rejected", "withdrawn"},
   viewed |-> {"shortlisted", "rejected", "withdrawn"},
   shortlisted |-> {"hired", "rejected", "withdrawn"}]

Move(i) ==
  /\ i \in DOMAIN apps /\ apps[i].status \in DOMAIN Moves
  /\ \E to \in Moves[apps[i].status] : apps' = [apps EXCEPT ![i].status = to]
  /\ UNCHANGED <<made, files, cvs, primary, picture, images>>

\* Said first, that a step changes something spares TLC the rest for most steps.
Next ==
  /\ desk' # desk
  /\ \/ \E k \in Keys : \/ Store(k) \/ Discard(k) \/ AddCv(k) \/ DropCv(k)
                        \/ AddImage(k)
     \/ \E p \in Pictures, k \in Keys \cup {Null} : SetPicture(p, k)
     \/ \E i \in AppIds : \/ Move(i)
                          \/ \E j \in Jobs, k \in Keys : Apply(i, j, k)

Spec == Init /\ [][Next]_desk
=============================================================================
