---------------------------- MODULE JobEditorProofs ----------------------------
(***************************************************************************)
(* Proofs about JobEditor, for any number of edits and saves.              *)
(*                                                                         *)
(* The saves carry the form as it was when they were asked for, so the     *)
(* chain is sorted; one save of it is under way at a time; and so nothing  *)
(* that is still to be written is older than the row, nor older than a     *)
(* save that the browser has given up.                                     *)
(***************************************************************************)
EXTENDS JobEditor, TLAPS

Sorted ==
  \A i, k \in DOMAIN saves :
    i < k => saves[i].body.edits <= saves[k].body.edits

\* Neither a save nor the row is ahead of the form.
FormLeads ==
  /\ job.body.edits <= form.edits
  /\ \A i \in DOMAIN saves : saves[i].body.edits <= form.edits
  /\ \A save \in adrift : save.body.edits <= form.edits

OneAtATime ==
  \A i, k \in DOMAIN saves :
    k < i /\ saves[i].pc # "queued" => saves[k].pc = "done"

RowBehind ==
  \A i \in DOMAIN saves : saves[i].pc # "done" =>
    /\ job.body.edits <= saves[i].body.edits
    /\ \A save \in adrift : save.body.edits <= saves[i].body.edits

IInv == TypeOK /\ Sorted /\ FormLeads /\ OneAtATime /\ RowBehind

\* The initial state satisfies it.
LEMMA InitIInv == Init => IInv
<1> SUFFICES ASSUME Init PROVE IInv
    OBVIOUS
<1>1. /\ saves = <<>> /\ Len(saves) = 0 /\ DOMAIN saves = {}
      /\ saves \in Seq(Save) /\ adrift = {}
  BY DEF Init
<1>2. 0 \in Edits /\ 0 \in Nat /\ Len(saves) <= MaxSaves
  BY <1>1, EditorAssumptions DEF Edits
<1>3. TypeOK
  <2>1. /\ form \in [edits : Edits, text : Edits, invalid : SUBSET Fields]
        /\ job \in [body : Body, status : Status]
        /\ job.body.edits = 0 /\ form.edits = 0
    BY <1>2 DEF Init, Status, Body
  <2>2. {failed, timer, open, outrun} \subseteq BOOLEAN
    BY DEF Init
  <2> QED
    BY <1>1, <1>2, <2>1, <2>2 DEF Init, TypeOK
<1> QED
  BY <1>1, <1>2, <1>3 DEF Init, IInv, Sorted, FormLeads, OneAtATime, RowBehind

\* What the types say of the numbers in them.
LEMMA Numbers ==
  ASSUME TypeOK
  PROVE  /\ form.edits \in Nat /\ job.body.edits \in Nat
         /\ Len(saves) \in Nat /\ DOMAIN saves = 1..Len(saves)
         /\ \A i \in DOMAIN saves :
              saves[i] \in Save /\ saves[i].body.edits \in Nat
         /\ \A save \in adrift : save \in Save /\ save.body.edits \in Nat
<1>1. saves \in Seq(Save)
  BY DEF TypeOK
<1>2. Len(saves) \in Nat /\ DOMAIN saves = 1..Len(saves)
  BY <1>1
<1>3. \A i \in DOMAIN saves : saves[i] \in Save
  BY <1>1, <1>2
<1>4. \A x \in Edits : x \in Nat
  BY EditorAssumptions DEF Edits
<1>5. \A save \in Save : save.body.edits \in Nat
  BY <1>4 DEF Save, Body
<1> QED
  BY <1>2, <1>3, <1>4, <1>5 DEF TypeOK, Body

\* A step that leaves the chain and the row alone: typing, timers, submitting.
LEMMA OtherStep ==
  ASSUME IInv, TypeOK', saves' = saves, adrift' = adrift,
         job'.body.edits = job.body.edits, form.edits <= form'.edits
  PROVE  IInv'
<1>1. /\ form.edits \in Nat /\ job.body.edits \in Nat
      /\ \A i \in DOMAIN saves : saves[i].body.edits \in Nat
      /\ \A save \in adrift : save.body.edits \in Nat
  BY Numbers DEF IInv
<1>2. form'.edits \in Nat
  BY EditorAssumptions DEF TypeOK, Edits
<1> QED
  BY <1>1, <1>2 DEF IInv, Sorted, FormLeads, OneAtATime, RowBehind

\* A save that is asked for carries the form as it is.
LEMMA EnqueueStep ==
  ASSUME IInv, TypeOK', NEW by, Enqueue(by),
         UNCHANGED <<form, job, adrift>>
  PROVE  IInv'
<1>1. /\ saves \in Seq(Save) /\ form.edits \in Nat /\ job.body.edits \in Nat
      /\ \A i \in DOMAIN saves : saves[i].body.edits \in Nat
      /\ \A save \in adrift : save.body.edits \in Nat
  BY Numbers DEF IInv, TypeOK
<1>2. saves' = Append(saves, [body |-> [edits |-> form.edits,
                                        text |-> form.text],
                              by |-> by, pc |-> "queued"])
  BY DEF Enqueue
<1>3. /\ DOMAIN saves = 1..Len(saves) /\ DOMAIN saves' = 1..(Len(saves) + 1)
      /\ Len(saves) \in Nat
      /\ \A i \in DOMAIN saves : saves'[i] = saves[i]
      /\ saves'[Len(saves) + 1].body.edits = form.edits
      /\ saves'[Len(saves) + 1].pc = "queued"
  BY <1>1, <1>2
<1>4. /\ \A i \in DOMAIN saves' : i \in DOMAIN saves \/ i = Len(saves) + 1
      /\ \A i \in DOMAIN saves : i < Len(saves) + 1
      /\ ~(Len(saves) + 1 < Len(saves) + 1)
  BY <1>3
<1>5. Sorted'
  BY <1>1, <1>3, <1>4 DEF IInv, Sorted, FormLeads
<1>6. FormLeads'
  BY <1>1, <1>3, <1>4 DEF IInv, FormLeads
<1>7. OneAtATime'
  BY <1>1, <1>3, <1>4 DEF IInv, OneAtATime
<1>8. RowBehind'
  BY <1>1, <1>3, <1>4 DEF IInv, RowBehind, FormLeads
<1> QED
  BY <1>5, <1>6, <1>7, <1>8 DEF IInv

\* A save goes a step further; those before it are over.
LEMMA GoStep ==
  ASSUME IInv, TypeOK', NEW i \in DOMAIN saves, NEW pc, Go(i, pc),
         form' = form, saves[i].pc # "done",
         adrift' \subseteq adrift \cup {saves[i]},
         \A k \in 1..(i - 1) : saves[k].pc = "done",
         job'.body.edits = job.body.edits
           \/ (pc # "queued" /\ job'.body.edits = saves[i].body.edits)
  PROVE  IInv' /\ job'.body.edits >= job.body.edits
<1>1. /\ saves \in Seq(Save) /\ form.edits \in Nat /\ job.body.edits \in Nat
      /\ \A k \in DOMAIN saves : saves[k].body.edits \in Nat
      /\ DOMAIN saves = 1..Len(saves) /\ Len(saves) \in Nat
      /\ \A k \in DOMAIN saves : saves[k] \in Save
      /\ \A save \in adrift : save.body.edits \in Nat
  BY Numbers DEF IInv, TypeOK
<1>2. /\ DOMAIN saves' = DOMAIN saves
      /\ \A k \in DOMAIN saves : saves'[k].body.edits = saves[k].body.edits
      /\ \A k \in DOMAIN saves : k # i => saves'[k] = saves[k]
  BY <1>1 DEF Go, Save
<1>3. \A k \in DOMAIN saves : k < i => saves[k].pc = "done"
  BY <1>1
<1>4. job.body.edits <= saves[i].body.edits
  BY DEF IInv, RowBehind
<1>5. Sorted' /\ FormLeads'
  BY <1>1, <1>2, <1>4 DEF IInv, Sorted, FormLeads
<1>6. OneAtATime'
  BY <1>1, <1>2, <1>3 DEF IInv, OneAtATime
<1>7. \A k \in DOMAIN saves :
        saves[k].pc # "done" => saves[i].body.edits <= saves[k].body.edits
  BY <1>1, <1>3 DEF IInv, Sorted
<1>8. RowBehind'
  BY <1>1, <1>2, <1>3, <1>4, <1>7 DEF IInv, RowBehind
<1> QED
  BY <1>1, <1>4, <1>5, <1>6, <1>8 DEF IInv

-----------------------------------------------------------------------------
(* The steps.                                                              *)

SavePc == {"queued", "sent", "write", "demote", "ok", "resubmitted", "error",
           "done"}

\* What goes on in the chain keeps its type.
LEMMA ChainType ==
  ASSUME TypeOK
  PROVE  /\ \A i \in DOMAIN saves : \A pc \in SavePc :
              Go(i, pc) => saves' \in Seq(Save) /\ Len(saves') <= MaxSaves
         /\ \A by \in {"autosave", "button"} :
              Enqueue(by) => saves' \in Seq(Save) /\ Len(saves') <= MaxSaves
<1>1. ASSUME NEW i \in DOMAIN saves, NEW pc \in SavePc, Go(i, pc)
      PROVE  saves' \in Seq(Save) /\ Len(saves') <= MaxSaves
  <2>1. [saves[i] EXCEPT !.pc = pc] \in Save
    BY Numbers DEF Save, SavePc
  <2>2. saves' = [saves EXCEPT ![i] = [saves[i] EXCEPT !.pc = pc]]
    BY <1>1 DEF Go
  <2> QED
    BY <2>1, <2>2 DEF TypeOK
<1>2. ASSUME NEW by \in {"autosave", "button"}, Enqueue(by)
      PROVE  saves' \in Seq(Save) /\ Len(saves') <= MaxSaves
  <2> DEFINE body == [edits |-> form.edits, text |-> form.text]
  <2>1. [body |-> body, by |-> by, pc |-> "queued"] \in Save
    BY DEF TypeOK, Save, Body
  <2>2. /\ saves' = Append(saves, [body |-> body, by |-> by,
                                   pc |-> "queued"])
        /\ Len(saves) < MaxSaves
    BY <1>2 DEF Enqueue
  <2>3. Len(saves') = Len(saves) + 1 /\ saves' \in Seq(Save)
    BY <2>1, <2>2 DEF TypeOK
  <2> QED
    BY <2>2, <2>3, Numbers, EditorAssumptions
<1> QED
  BY <1>1, <1>2

\* Typing.
LEMMA EditSteps ==
  ASSUME IInv,
         \/ EditDescription \/ EditRole \/ EditSalary \/ EditContact
         \/ EditCreative
  PROVE  IInv' /\ job'.body.edits >= job.body.edits
<1>1. PICK invalid \in SUBSET Fields : Edit(invalid)
  <2>1. form.invalid \in SUBSET Fields
    BY DEF IInv, TypeOK
  <2>2. \A field \in Fields :
          EditField(field) => \E invalid \in SUBSET Fields : Edit(invalid)
    BY <2>1 DEF EditField
  <2> QED
    BY <2>1, <2>2 DEF EditDescription, EditRole, EditSalary, EditContact,
                      EditCreative, Fields
<1>2. form.edits \in Nat /\ form.edits + 1 \in Edits /\ job.body.edits \in Nat
  BY <1>1, Numbers, EditorAssumptions DEF Edit, Edits, IInv
<1>3. PICK text \in 0..(form.edits + 1) :
        /\ form' = [edits |-> form.edits + 1, text |-> text,
                    invalid |-> invalid]
        /\ timer' = (text # persisted)
        /\ ui' \in {"unsaved", "saved", "idle"}
        /\ outrun' \in BOOLEAN
        /\ UNCHANGED <<persisted, failed, saves, adrift, submit, open, job,
                       initial>>
  <2>1. \A text : (~timer' /\ Unconfirmed(text)) \in BOOLEAN
    OBVIOUS
  <2> QED
    BY <1>1, <2>1 DEF Edit
<1>4. TypeOK'
  <2>1. text \in Edits
    BY <1>2, <1>3, EditorAssumptions DEF Edits
  <2> QED
    BY <1>2, <1>3, <2>1 DEF IInv, TypeOK
<1> QED
  BY <1>2, <1>3, <1>4, OtherStep

\* Autosave, SaveDraft: at most a save is asked for.
LEMMA AskSteps ==
  ASSUME IInv, Autosave \/ SaveDraft
  PROVE  IInv' /\ job'.body.edits >= job.body.edits
<1>1. /\ UNCHANGED <<form, persisted, adrift, submit, open, job, initial>>
      /\ \/ UNCHANGED saves
         \/ \E by \in {"autosave", "button"} : Enqueue(by)
  BY DEF Autosave, SaveDraft
<1>2. /\ timer' \in BOOLEAN /\ failed' \in BOOLEAN /\ outrun' \in BOOLEAN
      /\ ui' \in {"idle", "saving", "saved", "error", "unsaved"}
  <2>1. \A text : Unconfirmed(text) \in BOOLEAN
    BY DEF Unconfirmed
  <2> QED
    BY <2>1 DEF IInv, TypeOK, Autosave, SaveDraft, Enqueue
<1>3. saves' \in Seq(Save) /\ Len(saves') <= MaxSaves
  BY <1>1, ChainType DEF IInv, TypeOK
<1>4. TypeOK'
  BY <1>1, <1>2, <1>3 DEF IInv, TypeOK
<1>5. job.body.edits \in Nat /\ form.edits \in Nat
  BY Numbers DEF IInv
<1> QED
  BY <1>1, <1>4, <1>5, OtherStep, EnqueueStep

\* SavedFades and the request that submits: no body changes.
LEMMA SubmitSteps ==
  ASSUME IInv, SavedFades \/ Submit \/ SubmitWrite \/ SubmitAnswered
  PROVE  IInv' /\ job'.body.edits >= job.body.edits
<1>1. UNCHANGED <<form, persisted, saves, adrift, initial, outrun>>
  BY DEF SavedFades, Submit, SubmitWrite, SubmitAnswered
<1>2. /\ job' \in [body : Body, status : Status]
      /\ job'.body.edits = job.body.edits
  BY DEF IInv, TypeOK, Status, SavedFades, Submit, SubmitWrite,
         SubmitAnswered
<1>3. /\ ui' \in {"idle", "saving", "saved", "error", "unsaved"}
      /\ submit' \in {"none", "sent", "ok", "error"}
  BY DEF IInv, TypeOK, SavedFades, Submit, SubmitWrite, SubmitAnswered
<1>4. failed' \in BOOLEAN /\ timer' \in BOOLEAN /\ open' \in BOOLEAN
  BY DEF IInv, TypeOK, SavedFades, Submit, SubmitWrite, SubmitAnswered
<1>5. TypeOK'
  BY <1>1, <1>2, <1>3, <1>4 DEF IInv, TypeOK
<1>6. job.body.edits \in Nat /\ form.edits \in Nat
  BY Numbers DEF IInv
<1> QED
  BY <1>1, <1>2, <1>5, <1>6, OtherStep

\* A save on its way.
LEMMA SaveSteps ==
  ASSUME IInv, NEW i \in DOMAIN saves, Send(i) \/ Serve(i)
  PROVE  IInv' /\ job'.body.edits >= job.body.edits
<1>1. UNCHANGED <<form, submit, initial, outrun>>
  BY DEF Send, Serve, CheckSave, WriteSave, LoseSave, Saved, SaveFailed
<1>2. saves[i].pc # "done" /\ \A k \in 1..(i - 1) : saves[k].pc = "done"
  <2>1. CASE Send(i)
    BY <2>1 DEF Send
  <2>2. CASE Serve(i)
    <3>1. saves[i].pc \notin {"queued", "done"}
      BY <2>2 DEF Serve, CheckSave, WriteSave, LoseSave, Saved, SaveFailed
    <3>2. \A k \in 1..(i - 1) : k \in DOMAIN saves /\ k < i
      BY Numbers DEF IInv
    <3> QED
      BY <3>1, <3>2 DEF IInv, OneAtATime
  <2> QED
    BY <2>1, <2>2
<1>3. PICK pc \in SavePc \ {"queued"} : Go(i, pc)
  BY DEF Send, Serve, CheckSave, WriteSave, LoseSave, Saved, SaveFailed,
         SavePc
<1>4. \/ UNCHANGED job
      \/ /\ job'.body.edits = saves[i].body.edits
         /\ job' \in [body : Body, status : Status]
  <2>1. CASE WriteSave(i)
    BY <2>1, Numbers DEF WriteSave, Written, IInv, TypeOK, Status, Save
  <2> QED
    BY <2>1 DEF Send, Serve, CheckSave, LoseSave, Saved, SaveFailed
<1>5. /\ persisted' \in Edits
      /\ ui' \in {"idle", "saving", "saved", "error", "unsaved"}
      /\ failed' \in BOOLEAN
  BY Numbers DEF IInv, TypeOK, Save, Body, Send, Serve, CheckSave, WriteSave,
                 LoseSave, Saved, SaveFailed
<1>6. open' \in BOOLEAN /\ timer' \in BOOLEAN
  BY DEF IInv, TypeOK, Send, Serve, CheckSave, WriteSave, LoseSave, Saved,
         SaveFailed
<1>7. saves' \in Seq(Save) /\ Len(saves') <= MaxSaves
  BY <1>3, ChainType DEF IInv
<1>8. adrift' \subseteq adrift \cup {saves[i]} /\ adrift' \subseteq Save
  <2>1. adrift' \subseteq adrift \cup {saves[i]}
    BY DEF Send, Serve, CheckSave, WriteSave, LoseSave, Saved, SaveFailed
  <2> QED
    BY <2>1, Numbers DEF IInv
<1>9. TypeOK'
  BY <1>1, <1>4, <1>5, <1>6, <1>7, <1>8 DEF IInv, TypeOK
<1> QED
  BY <1>1, <1>2, <1>3, <1>4, <1>8, <1>9, GoStep

\* A save given up is older than those that are not done.
LEMMA AdriftStep ==
  ASSUME IInv, NEW save \in adrift, WriteAdrift(save)
  PROVE  IInv' /\ adrift' # adrift
<1>1. /\ adrift' = adrift \ {save} /\ job' = Written(save) /\ outrun' = TRUE
      /\ UNCHANGED <<form, persisted, ui, failed, timer, saves, submit, open,
                     initial>>
  BY DEF WriteAdrift
<1>2. save \in Save /\ save.body.edits \in Nat
  BY Numbers DEF IInv
<1>3. job'.body = save.body /\ job' \in [body : Body, status : Status]
  BY <1>1, <1>2 DEF Written, Save, Status, IInv, TypeOK
<1>4. TypeOK'
  BY <1>1, <1>3 DEF IInv, TypeOK
<1>5. Sorted' /\ FormLeads' /\ OneAtATime' /\ RowBehind'
  BY <1>1, <1>3 DEF IInv, Sorted, FormLeads, OneAtATime, RowBehind
<1> QED
  BY <1>1, <1>4, <1>5 DEF IInv

-----------------------------------------------------------------------------
(* The theorems.                                                           *)

\* Every step keeps the invariant, and no save of the chain takes the row back.
LEMMA NextIInv ==
  IInv /\ [Next]_vars
    => IInv' /\ [job'.body.edits >= job.body.edits \/ adrift' # adrift]_vars
<1>1. ASSUME IInv, UNCHANGED vars
      PROVE  IInv'
  BY <1>1 DEF vars, IInv, TypeOK, Sorted, FormLeads, OneAtATime, RowBehind
<1>2. ASSUME IInv, Next
      PROVE  IInv' /\ (job'.body.edits >= job.body.edits \/ adrift' # adrift)
  BY <1>2, EditSteps, AskSteps, SubmitSteps, SaveSteps, AdriftStep DEF Next
<1> QED
  BY <1>1, <1>2

\* The invariant holds whatever is typed while saves are on their way.
THEOREM Invariance == Spec => []IInv
<1> QED
  BY InitIInv, NextIInv, PTL DEF Spec

\* Every variable keeps its type.
THEOREM TypeCorrect == Spec => []TypeOK
<1>1. IInv => TypeOK
  BY DEF IInv
<1> QED
  BY <1>1, Invariance, PTL

\* No save lands on a newer one, but for those the browser has given up.
THEOREM SavesLandInOrderHolds == Spec => SavesLandInOrder
<1> QED
  BY Invariance, NextIInv, PTL DEF Spec, SavesLandInOrder
=============================================================================
