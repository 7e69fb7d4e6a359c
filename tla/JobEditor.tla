------------------------------ MODULE JobEditor ------------------------------
(***************************************************************************)
(* The form of one listing in an employer's browser: typing, the autosave  *)
(* that waits for a pause, the buttons that save and submit, and the       *)
(* requests that carry the form to the API while the user types on.        *)
(*                                                                         *)
(* A text is the number of the edit that first brought it, so an edit may   *)
(* bring an earlier one back.  The API reads the status, then writes by id. *)
(* A request may fail on the way there or back, and the browser may learn  *)
(* so while the API is still at it.  One tab, so nobody else writes; slots *)
(* and the budget of characters are left out, and the page is left by      *)
(* submitting only.                                                        *)
(***************************************************************************)
EXTENDS Naturals, Sequences

CONSTANTS
  MaxEdits,  \* bound on edits
  MaxSaves   \* bound on saves

ASSUME EditorAssumptions == MaxEdits \in Nat /\ MaxSaves \in Nat

VARIABLES
  form,       \* edits so far, the text, and the fields that do not parse
  persisted,  \* lastPersistedRef: the text that is saved, as the form knows
  ui,         \* autosaveUi
  failed,     \* an error is shown for a button
  timer,      \* the autosave is armed
  saves,      \* the chain of saves, the oldest first
  adrift,     \* saves the API is at though the browser has given them up
  submit,     \* the request that submits
  open,       \* the page is
  job,        \* the row
  initial,    \* the status the page was loaded with; it is not loaded again
  outrun      \* history: since it was typed or sent, the text was taken for
              \* saved while it was not, or a save given up has landed

vars == <<form, persisted, ui, failed, timer, saves, adrift, submit, open, job,
          initial, outrun>>

Edits == 0..MaxEdits
Fields == {"salary", "contact", "creative"}
Status == {"draft", "submitted", "published"}
Body == [edits : Edits, text : Edits]
Save == [body : Body, by : {"autosave", "button"},
         pc : {"queued", "sent", "write", "demote", "ok", "resubmitted",
               "error", "done"}]

TypeOK ==
  /\ form \in [edits : Edits, text : Edits, invalid : SUBSET Fields]
  /\ persisted \in Edits
  /\ ui \in {"idle", "saving", "saved", "error", "unsaved"}
  /\ {failed, timer, open, outrun} \subseteq BOOLEAN
  /\ saves \in Seq(Save) /\ Len(saves) <= MaxSaves
  /\ adrift \subseteq Save
  /\ submit \in {"none", "sent", "ok", "error"}
  /\ job \in [body : Body, status : Status]
  /\ initial \in {"draft", "published"}

\* The page has loaded a draft or a live listing.
Init ==
  /\ form = [edits |-> 0, text |-> 0, invalid |-> {}]
  /\ persisted = 0 /\ ui = "idle" /\ failed = FALSE /\ timer = FALSE
  /\ saves = <<>> /\ adrift = {} /\ submit = "none" /\ open = TRUE
  /\ initial \in {"draft", "published"}
  /\ job = [body |-> [edits |-> 0, text |-> 0], status |-> initial]
  /\ outrun = FALSE

applyLocked == initial = "published"
canSubmit == initial = "draft"
Pending == \E i \in DOMAIN saves : saves[i].pc \notin {"queued", "done"}
Blocking == submit # "none"

-----------------------------------------------------------------------------
(* Typing.                                                                 *)

Unconfirmed(text) ==
  job.body.text # text \/ \E i \in DOMAIN saves : saves[i].pc # "done"

\* The effect on draftSnapshot: a changed form arms the timer again, unless it
\* is back at the text last saved.
Edit(invalid) ==
  /\ open /\ form.edits < MaxEdits
  /\ \E text \in 0..(form.edits + 1) :
       /\ form' = [edits |-> form.edits + 1, text |-> text, invalid |-> invalid]
       /\ timer' = (text # persisted)
       /\ ui' = IF timer' THEN "unsaved" ELSE IF ui = "saved" THEN ui ELSE "idle"
       /\ outrun' = (~timer' /\ Unconfirmed(text))
  /\ UNCHANGED <<persisted, failed, saves, adrift, submit, open, job, initial>>

\* A field that may be half typed.
EditField(field) ==
  \E half \in BOOLEAN :
    Edit(IF half THEN form.invalid \cup {field} ELSE form.invalid \ {field})

EditDescription == ~applyLocked /\ ~Blocking /\ Edit(form.invalid)
EditRole == Edit(form.invalid)
EditSalary == EditField("salary")
EditContact == ~applyLocked /\ EditField("contact")
EditCreative ==
  ~applyLocked /\ ~Blocking /\ EditField("creative")

-----------------------------------------------------------------------------
(* Saving.                                                                 *)

Enqueue(by) ==
  /\ Len(saves) < MaxSaves
  /\ saves' = Append(saves, [body |-> [edits |-> form.edits, text |-> form.text],
                             by |-> by, pc |-> "queued"])
  /\ outrun' = FALSE

\* Mutant: the autosave gives way to a save under way.
AutosaveUnlessPending ==
  /\ timer /\ open
  /\ timer' = FALSE
  /\ IF form.invalid # {} \/ Pending
     THEN ui' = "unsaved" /\ UNCHANGED <<saves, outrun>>
     ELSE IF form.text = persisted
     THEN ui' = "idle" /\ outrun' = Unconfirmed(form.text) /\ UNCHANGED saves
     ELSE ui' = "saving" /\ Enqueue("autosave")
  /\ UNCHANGED <<form, persisted, failed, adrift, submit, open, job, initial>>

\* Five seconds after the last edit.
Autosave ==
  /\ timer /\ open
  /\ timer' = FALSE
  /\ IF form.invalid # {} THEN ui' = "unsaved" /\ UNCHANGED <<saves, outrun>>
     ELSE IF form.text = persisted
     THEN ui' = "idle" /\ outrun' = Unconfirmed(form.text) /\ UNCHANGED saves
     ELSE ui' = "saving" /\ Enqueue("autosave")
  /\ UNCHANGED <<form, persisted, failed, adrift, submit, open, job, initial>>

\* onSubmit: the button that saves.
SaveDraft ==
  /\ open /\ ~Pending /\ ~Blocking
  /\ IF form.invalid # {} THEN failed' = TRUE /\ UNCHANGED <<saves, outrun>>
     ELSE failed' = FALSE /\ Enqueue("button")
  /\ UNCHANGED <<form, persisted, ui, timer, adrift, submit, open, job, initial>>

Go(i, pc) == saves' = [saves EXCEPT ![i].pc = pc]

\* Mutant: a save goes out beside those before it.
SendBeside(i) ==
  /\ saves[i].pc = "queued"
  /\ Go(i, "sent")
  /\ UNCHANGED <<form, persisted, ui, failed, timer, adrift, submit, open, job,
                 initial, outrun>>

\* patchChainRef: a save goes out when the one before it is over.
Send(i) ==
  /\ saves[i].pc = "queued"
  /\ \A k \in 1..(i - 1) : saves[k].pc = "done"
  /\ Go(i, "sent")
  /\ UNCHANGED <<form, persisted, ui, failed, timer, adrift, submit, open, job,
                 initial, outrun>>

\* updateDraftJob reads the status.
CheckSave(i) ==
  /\ saves[i].pc = "sent"
  /\ Go(i, CASE job.status = "draft" -> "write"
             [] job.status = "published" -> "demote"
             [] OTHER -> "error")
  /\ UNCHANGED <<form, persisted, ui, failed, timer, adrift, submit, open, job,
                 initial, outrun>>

Written(save) ==
  [body |-> save.body,
   status |-> IF save.pc = "demote" THEN "submitted" ELSE job.status]

\* ... and writes, for a live listing as a demotion; the answer may get lost.
WriteSave(i) ==
  /\ saves[i].pc \in {"write", "demote"}
  /\ job' = Written(saves[i])
  /\ \/ Go(i, IF saves[i].pc = "demote" THEN "resubmitted" ELSE "ok")
     \/ Go(i, "error")
  /\ UNCHANGED <<form, persisted, ui, failed, timer, adrift, submit, open,
                 initial, outrun>>

\* The browser learns of a failure, and the API may be about to write still; a
\* save it has not checked by then may as well be checked before, or lost.
LoseSave(i) ==
  /\ saves[i].pc \in {"sent", "write", "demote"}
  /\ Go(i, "error")
  /\ \/ UNCHANGED adrift
     \/ saves[i].pc # "sent" /\ adrift' = adrift \cup {saves[i]}
  /\ UNCHANGED <<form, persisted, ui, failed, timer, submit, open, job,
                 initial, outrun>>

WriteAdrift(save) ==
  /\ adrift' = adrift \ {save}
  /\ job' = Written(save) /\ outrun' = TRUE
  /\ UNCHANGED <<form, persisted, ui, failed, timer, saves, submit, open,
                 initial>>

\* The answer is there; a listing that went back to review leaves the page.
Saved(i) ==
  /\ saves[i].pc \in {"ok", "resubmitted"}
  /\ persisted' = saves[i].body.text
  /\ ui' = IF saves[i].by = "autosave" THEN "saved" ELSE "idle"
  /\ open' = (open /\ saves[i].pc = "ok")
  /\ timer' = (timer /\ open')
  /\ Go(i, "done")
  /\ UNCHANGED <<form, failed, adrift, submit, job, initial, outrun>>

SaveFailed(i) ==
  /\ saves[i].pc = "error"
  /\ IF saves[i].by = "autosave" THEN ui' = "error" /\ UNCHANGED failed
                                 ELSE failed' = TRUE /\ UNCHANGED ui
  /\ Go(i, "done")
  /\ UNCHANGED <<form, persisted, timer, adrift, submit, open, job, initial,
                 outrun>>

\* "Saved" is shown for two seconds.
SavedFades ==
  /\ ui = "saved"
  /\ ui' = "idle"
  /\ UNCHANGED <<form, persisted, failed, timer, saves, adrift, submit, open,
                 job, initial, outrun>>

-----------------------------------------------------------------------------
(* Submitting: what the row holds, not what the form holds.                *)

Submit ==
  /\ open /\ canSubmit /\ ~Pending /\ ~Blocking
  /\ submit' = "sent" /\ failed' = FALSE
  /\ UNCHANGED <<form, persisted, ui, timer, saves, adrift, open, job, initial,
                 outrun>>

\* submitJobForModeration reads the status and writes by id; in one tab nothing
\* changes the status of a draft in between.
SubmitWrite ==
  /\ submit = "sent"
  /\ \/ /\ job.status = "draft"
        /\ job' = [job EXCEPT !.status = "submitted"]
        /\ submit' \in {"ok", "error"}
     \/ submit' = "error" /\ UNCHANGED job
  /\ UNCHANGED <<form, persisted, ui, failed, timer, saves, adrift, open,
                 initial, outrun>>

SubmitAnswered ==
  /\ submit \in {"ok", "error"}
  /\ open' = (open /\ submit # "ok")
  /\ timer' = (timer /\ open')
  /\ failed' = (submit = "error")
  /\ submit' = "none"
  /\ UNCHANGED <<form, persisted, ui, saves, adrift, job, initial, outrun>>

-----------------------------------------------------------------------------
Serve(i) ==
  CheckSave(i) \/ WriteSave(i) \/ LoseSave(i) \/ Saved(i) \/ SaveFailed(i)

Next ==
  \/ EditDescription \/ EditRole \/ EditSalary \/ EditContact \/ EditCreative
  \/ Autosave \/ SaveDraft \/ SavedFades
  \/ \E i \in DOMAIN saves : Send(i) \/ Serve(i)
  \/ \E save \in adrift : WriteAdrift(save)
  \/ Submit \/ SubmitWrite \/ SubmitAnswered

\* Timers fire, promises go on, requests end one way or the other.
Fairness ==
  /\ WF_vars(Autosave)
  /\ WF_vars(\E i \in DOMAIN saves : Send(i) \/ Serve(i))
  /\ WF_vars(SubmitWrite \/ SubmitAnswered)

Spec == Init /\ [][Next]_vars /\ Fairness

-----------------------------------------------------------------------------
(* Properties.                                                             *)

\* Autosaves and the button may send several saves: no older one lands on a
\* newer one (patchChainRef), but for one the browser has given up.
SavesLandInOrder ==
  [][job'.body.edits >= job.body.edits \/ adrift' # adrift]_vars

\* The text is in the row, and no save is left that may change it.
Settled == ~Unconfirmed(form.text)

\* Once the user stops typing, as the bound on edits makes him, the text, be it
\* new or brought back, is saved without a click, unless a field does not parse,
\* a failure is shown, the page is gone, the bound on saves is reached, or, as
\* outrun records, the form took the text for saved while a save was on its way
\* or had landed unnoticed.
EditsAreSaved ==
  []<>(\/ Settled \/ outrun
       \/ form.invalid # {} \/ ui = "error" \/ failed \/ ~open
       \/ timer /\ Len(saves) = MaxSaves)
=============================================================================
