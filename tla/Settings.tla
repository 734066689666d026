-------------------------------- MODULE Settings --------------------------------
(***************************************************************************)
(* Edits of one configuration file (Prepared, atomic and lock in           *)
(* src/src/manager.rs).  Every save, import, selection and layout change   *)
(* is one edit: it is made for the revision its user saw, holds the edit   *)
(* lock from its preparation to its end, and replaces the file by a        *)
(* rename.  Edits run in different processes (the sharing service and the  *)
(* commands the interface starts), so the steps of one edit interleave     *)
(* with those of the others, with a person who edits the file without the  *)
(* lock, and with the death of a process.                                  *)
(*                                                                         *)
(* The content of the file is the set of edits applied to it; its revision *)
(* (a SHA-256) is its content.  An edit changes the content, and an edit   *)
(* by hand only adds to it.  Most edits change one thing in what they find *)
(* (an import, a selection), but a form writes all of its fields: those    *)
(* its user changed and the others as they were shown.  What is shown is   *)
(* read before the revision that goes with it (view, and Desktop::read for *)
(* the layout of the edges), so an edit of the form's fields may fall in   *)
(* between.                                                                *)
(***************************************************************************)
CONSTANTS Edits,      \* the edits made through manager.rs
          HandEdits,  \* edits by hand, without the lock
          Forms,      \* those of both that edit the fields of one form
          None        \* no edit holds the lock

ASSUME EditsAssumption == Edits \cap HandEdits = {} /\ None \notin Edits
ASSUME FormsAssumption == Forms \subseteq Edits \cup HandEdits

VARIABLES
  file,    \* content of the configuration file
  backup,  \* the .before-ui.toml beside it: none, created, or written
  lock,    \* the edit that holds the .edit.lock
  step,    \* where each edit is
  shown,   \* the content whose fields the user of each edit was shown
  seen,    \* the content for whose revision each edit was asked
  before   \* Prepared.before of each edit

vars == <<file, backup, lock, step, shown, seen, before>>

Contents == SUBSET (Edits \cup HandEdits)

\* prepared .. undoing: a Prepared exists and holds the lock.
Holding == {"prepared", "checked", "copying", "committed", "undoing"}

\* Nothing of the edit was written yet, or what was is undone.
Fresh == {"idle", "viewing", "viewed", "prepared", "checked", "copying"}
Ended == {"refused", "crashed"}

\* What the edit wrote is there, or was until something else replaced it.
Applied == {"committed", "undoing", "saved", "abandoned"}

TypeOK ==
  /\ file \in Contents
  /\ backup \in {"none", "partial", "complete"}
  /\ lock \in Edits \cup {None}
  /\ step \in [Edits -> Fresh \cup Ended \cup Applied]
  /\ shown \in [Edits -> Contents] /\ seen \in [Edits -> Contents]
  /\ before \in [Edits -> Contents]

Init ==
  /\ file = {} /\ backup = "none" /\ lock = None
  /\ step = [p \in Edits |-> "idle"]
  /\ shown = [p \in Edits |-> {}] /\ seen = [p \in Edits |-> {}]
  /\ before = [p \in Edits |-> {}]

\* Prepared.next: the fields of a form are those that were shown, and the edit's.
After(p) ==
  {p} \cup (before[p] \ (IF p \in Forms THEN Forms ELSE {}))
      \cup (IF p \in Forms THEN shown[p] \cap Forms ELSE {})

Goto(p, s) == step' = [step EXCEPT ![p] = s]
Unlock == lock' = None
-----------------------------------------------------------------------------
\* manager::view: Config::load, for the settings that the user is shown ...
View(p) ==
  /\ step[p] = "idle"
  /\ Goto(p, "viewing")
  /\ shown' = [shown EXCEPT ![p] = file]
  /\ UNCHANGED <<file, backup, lock, seen, before>>

\* ... and later, when openssl has read the certificates, their revision.
ViewRevision(p) ==
  /\ step[p] = "viewing"
  /\ Goto(p, "viewed")
  /\ seen' = [seen EXCEPT ![p] = file]
  /\ UNCHANGED <<file, backup, lock, shown, before>>

\* Prepared::edit: take the lock, read the file, compare its revision with the
\* one the user saw.
Open_Unlocked(p) ==
  /\ step[p] = "viewed" /\ file = seen[p]
  /\ lock' = p
  /\ before' = [before EXCEPT ![p] = file]
  /\ Goto(p, "prepared")
  /\ UNCHANGED <<file, backup, shown, seen>>
Open(p) ==
  /\ step[p] = "viewed" /\ lock = None /\ file = seen[p]
  /\ lock' = p
  /\ before' = [before EXCEPT ![p] = file]
  /\ Goto(p, "prepared")
  /\ UNCHANGED <<file, backup, shown, seen>>

\* settings_busy, settings_conflict, or an edit that is not valid.
OpenRefused(p) ==
  /\ step[p] = "viewed"
  /\ Goto(p, "refused")
  /\ UNCHANGED <<file, backup, lock, shown, seen, before>>

\* Prepared::commit, up to the comparison of revisions.
Check(p) ==
  /\ step[p] = "prepared" /\ file = before[p]
  /\ Goto(p, "checked")
  /\ UNCHANGED <<file, backup, lock, shown, seen, before>>

\* Prepared::commit makes a backup if there is none: created, then written.
CreateBackup(p) ==
  /\ step[p] = "checked" /\ backup = "none"
  /\ backup' = "partial"
  /\ Goto(p, "copying")
  /\ UNCHANGED <<file, lock, shown, seen, before>>

WriteBackup(p) ==
  /\ step[p] = "copying"
  /\ backup' = "complete"
  /\ Goto(p, "checked")
  /\ UNCHANGED <<file, lock, shown, seen, before>>

\* Prepared::commit renames the new file over the old one.
Replace(p) ==
  /\ step[p] = "checked" /\ backup # "none"
  /\ file' = After(p)
  /\ Goto(p, "committed")
  /\ UNCHANGED <<backup, lock, shown, seen, before>>

\* commit fails, or the Prepared is dropped before it: nothing was replaced.
Refuse(p) ==
  /\ step[p] \in {"prepared", "checked", "copying"}
  /\ Unlock
  /\ Goto(p, "refused")
  /\ UNCHANGED <<file, backup, shown, seen, before>>

\* Prepared::finish: the edit is reported as saved.
Finish(p) ==
  /\ step[p] = "committed"
  /\ Unlock
  /\ Goto(p, "saved")
  /\ UNCHANGED <<file, backup, shown, seen, before>>

\* Drop of a committed Prepared: what it wrote is undone if it is still there.
CheckUndo(p) ==
  /\ step[p] = "committed"
  /\ IF file = After(p) THEN Goto(p, "undoing") /\ UNCHANGED lock
                        ELSE Goto(p, "abandoned") /\ Unlock
  /\ UNCHANGED <<file, backup, shown, seen, before>>

Undo_Skipped(p) ==
  /\ step[p] = "undoing"
  /\ Unlock
  /\ Goto(p, "refused")
  /\ UNCHANGED <<file, backup, shown, seen, before>>
Undo(p) ==
  /\ step[p] = "undoing"
  /\ Unlock
  /\ \/ file' = before[p] /\ Goto(p, "refused")
     \/ UNCHANGED file /\ Goto(p, "abandoned")  \* the write failed
  /\ UNCHANGED <<backup, shown, seen, before>>

\* The process dies: the kernel releases its lock, nothing is undone.
Crash_LockLeft(p) ==
  /\ step[p] \in Holding
  /\ lock' = "a lock file without a process"
  /\ Goto(p, IF step[p] \in Applied THEN "abandoned" ELSE "crashed")
  /\ UNCHANGED <<file, backup, shown, seen, before>>
Crash(p) ==
  /\ step[p] \in Holding
  /\ Unlock
  /\ Goto(p, IF step[p] \in Applied THEN "abandoned" ELSE "crashed")
  /\ UNCHANGED <<file, backup, shown, seen, before>>

HandEdit(h) ==
  /\ file' = file \cup {h}
  /\ UNCHANGED <<backup, lock, step, shown, seen, before>>

Next ==
  \/ \E p \in Edits :
       \/ View(p) \/ ViewRevision(p) \/ Open(p) \/ OpenRefused(p)
       \/ Check(p) \/ CreateBackup(p) \/ WriteBackup(p) \/ Replace(p)
       \/ Refuse(p) \/ Finish(p) \/ CheckUndo(p) \/ Undo(p) \/ Crash(p)
  \/ \E h \in HandEdits : HandEdit(h)

Spec == Init /\ [][Next]_vars
-----------------------------------------------------------------------------
(* Properties *)

\* The form of q was shown before edit p of its fields, or its undo, and its
\* revision read after it: q writes the fields without p, or with it.
Loses(q, p)   == {p, q} \subseteq Forms /\ p \in seen[q] \ shown[q]
Revives(q, p) == {p, q} \subseteq Forms /\ p \in shown[q] \ seen[q]

\* An edit that was reported as saved is lost in one way only: no edit that was
\* prepared from an older content replaces the file after it, and no undo
\* reaches back behind it; but a form shown before it may have been given the
\* revision of after it.
SavedEditsSurvive ==
  \A p \in Edits : step[p] = "saved" =>
    p \in file \/ \E q \in Edits : step[q] \in Applied /\ Loses(q, p)

\* An edit that was refused, undone, or died before its rename has left no trace
\* in the file, nor in what another edit is about to write over it or restore;
\* but a form shown before its undo may have been given the revision of after it.
RefusedEditsLeaveNoTrace ==
  \A p \in Edits : step[p] \in Ended =>
    /\ p \in file => \E q \in Edits : step[q] \in Applied /\ Revives(q, p)
    /\ \A q \in Edits : step[q] \in Holding /\ p \in before[q] \cup After(q) =>
         \E r \in Edits : step[r] \in Holding \cup Applied /\ Revives(r, p)

\* Conflicting edits are rejected: of two edits asked for on the same revision,
\* at most one is saved.
ConflictsRejected ==
  \A p, q \in Edits :
    p # q /\ step[p] = "saved" /\ step[q] = "saved" => seen[p] # seen[q]

\* The first edit preserves what was there before it: once the file has been
\* replaced, there is a complete backup.
BackupPreserved ==
  (\E p \in Edits : step[p] \in {"committed", "saved"}) => backup = "complete"
=============================================================================
