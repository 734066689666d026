----------------------------- MODULE SettingsProofs -----------------------------
(***************************************************************************)
(* Proofs about Settings, for any number of edits and edits by hand.  The  *)
(* argument is that of a critical section: an edit that holds the lock     *)
(* prepared itself from the content whose revision it was asked for, and   *)
(* that content has every saved edit and no undone one, but for those that *)
(* a form shown too early, or too late, has lost or revived before.        *)
(***************************************************************************)
EXTENDS Settings, TLAPS

\* The holder of the lock is the one edit in progress.
Owner == \A p \in Edits : step[p] \in Holding <=> lock = p

\* An edit is prepared from the content that its revision was read of, which
\* does not contain it.
Faithful == \A p \in Edits :
  /\ p \notin seen[p]
  /\ step[p] \in Holding \cup Applied => before[p] = seen[p]

\* Nobody has seen an edit that is not written yet.
Unseen == \A p \in Edits : step[p] \in Fresh =>
  p \notin file /\ \A q \in Edits : p \notin shown[q] \cup seen[q] \cup before[q]

\* Some form has lost edit p, or has revived it.
Lost(p)    == \E q \in Edits : step[q] \in Applied /\ Loses(q, p)
Revived(p) == \E q \in Edits : step[q] \in Applied /\ Revives(q, p)

\* An edit that was refused, undone or crashed is neither in the file nor in what
\* the edit in progress started from.
Traceless == \A p \in Edits : step[p] \in Ended =>
  /\ p \in file => Revived(p)
  /\ \A q \in Edits : step[q] \in Holding /\ p \in before[q] => Revived(p)

\* A saved edit is in the file and in what the edit in progress started from.
Kept == \A p \in Edits :
  /\ step[p] = "committed" => p \in file
  /\ step[p] = "saved" => p \in file \/ Lost(p)
  /\ step[p] = "saved" =>
       \A q \in Edits : step[q] \in Holding => p \in before[q] \/ Lost(p)

\* Since an edit was saved, the file has something that it did not start from.
Moved == \A p \in Edits : step[p] = "saved" =>
  /\ ~(file \subseteq seen[p])
  /\ \A q \in Edits : step[q] \in Holding => ~(before[q] \subseteq seen[p])

Parts == Owner /\ Faithful /\ Unseen /\ Traceless /\ Kept /\ Moved
IInv == TypeOK /\ Parts /\ ConflictsRejected

\* The invariant holds initially.
LEMMA InitIInv == Init => IInv
BY EditsAssumption DEF Init, IInv, Parts, TypeOK, Owner, Faithful, Unseen, Traceless,
   Kept, Moved, ConflictsRejected, Holding, Fresh, Ended, Applied, Contents

\* What has been lost or revived stays so while no edit is undone and none of
\* those applied is shown anything.
LEMMA Remembered ==
  ASSUME NEW p,
         \A q \in Edits : step[q] \in Applied =>
           step'[q] \in Applied /\ shown'[q] = shown[q] /\ seen'[q] = seen[q]
  PROVE  (Lost(p) => Lost(p)') /\ (Revived(p) => Revived(p)')
BY DEF Lost, Revived, Loses, Revives

\* A user looks at the form, or at its revision: what they see has no edit that
\* is not applied.
LEMMA ViewStep ==
  ASSUME IInv, NEW p \in Edits, View(p) \/ ViewRevision(p) PROVE IInv'
<1> USE EditsAssumption DEF IInv, Parts, TypeOK, Holding, Fresh, Ended, Applied,
        Contents, View, ViewRevision, Goto
<1>0. \A q \in Edits : (Lost(q) => Lost(q)') /\ (Revived(q) => Revived(q)')
  BY Remembered
<1>1. TypeOK' OBVIOUS
<1>2. Owner' BY DEF Owner
<1>3. Faithful' BY DEF Faithful, Unseen
<1>4. Unseen' BY DEF Unseen
<1>5. Traceless' BY <1>0 DEF Traceless
<1>6. Kept' BY <1>0 DEF Kept
<1>7. Moved' BY DEF Moved
<1>8. ConflictsRejected' BY DEF ConflictsRejected
<1> QED BY <1>1, <1>2, <1>3, <1>4, <1>5, <1>6, <1>7, <1>8

\* An edit takes the lock, which nobody holds, and reads the file.
LEMMA OpenStep == ASSUME IInv, NEW p \in Edits, Open(p) PROVE IInv'
<1> USE EditsAssumption DEF IInv, Parts, TypeOK, Holding, Fresh, Ended, Applied,
        Contents, Open, Goto
<1>0. \A q \in Edits : (Lost(q) => Lost(q)') /\ (Revived(q) => Revived(q)')
  BY Remembered
<1>1. TypeOK' OBVIOUS
<1>2. Owner' /\ \A q \in Edits : step[q] \notin Holding BY DEF Owner
<1>3. Faithful' BY DEF Faithful
<1>4. Unseen' BY DEF Unseen
<1>5. Traceless' BY <1>0, <1>2 DEF Traceless
<1>6. Kept' BY <1>0, <1>2 DEF Kept
<1>7. Moved' BY <1>2 DEF Moved
<1>8. ConflictsRejected' BY DEF ConflictsRejected
<1> QED BY <1>1, <1>2, <1>3, <1>4, <1>5, <1>6, <1>7, <1>8

\* Steps of one edit that keep the file and the lock.
LEMMA MoveStep ==
  ASSUME IInv, NEW p \in Edits,
         OpenRefused(p) \/ Check(p) \/ CreateBackup(p) \/ WriteBackup(p)
  PROVE  IInv'
<1> USE EditsAssumption DEF IInv, Parts, TypeOK, Holding, Fresh, Ended, Applied,
        Contents, OpenRefused, Check, CreateBackup, WriteBackup, Goto
<1>0. \A q \in Edits : (Lost(q) => Lost(q)') /\ (Revived(q) => Revived(q)')
  BY Remembered
<1>1. TypeOK' OBVIOUS
<1>2. Owner' BY DEF Owner
<1>3. Faithful' BY DEF Faithful
<1>4. Unseen' BY DEF Unseen
<1>5. Traceless' BY <1>0 DEF Traceless, Unseen
<1>6. Kept' BY <1>0 DEF Kept
<1>7. Moved' BY DEF Moved
<1>8. ConflictsRejected' BY DEF ConflictsRejected
<1> QED BY <1>1, <1>2, <1>3, <1>4, <1>5, <1>6, <1>7, <1>8

\* What an edit writes that it did not start from is itself, or was in its form.
LEMMA Written ==
  ASSUME IInv, NEW p \in Edits, step[p] = "checked", NEW q
  PROVE  /\ q \in before[p] => q \in After(p) \/ Loses(p, q)
         /\ q \in After(p) => q = p \/ q \in before[p] \/ Revives(p, q)
         /\ p \in After(p)
BY DEF IInv, Parts, Faithful, After, Loses, Revives, Holding

\* The file is replaced by what the holder prepared.
LEMMA ReplaceStep == ASSUME IInv, NEW p \in Edits, Replace(p) PROVE IInv'
<1> USE EditsAssumption DEF IInv, Parts, TypeOK, Holding, Fresh, Ended, Applied,
        Contents, Replace, Goto
<1>0. \A q \in Edits : (Lost(q) => Lost(q)') /\ (Revived(q) => Revived(q)')
  BY Remembered
<1>1. TypeOK' BY DEF After
<1>2. Owner' /\ \A q \in Edits : q # p => step[q] \notin Holding BY DEF Owner
<1>3. Faithful' BY DEF Faithful
<1>a. ASSUME NEW q
      PROVE  /\ q \in before[p] => q \in file' \/ Lost(q)'
             /\ q \in file' => q = p \/ q \in before[p] \/ Revived(q)'
  <2>1. step'[p] \in Applied /\ shown' = shown /\ seen' = seen OBVIOUS
  <2>2. Loses(p, q) => Lost(q)' BY <2>1 DEF Lost, Loses
  <2>3. Revives(p, q) => Revived(q)' BY <2>1 DEF Revived, Revives
  <2> QED BY <2>2, <2>3, Written
<1>4. Unseen'
  <2>1. \A q \in Edits : step'[q] \in Fresh => step[q] \in Fresh /\ q # p OBVIOUS
  <2>2. \A q \in Edits : step'[q] \in Fresh => q \notin After(p)
    BY <2>1 DEF Unseen, After
  <2> QED BY <2>1, <2>2 DEF Unseen
<1>5. Traceless' BY <1>0, <1>2, <1>a DEF Traceless
<1>6. Kept' BY <1>0, <1>2, <1>a, Written DEF Kept
<1>7. Moved'
  <2>1. \A q \in Edits : p \notin seen[q] BY DEF Unseen
  <2>2. p \in file' BY Written
  <2> QED BY <2>1, <2>2 DEF Moved
<1>8. ConflictsRejected' BY DEF ConflictsRejected
<1> QED BY <1>1, <1>2, <1>3, <1>4, <1>5, <1>6, <1>7, <1>8

\* The holder ends without changing the file.
LEMMA EndStep ==
  ASSUME IInv, NEW p \in Edits, Refuse(p) \/ Finish(p) \/ CheckUndo(p) \/ Crash(p)
  PROVE  IInv'
<1> USE EditsAssumption DEF IInv, Parts, TypeOK, Holding, Fresh, Ended, Applied,
        Contents, Refuse, Finish, CheckUndo, Crash, Goto, Unlock
<1>0. \A q \in Edits : (Lost(q) => Lost(q)') /\ (Revived(q) => Revived(q)')
  BY Remembered
<1>1. TypeOK' OBVIOUS
<1>2. Owner' /\ \A q \in Edits : q # p => step[q] \notin Holding BY DEF Owner
<1>3. Faithful' BY DEF Faithful
<1>4. Unseen' BY DEF Unseen
<1>5. Traceless' BY <1>0 DEF Traceless, Unseen
<1>6. Kept' BY <1>0, <1>2 DEF Kept
<1>7. Moved' BY <1>2 DEF Moved, Kept, Faithful
<1>8. ConflictsRejected' BY DEF ConflictsRejected, Moved, Faithful
<1> QED BY <1>1, <1>2, <1>3, <1>4, <1>5, <1>6, <1>7, <1>8

\* The holder restores the content it started from, or fails to.
LEMMA UndoStep == ASSUME IInv, NEW p \in Edits, Undo(p) PROVE IInv'
<1> USE EditsAssumption DEF IInv, Parts, TypeOK, Holding, Fresh, Ended, Applied,
        Contents, Undo, Goto, Unlock
<1>1. TypeOK' OBVIOUS
<1>2. Owner' /\ \A q \in Edits : q # p => step[q] \notin Holding BY DEF Owner
<1>3. Faithful' BY DEF Faithful
<1>a. p \notin seen[p] /\ before[p] = seen[p] BY DEF Faithful
<1>b. CASE step'[p] = "abandoned" /\ file' = file
  <2>0. \A q \in Edits : (Lost(q) => Lost(q)') /\ (Revived(q) => Revived(q)')
    BY <1>b, Remembered
  <2>4. Unseen' BY <1>b DEF Unseen
  <2>5. Traceless' BY <1>b, <1>2, <2>0 DEF Traceless
  <2>6. Kept' BY <1>b, <1>2, <2>0 DEF Kept
  <2>7. Moved' BY <1>b, <1>2 DEF Moved
  <2>8. ConflictsRejected' BY <1>b DEF ConflictsRejected
  <2> QED BY <1>1, <1>2, <1>3, <2>4, <2>5, <2>6, <2>7, <2>8
<1>c. CASE step'[p] = "refused" /\ file' = before[p]
  <2>0. ASSUME NEW q \in Edits
        PROVE  /\ q \notin before[p] /\ Lost(q) => Lost(q)'
               /\ q \in before[p] /\ Revived(q) => Revived(q)'
    <3>1. q \notin before[p] => ~Loses(p, q) BY <1>a DEF Loses
    <3>2. q \in before[p] => ~Revives(p, q) BY <1>a DEF Revives
    <3>3. \A r \in Edits : r # p => step'[r] = step[r] OBVIOUS
    <3>4. q \notin before[p] /\ Lost(q) => Lost(q)'
      BY <3>1, <3>3 DEF Lost, Loses
    <3>5. q \in before[p] /\ Revived(q) => Revived(q)'
      BY <3>2, <3>3 DEF Revived, Revives
    <3> QED BY <3>4, <3>5
  <2>4. Unseen' BY <1>c DEF Unseen
  <2>5. Traceless' BY <1>c, <1>2, <1>a, <2>0 DEF Traceless
  <2>6. Kept' BY <1>c, <1>2, <2>0 DEF Kept
  <2>7. Moved' BY <1>c, <1>2 DEF Moved
  <2>8. ConflictsRejected' BY <1>c DEF ConflictsRejected
  <2> QED BY <1>1, <1>2, <1>3, <2>4, <2>5, <2>6, <2>7, <2>8
<1> QED BY <1>b, <1>c

\* An edit by hand adds something that no edit of manager.rs is.
LEMMA HandStep == ASSUME IInv, NEW h \in HandEdits, HandEdit(h) PROVE IInv'
<1> USE EditsAssumption DEF IInv, Parts, TypeOK, Holding, Fresh, Ended, Applied,
        Contents, HandEdit
<1>0. \A q \in Edits : (Lost(q) => Lost(q)') /\ (Revived(q) => Revived(q)')
  BY Remembered
<1>1. TypeOK' OBVIOUS
<1>2. Owner' BY DEF Owner
<1>3. Faithful' BY DEF Faithful
<1>4. Unseen' BY DEF Unseen
<1>5. Traceless' BY <1>0 DEF Traceless
<1>6. Kept' BY <1>0 DEF Kept
<1>7. Moved' BY DEF Moved
<1>8. ConflictsRejected' BY DEF ConflictsRejected
<1> QED BY <1>1, <1>2, <1>3, <1>4, <1>5, <1>6, <1>7, <1>8

\* Every step preserves the invariant.
LEMMA NextStep == IInv /\ [Next]_vars => IInv'
<1> SUFFICES ASSUME IInv, [Next]_vars PROVE IInv' OBVIOUS
<1>1. CASE \E p \in Edits : View(p) \/ ViewRevision(p) BY <1>1, ViewStep
<1>2. CASE \E p \in Edits : Open(p) BY <1>2, OpenStep
<1>3. CASE \E p \in Edits : OpenRefused(p) \/ Check(p) \/ CreateBackup(p) \/ WriteBackup(p)
  BY <1>3, MoveStep
<1>4. CASE \E p \in Edits : Replace(p) BY <1>4, ReplaceStep
<1>5. CASE \E p \in Edits : Refuse(p) \/ Finish(p) \/ CheckUndo(p) \/ Crash(p)
  BY <1>5, EndStep
<1>6. CASE \E p \in Edits : Undo(p) BY <1>6, UndoStep
<1>7. CASE \E h \in HandEdits : HandEdit(h) BY <1>7, HandStep
<1>8. CASE UNCHANGED vars
  BY <1>8 DEF vars, IInv, Parts, TypeOK, Owner, Faithful, Unseen, Traceless, Kept, Moved,
     Lost, Revived, Loses, Revives, ConflictsRejected
<1> QED BY <1>1, <1>2, <1>3, <1>4, <1>5, <1>6, <1>7, <1>8 DEF Next

\* The invariant of Settings: the lock has one holder, which started from every
\* saved edit and from no open one.
THEOREM Invariance == Spec => []IInv
BY InitIInv, NextStep, PTL DEF Spec

\* The variables of Settings always have their types.
THEOREM TypeCorrect == Spec => []TypeOK
<1>1. IInv => TypeOK BY DEF IInv
<1> QED BY Invariance, <1>1, PTL

\* An edit reported as saved stays in the file, however many edits, crashes and
\* undos of other edits follow (Prepared, lock and Drop of manager.rs), unless
\* one of these is of a form that was shown before it and given the revision of
\* after it (view of manager.rs).
THEOREM SavedSurvive == Spec => []SavedEditsSurvive
<1>1. IInv => SavedEditsSurvive BY DEF IInv, Parts, Kept, Lost, SavedEditsSurvive
<1> QED BY Invariance, <1>1, PTL

\* An edit that was refused, undone or crashed leaves nothing in the file or in
\* what is about to replace it, unless a form was shown before its undo and
\* given the revision of after it.
THEOREM RefusedTraceless == Spec => []RefusedEditsLeaveNoTrace
<1>1. ASSUME IInv PROVE RefusedEditsLeaveNoTrace
  <2>1. ASSUME NEW p \in Edits, NEW q \in Edits, step[p] \in Ended, step[q] \in Holding,
               p \in before[q] \cup After(q)
        PROVE  \E r \in Edits : step[r] \in Holding \cup Applied /\ Revives(r, p)
    <3>1. p # q BY <2>1 DEF Ended, Holding
    <3>2. CASE p \in before[q]
      BY <1>1, <2>1, <3>2 DEF IInv, Parts, Traceless, Revived
    <3>3. CASE p \notin before[q]
      BY <1>1, <2>1, <3>1, <3>3 DEF IInv, Parts, Faithful, After, Revives
    <3> QED BY <3>2, <3>3
  <2> QED
    BY <1>1, <2>1 DEF IInv, Parts, Traceless, Revived, RefusedEditsLeaveNoTrace
<1> QED BY Invariance, <1>1, PTL

\* Of two edits asked for on one revision, at most one is saved.
THEOREM OneOfTwoSaved == Spec => []ConflictsRejected
<1>1. IInv => ConflictsRejected BY DEF IInv
<1> QED BY Invariance, <1>1, PTL
=============================================================================
