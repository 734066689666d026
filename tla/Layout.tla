--------------------------------- MODULE Layout ---------------------------------
(***************************************************************************)
(* A screen layout saved on both computers of a pair (ApplyLayout and the  *)
(* LayoutMessage handlers of coordinate_with_control in src/src/bridge.rs, *)
(* on Prepared of src/src/manager.rs).  The computer whose interface asks  *)
(* prepares itself, has the peer prepare, commits, has the peer commit,    *)
(* and answers.  Either side gives up after six seconds; a side that gives *)
(* up, or loses the connection, undoes what it wrote.  Anything may fail:  *)
(* preparation, commit, the connection, a process, the write of an undo;   *)
(* and the files can be edited by hand at any time, between a comparison   *)
(* of revisions and the rename that follows it as well.                    *)
(*                                                                         *)
(* Module Settings models the edit of one file, its lock and its backup;   *)
(* here what other edits under the lock do is what an edit by hand does.   *)
(***************************************************************************)
EXTENDS Naturals, Sequences

CONSTANTS Nodes,            \* the two paired computers
          MaxTransactions,  \* bound on the layouts asked for
          MaxEdits,         \* bound on the edits by hand of each file
          Faults            \* which of "edit", "disconnect", "crash", "disk",
                            \* "timeout" happen

ASSUME NodesAssumption == \E a, b \in Nodes : a # b /\ Nodes = {a, b}
ASSUME BoundsAssumption == {MaxTransactions, MaxEdits} \subseteq Nat

VARIABLES
  file,     \* each configuration file: who wrote its layout, edits by hand
  made,     \* how many edits by hand were made of each file
  late,     \* those made between a comparison and its rename
  up,       \* the connection is running at this end
  seen,     \* Desktop.revision of each computer, read when it connected
  pending,  \* pending_layout of each computer; id 0: none
  dropped,  \* the committed Prepared that each computer is dropping; id 0: none
  phase,    \* free; commit: about to rename in commit; drop, undo: in Drop,
            \* before and after its comparison
  inbox,    \* layout messages sent to each computer and not handled yet
  reply,    \* what the client that asked for each layout was answered
  stuck     \* <<n, t>>: n wrote layout t, gave it up, and could not undo it

disk == <<file, made, late>>
vars == <<disk, up, seen, pending, dropped, phase, inbox, reply, stuck>>

Peer(n) == CHOOSE p \in Nodes : p # n

Transactions == 1..MaxTransactions
Contents == [layout : 0..MaxTransactions, edits : SUBSET (1..MaxEdits)]
Initial == [layout |-> 0, edits |-> {}]

Pending == [id : 0..MaxTransactions, asked : BOOLEAN,  \* reply.is_some()
            before : Contents, committed : BOOLEAN]
Nothing == [id |-> 0, asked |-> FALSE, before |-> Initial, committed |-> FALSE]

\* Prepared.next
After(p) == [p.before EXCEPT !.layout = p.id]

Prepare(t, r)   == [type |-> "Prepare", id |-> t, revision |-> r]
Prepared(t, ok) == [type |-> "Prepared", id |-> t, ok |-> ok]
Commit(t)       == [type |-> "Commit", id |-> t]
Result(t, ok)   == [type |-> "Result", id |-> t, ok |-> ok]
Abort(t)        == [type |-> "Abort", id |-> t]

TypeOK ==
  /\ file \in [Nodes -> Contents]
  /\ made \in [Nodes -> 0..MaxEdits] /\ late \in [Nodes -> SUBSET (1..MaxEdits)]
  /\ up \in [Nodes -> BOOLEAN]
  /\ seen \in [Nodes -> Contents]
  /\ pending \in [Nodes -> Pending] /\ dropped \in [Nodes -> Pending]
  /\ phase \in [Nodes -> {"free", "commit", "drop", "undo"}]
  /\ reply \in [Transactions ->
                  {"unasked", "waiting", "saved", "refused", "unconfirmed"}]
  /\ stuck \subseteq Nodes \X Transactions
  /\ \A n \in Nodes : \A i \in DOMAIN inbox[n] :
       inbox[n][i].id \in Transactions
-----------------------------------------------------------------------------
Init ==
  /\ file = [n \in Nodes |-> Initial]
  /\ made = [n \in Nodes |-> 0] /\ late = [n \in Nodes |-> {}]
  /\ up = [n \in Nodes |-> FALSE]
  /\ seen = file
  /\ pending = [n \in Nodes |-> Nothing] /\ dropped = pending
  /\ phase = [n \in Nodes |-> "free"]
  /\ inbox = [n \in Nodes |-> <<>>]
  /\ reply = [t \in Transactions |-> "unasked"]
  /\ stuck = {}

\* n sends out, having taken the first done messages of its inbox.
Sends(n, done, out) ==
  inbox' = [inbox EXCEPT ![n] = SubSeq(@, done + 1, Len(@)),
                         ![Peer(n)] = IF up[Peer(n)] THEN @ \o out ELSE @]

\* The connection ends at n.
Leaves(n) == up' = [up EXCEPT ![n] = FALSE]

Answer(t, r) == reply' = [reply EXCEPT ![t] = r]

\* n goes on, or its thread is busy with its file.
Goes(n, p) == phase' = [phase EXCEPT ![n] = p]
Writes(n, content) == file' = [file EXCEPT ![n] = content] /\ UNCHANGED <<made, late>>

\* n has taken its PendingLayout, and drops it when it has told whom it concerns:
\* Drop of Prepared has something to undo if it is committed.
Drop_Kept(n) ==
  /\ pending' = [pending EXCEPT ![n] = Nothing]
  /\ Goes(n, "free") /\ UNCHANGED dropped
Drop(n) ==
  /\ pending' = [pending EXCEPT ![n] = Nothing]
  /\ IF pending[n].committed
       THEN dropped' = [dropped EXCEPT ![n] = pending[n]] /\ Goes(n, "drop")
       ELSE Goes(n, "free") /\ UNCHANGED dropped

\* What was committed stays.
Stays(n) ==
  /\ stuck' = stuck \cup {<<n, dropped[n].id>>}
  /\ dropped' = [dropped EXCEPT ![n] = Nothing]
  /\ Goes(n, "free")

\* Drop of Prepared: is the file what was committed?
CheckUndo_Blind(n) ==
  /\ phase[n] = "drop"
  /\ Goes(n, "undo")
  /\ UNCHANGED <<disk, up, seen, pending, dropped, inbox, reply, stuck>>
CheckUndo(n) ==
  /\ phase[n] = "drop"
  /\ IF file[n] = After(dropped[n])
       THEN Goes(n, "undo") /\ UNCHANGED <<dropped, stuck>>
       ELSE Stays(n)
  /\ UNCHANGED <<disk, up, seen, pending, inbox, reply>>

\* ... then what was there before is renamed over it, unless the write fails.
Undo(n) ==
  /\ phase[n] = "undo"
  /\ \/ /\ Writes(n, dropped[n].before)
        /\ dropped' = [dropped EXCEPT ![n] = Nothing]
        /\ Goes(n, "free") /\ UNCHANGED stuck
     \/ "disk" \in Faults /\ Stays(n) /\ UNCHANGED disk
  /\ UNCHANGED <<up, seen, pending, inbox, reply>>

\* The coordinator of n ends: its reader and writer, and then its PendingLayout
\* are dropped.  The client that waits for a reply is told "layout_unconfirmed"
\* (serve).
Closes(n) ==
  /\ Leaves(n)
  /\ Drop(n)
  /\ inbox' = [inbox EXCEPT ![n] = <<>>]
  /\ IF pending[n].asked THEN Answer(pending[n].id, "unconfirmed")
                         ELSE UNCHANGED reply
  /\ UNCHANGED <<disk, seen, stuck>>
-----------------------------------------------------------------------------
\* A new connection: both read their configuration and tell its revision.
Connect ==
  /\ \A n \in Nodes : ~up[n] /\ phase[n] = "free"
  /\ up' = [n \in Nodes |-> TRUE]
  /\ seen' = file
  /\ inbox' = [n \in Nodes |-> <<>>]
  /\ UNCHANGED <<disk, pending, dropped, phase, reply, stuck>>

\* n waits for something to happen.
Idle(n) == up[n] /\ phase[n] = "free"

Disconnect(n) == "disconnect" \in Faults /\ Idle(n) /\ Closes(n)

\* The peer is gone; what it sent last arrives first, unless the network failed.
PeerClosed(n) ==
  /\ Idle(n) /\ ~up[Peer(n)]
  /\ inbox[n] = <<>> \/ "disconnect" \in Faults
  /\ Closes(n)

\* The process is killed: nothing is undone.
Crash(n) ==
  /\ "crash" \in Faults /\ (up[n] \/ phase[n] # "free")
  /\ stuck' = stuck \cup {<<n, p.id>> : p \in {q \in {pending[n], dropped[n]} : q.committed}}
  /\ IF pending[n].asked THEN Answer(pending[n].id, "unconfirmed") ELSE UNCHANGED reply
  /\ Leaves(n)
  /\ pending' = [pending EXCEPT ![n] = Nothing]
  /\ dropped' = [dropped EXCEPT ![n] = Nothing]
  /\ Goes(n, "free")
  /\ inbox' = [inbox EXCEPT ![n] = <<>>]
  /\ UNCHANGED <<disk, seen>>

\* The file is edited by somebody else.
HandEdit(n) ==
  /\ "edit" \in Faults /\ made[n] < MaxEdits
  /\ LET e == made[n] + 1 IN
     /\ made' = [made EXCEPT ![n] = e]
     /\ file' = [file EXCEPT ![n].edits = @ \cup {e}]
     /\ late' = IF phase[n] \in {"commit", "undo"}
                  THEN [late EXCEPT ![n] = @ \cup {e}] ELSE late
  /\ UNCHANGED <<up, seen, pending, dropped, phase, inbox, reply, stuck>>
-----------------------------------------------------------------------------
\* Request::ApplyLayout for the revisions that both computers announced.
Unasked == {t \in Transactions : reply[t] = "unasked"}

Apply(n) ==
  /\ Idle(n)
  /\ \E t \in Unasked :
     /\ \A u \in Unasked : t <= u
     /\ \/ /\ pending[n] = Nothing /\ file[n] = seen[n]
           /\ pending' = [pending EXCEPT ![n] =
                [id |-> t, asked |-> TRUE, before |-> file[n], committed |-> FALSE]]
           /\ Sends(n, 0, <<Prepare(t, seen[Peer(n)])>>)
           /\ Answer(t, "waiting")
        \/ Answer(t, "refused") /\ UNCHANGED <<pending, inbox>>
  /\ UNCHANGED <<disk, up, seen, dropped, phase, stuck>>

\* The first message of n is of this type, and is handled.
Receives(n, type) ==
  /\ up[n] /\ phase[n] \in {"free", "commit"}
  /\ inbox[n] # <<>> /\ Head(inbox[n]).type = type
Id(n) == Head(inbox[n]).id

\* ... and is about the layout that n is saving, which its own client asked for
\* or did not.
Mine_AnyId(n, asked) == pending[n] # Nothing /\ pending[n].asked = asked
Mine(n, asked) == pending[n].id = Id(n) /\ pending[n].asked = asked

\* Prepare: refused while busy, on a conflict, locked, without the output.
HandlePrepare(n) ==
  /\ Receives(n, "Prepare")
  /\ \/ /\ pending[n] = Nothing /\ file[n] = Head(inbox[n]).revision
        /\ pending' = [pending EXCEPT ![n] = [id |-> Id(n), asked |-> FALSE,
                                              before |-> file[n], committed |-> FALSE]]
        /\ Sends(n, 1, <<Prepared(Id(n), TRUE)>>)
     \/ UNCHANGED pending /\ Sends(n, 1, <<Prepared(Id(n), FALSE)>>)
  /\ UNCHANGED <<disk, up, seen, dropped, phase, reply, stuck>>

\* Prepared::commit, for one of the two messages below: is the file what was
\* prepared from?  The rename follows when the backup and the new file are synced.
CheckCommit(n) ==
  /\ phase[n] = "free" /\ file[n] = pending[n].before
  /\ \/ Receives(n, "Prepared") /\ Mine(n, TRUE) /\ Head(inbox[n]).ok
     \/ Receives(n, "Commit") /\ Mine(n, FALSE)
  /\ Goes(n, "commit")
  /\ UNCHANGED <<disk, up, seen, pending, dropped, inbox, reply, stuck>>

\* Prepared: commit here, then there; or give up.
HandlePrepared(n) ==
  /\ Receives(n, "Prepared") /\ Mine(n, TRUE)
  /\ \/ /\ phase[n] = "commit"
        /\ Writes(n, After(pending[n]))
        /\ pending' = [pending EXCEPT ![n].committed = TRUE]
        /\ Goes(n, "free")
        /\ Sends(n, 1, <<Commit(Id(n))>>)
        /\ UNCHANGED <<dropped, reply>>
     \/ \* refused by the peer, or the commit fails here
        /\ Drop(n)
        /\ Sends(n, 1, <<Abort(Id(n))>>)
        /\ Answer(pending[n].id, "refused")
        /\ UNCHANGED disk
  /\ UNCHANGED <<up, seen, stuck>>

\* Commit: the saved side reconnects with its new configuration.
HandleCommit_Unchecked(n) ==
  /\ Receives(n, "Commit") /\ Mine(n, FALSE)
  /\ pending' = [pending EXCEPT ![n] = Nothing]
  /\ Goes(n, "free")
  /\ \/ /\ phase[n] = "commit"
        /\ Writes(n, After(pending[n]))
        /\ Sends(n, Len(inbox[n]), <<Result(Id(n), TRUE)>>)
        /\ Leaves(n)
     \/ Sends(n, 1, <<Result(Id(n), TRUE)>>) /\ UNCHANGED <<disk, up>>
  /\ UNCHANGED <<seen, dropped, reply, stuck>>
HandleCommit(n) ==
  /\ Receives(n, "Commit") /\ Mine(n, FALSE)
  /\ pending' = [pending EXCEPT ![n] = Nothing]
  /\ Goes(n, "free")
  /\ \/ /\ phase[n] = "commit"
        /\ Writes(n, After(pending[n]))
        /\ Sends(n, Len(inbox[n]), <<Result(Id(n), TRUE)>>)
        /\ Leaves(n)
     \/ Sends(n, 1, <<Result(Id(n), FALSE)>>) /\ UNCHANGED <<disk, up>>
  /\ UNCHANGED <<seen, dropped, reply, stuck>>

\* Result: both saved, and this side reconnects too; or it undoes its own.
HandleResult(n) ==
  /\ Receives(n, "Result") /\ Mine(n, TRUE)
  /\ IF Head(inbox[n]).ok
       THEN /\ pending' = [pending EXCEPT ![n] = Nothing]
            /\ Answer(pending[n].id, "saved")
            /\ Sends(n, Len(inbox[n]), <<>>)
            /\ Leaves(n)
            /\ Goes(n, "free") /\ UNCHANGED dropped
       ELSE /\ Drop(n)
            /\ Answer(pending[n].id, "refused")
            /\ Sends(n, 1, <<>>)
            /\ UNCHANGED up
  /\ UNCHANGED <<disk, seen, stuck>>

\* Abort of the layout being saved, whoever asked for it.
HandleAbort(n) ==
  /\ Receives(n, "Abort") /\ pending[n].id = Id(n)
  /\ Drop(n)
  /\ IF pending[n].asked THEN Answer(pending[n].id, "unconfirmed") ELSE UNCHANGED reply
  /\ Sends(n, 1, <<>>)
  /\ UNCHANGED <<disk, up, seen, stuck>>

\* A message about anything else is dropped.
Ignore(n) ==
  /\ \/ Receives(n, "Prepared") /\ ~Mine(n, TRUE)
     \/ Receives(n, "Commit") /\ ~Mine(n, FALSE)
     \/ Receives(n, "Result") /\ ~Mine(n, TRUE)
     \/ Receives(n, "Abort") /\ pending[n].id # Id(n)
  /\ Sends(n, 1, <<>>)
  /\ UNCHANGED <<disk, up, seen, pending, dropped, phase, reply, stuck>>

\* The tick finds the deadline of the pending layout passed.
Expire_PeerOnly(n) ==
  /\ "timeout" \in Faults /\ Idle(n) /\ pending[n] # Nothing /\ ~pending[n].asked
  /\ Drop(n)
  /\ Sends(n, 0, <<Abort(pending[n].id)>>)
  /\ UNCHANGED <<disk, up, seen, reply, stuck>>
Expire_Always(n) ==
  /\ "timeout" \in Faults /\ Idle(n)
  /\ Drop(n)
  /\ Sends(n, 0, <<Abort(pending[n].id)>>)
  /\ IF pending[n].asked THEN Answer(pending[n].id, "unconfirmed")
                         ELSE UNCHANGED reply
  /\ UNCHANGED <<disk, up, seen, stuck>>
Expire(n) ==
  /\ "timeout" \in Faults /\ Idle(n) /\ pending[n] # Nothing
  /\ Drop(n)
  /\ Sends(n, 0, <<Abort(pending[n].id)>>)
  /\ IF pending[n].asked THEN Answer(pending[n].id, "unconfirmed")
                         ELSE UNCHANGED reply
  /\ UNCHANGED <<disk, up, seen, stuck>>

Next ==
  \/ Connect
  \/ \E n \in Nodes :
       \/ Disconnect(n) \/ PeerClosed(n) \/ Crash(n) \/ HandEdit(n)
       \/ Apply(n) \/ Expire(n)
       \/ HandlePrepare(n) \/ HandlePrepared(n) \/ HandleCommit(n)
       \/ HandleResult(n) \/ HandleAbort(n) \/ Ignore(n)
       \/ CheckCommit(n) \/ CheckUndo(n) \/ Undo(n)

Spec == Init /\ [][Next]_vars

\* The timer of a connected computer runs, and a commit that has begun ends.
\* Nothing else is needed, nor assumed, for a request to be answered.
FairSpec ==
  Spec /\ \A n \in Nodes :
            /\ WF_vars(Expire(n))
            /\ WF_vars(phase[n] = "commit" /\ (HandlePrepared(n) \/ HandleCommit(n)))
-----------------------------------------------------------------------------
(* Properties *)

\* Success is reported only when both files hold the layout that was asked for,
\* whatever was lost, undone, crashed or asked for at the same time.
SavedMeansBoth ==
  [][\A t \in Transactions :
       reply[t] = "waiting" /\ reply'[t] = "saved"
         => \A n \in Nodes : file'[n].layout = t]_vars

\* A definite refusal means that neither file holds the layout, unless the side
\* that asked had written it and is about to undo it, or could not.
RefusedMeansNeither ==
  \A t \in Transactions, n \in Nodes :
    reply[t] = "refused" /\ file[n].layout = t
      => <<n, t>> \in stuck \/ dropped[n].id = t

\* The two files never come apart unnoticed: when nothing is being saved or
\* undone, they hold the same layout, or whoever asked for one of theirs was told
\* that it is unconfirmed, or a write could not be undone.
Quiet == \A n \in Nodes : pending[n] = Nothing /\ dropped[n] = Nothing
DivergenceIsKnown ==
  Quiet /\ (\E m, n \in Nodes : file[m].layout # file[n].layout)
    => \E n \in Nodes : LET t == file[n].layout IN
         t # 0 /\ (reply[t] = "unconfirmed" \/ <<n, t>> \in stuck)

\* What somebody else wrote into a file is never lost to a commit that was
\* prepared before or to the undo of one, unless it was written after the last
\* comparison of that commit or undo and before its rename.
EditsSurvive ==
  \A n \in Nodes : 1..made[n] \subseteq file[n].edits \cup late[n]

\* Every request is answered, whatever becomes of the peer and of the messages.
RequestAnswered ==
  \A t \in Transactions : reply[t] = "waiting" ~> reply[t] # "waiting"
=============================================================================
