-------------------------------- MODULE Bridge --------------------------------
(***************************************************************************)
(* Two coordinators (coordinate_with_control in src/src/bridge.rs) on the  *)
(* two ends of one paired connection.  Each is a single loop that handles  *)
(* one event at a time, so every branch of its select, with the top of the *)
(* loop that follows it, is one action.  The connection is one FIFO inbox  *)
(* per node; either side can lose it at any time, and both then start a    *)
(* fresh one.  The receiver is the one of module Receiver, reduced to what *)
(* it promises when its sink works: an error of the sink ends the          *)
(* connection, which Disconnect covers.                                    *)
(*                                                                         *)
(* Time appears once: a capture takes a while to be armed (at least the    *)
(* start of its worker, and rearm_at, 150 ms, after most ends), and Prompt *)
(* says whether the network is certain to be faster than that.             *)
(***************************************************************************)
EXTENDS Naturals, Sequences, SequencesExt

CONSTANTS Nodes,        \* the two paired computers
          Codes,        \* key and button codes
          MaxSession,   \* bound on the sessions a node starts on a connection
          MaxSequence,  \* bound on the inputs of a session
          MaxInbox,     \* bound on the messages in flight when an event starts
          Senders,      \* the nodes whose pointer ever crosses the boundary
          Prompt,       \* messages arrive while a capture is being armed
          Environment   \* which of "lock", "outputs", "configure", "disconnect"
                        \* happen

ASSUME NodesAssumption == /\ \E a, b \in Nodes : a # b /\ Nodes = {a, b}
                          /\ Senders \subseteq Nodes
ASSUME BoundsAssumption == {MaxSession, MaxSequence, MaxInbox} \subseteq Nat

VARIABLES
  node,   \* what each coordinator knows, a record per node
  inbox   \* messages sent to each node and not handled yet

vars == <<node, inbox>>

Peer(n) == CHOOSE p \in Nodes : p # n

\* Session number 0 is never used (Receiver::begin refuses it): no session.
NoSession == 0

Key(c, pressed) == [code |-> c, pressed |-> pressed]
Begin(k)        == [type |-> "Begin", session |-> k]
Input(k, q, e)  == [type |-> "Input", session |-> k, sequence |-> q, event |-> e]
End(k)          == [type |-> "End", session |-> k]
LockState(l)    == [type |-> "LockState", locked |-> l]
Desktop(o)      == [type |-> "Desktop", outputs |-> o]

Coordinators ==
  [ up          : BOOLEAN,   \* the connection is running at this end
    role        : {"Local", "Sending", "Receiving"},
    session     : 0..MaxSession,    \* Role::session
    sequence    : 0..MaxSequence,   \* of Role::Sending
    next        : 1..MaxSession + 1,  \* next_session
    localReady  : BOOLEAN,   \* local_ready
    peerReady   : BOOLEAN,   \* peer_ready
    outputs     : BOOLEAN,   \* the boundary's output is present here
    peerOutputs : BOOLEAN,   \* ... and there, as far as the peer has said
    configuring : BOOLEAN,   \* pending_layout
    capture     : {"none", "armed", "crossed"},
    source      : SUBSET Codes,  \* source_keys
    receiving   : 0..MaxSession,    \* Receiver.session
    expected    : 0..MaxSequence,   \* Receiver.expected_sequence
    held        : SUBSET Codes,     \* ControlState.held
    localLocked : BOOLEAN, peerLocked : BOOLEAN ]

TypeOK == /\ node \in [Nodes -> Coordinators]
          /\ \A n \in Nodes : \A i \in DOMAIN inbox[n] :
               inbox[n][i].type \in
                 {"Begin", "Input", "End", "LockState", "Desktop"}
-----------------------------------------------------------------------------
\* The receiver's operations, on the record of its node.
Stopped(s) == [s EXCEPT !.receiving = NoSession, !.held = {}]
EndReceiver(s, k) == IF s.receiving = k THEN Stopped(s) ELSE s
LocalLock_KeepsSession(s, locked) == [s EXCEPT !.localLocked = locked]
LocalLock(s, locked) ==
  IF s.localLocked = locked THEN s ELSE Stopped([s EXCEPT !.localLocked = locked])
PeerLock(s, locked) ==
  IF s.peerLocked = locked THEN s ELSE Stopped([s EXCEPT !.peerLocked = locked])
MayBegin(s) == s.receiving = NoSession /\ ~s.localLocked /\ ~s.peerLocked
Begun_SequenceKept(s, k) == [s EXCEPT !.receiving = k]
Begun(s, k) == [s EXCEPT !.receiving = k, !.expected = 0]
Injected_CountsTwice(s, e) ==
  [s EXCEPT !.expected = @ + 2,
            !.held = IF e.pressed THEN @ \cup {e.code} ELSE @ \ {e.code}]
Injected(s, e) ==
  [s EXCEPT !.expected = @ + 1,
            !.held = IF e.pressed THEN @ \cup {e.code} ELSE @ \ {e.code}]

\* The coordinator returns to Role::Local and stops its capture.  source_keys
\* is not looked at again before a new session clears it.
Local(s) == [s EXCEPT !.role = "Local", !.session = NoSession, !.sequence = 0,
                      !.capture = "none", !.source = {}]

\* End the session the coordinator is in, if any: here, and at the peer.
Ended(s) == Local(EndReceiver(s, s.session))
EndMessage(s) == IF s.role = "Local" THEN <<>> ELSE <<End(s.session)>>

\* active_edges is not empty.
LayoutReady(s) == s.outputs /\ s.peerOutputs

\* The top of the loop after the desktop epoch advanced: a running capture
\* saw the old desktop, and a session needs both ends of an edge.
Outdated(s) == s.capture # "none" \/ (~LayoutReady(s) /\ s.role # "Local")
AfterEpoch(s) == IF Outdated(s) THEN Ended(s) ELSE s
EpochMessage(s) == IF Outdated(s) THEN EndMessage(s) ELSE <<>>
-----------------------------------------------------------------------------
\* What a node sends reaches the peer's inbox while the peer is connected.
Queued(p, out) == IF node[p].up THEN inbox[p] \o out ELSE inbox[p]

\* n handles a local event, becomes s and sends out.
Acts(n, s, out) ==
  /\ node' = [node EXCEPT ![n] = s]
  /\ inbox' = [inbox EXCEPT ![Peer(n)] = Queued(Peer(n), out)]

\* n handles the first message of its inbox, becomes s and sends out.
Handles(n, s, out) ==
  /\ node' = [node EXCEPT ![n] = s]
  /\ inbox' = [inbox EXCEPT ![n] = Tail(@), ![Peer(n)] = Queued(Peer(n), out)]

\* The end of coordinate_with_control: the receiver stops and the capture is
\* released, whatever ended the loop.
Closed_KeysKept(s) == [Local(s) EXCEPT !.up = FALSE, !.configuring = FALSE]
Closed(s) == [Ended(Stopped(s)) EXCEPT !.up = FALSE, !.configuring = FALSE]
Fails(n) == /\ node' = [node EXCEPT ![n] = Closed(@)]
            /\ inbox' = [inbox EXCEPT ![n] = <<>>]

\* A local event finds the connection running and not too much in flight.
Event(n) == node[n].up /\ Len(inbox[Peer(n)]) < MaxInbox /\ Len(inbox[n]) < MaxInbox
-----------------------------------------------------------------------------
\* A new connection (run_session): both ends start afresh and announce their
\* desktop and their lock state before anything else.
Fresh(ready, present) ==
  [ up |-> TRUE, role |-> "Local", session |-> NoSession, sequence |-> 0,
    next |-> 1, localReady |-> ready, peerReady |-> FALSE,
    outputs |-> present, peerOutputs |-> FALSE, configuring |-> FALSE,
    capture |-> "none", source |-> {},
    receiving |-> NoSession, expected |-> 0, held |-> {},
    localLocked |-> ~ready, peerLocked |-> FALSE ]

Init ==
  /\ node = [n \in Nodes |-> Closed(Fresh(TRUE, TRUE))]
  /\ inbox = [n \in Nodes |-> <<>>]

Connect ==
  /\ \A n \in Nodes : ~node[n].up
  /\ \E ready \in [Nodes -> IF "lock" \in Environment THEN BOOLEAN ELSE {TRUE}] :
       /\ node' = [n \in Nodes |-> Fresh(ready[n], node[n].outputs)]
       /\ inbox' = [n \in Nodes |->
                     << Desktop(node[Peer(n)].outputs),
                        LockState(~ready[Peer(n)]) >>]

\* Any failure of this end: an error of a backend or of a send, a late input,
\* a timeout of the reader, the end of the process.
Disconnect(n) == "disconnect" \in Environment /\ node[n].up /\ Fails(n)

\* The reader sees that the peer is gone, having delivered all that was sent
\* or not.
PeerClosed(n) == node[n].up /\ ~node[Peer(n)].up /\ Fails(n)
-----------------------------------------------------------------------------
\* Local events.

\* control.next_outputs: the desktop's outputs changed.
OutputsChanged(n) ==
  /\ "outputs" \in Environment /\ Event(n)
  /\ LET s == [node[n] EXCEPT !.outputs = ~@]
     IN  Acts(n, AfterEpoch(s), <<Desktop(s.outputs)>> \o EpochMessage(s))

\* Request::Release of the control socket.
Release(n) ==
  /\ Event(n)
  /\ Acts(n, Ended(node[n]), EndMessage(node[n]))

\* A paired layout save is accepted here (ApplyLayout, or Prepare of the peer)
\* and, later, given up.  Its messages are those of module Layout.
Configure(n) ==
  /\ "configure" \in Environment /\ Event(n)
  /\ ~node[n].configuring /\ node[n].localReady /\ node[n].peerReady
  /\ Acts(n, [Ended(node[n]) EXCEPT !.configuring = TRUE], EndMessage(node[n]))

Configured(n) ==
  /\ node[n].up /\ node[n].configuring
  /\ Acts(n, [node[n] EXCEPT !.configuring = FALSE], <<>>)

\* status.changed: the session monitor published a state, the same or another.
StatusChanged(n) ==
  /\ "lock" \in Environment /\ Event(n)
  /\ \E ready \in BOOLEAN :
       LET s == LocalLock([node[n] EXCEPT !.localReady = ready], ~ready)
       IN  IF ready
             THEN Acts(n, s, <<LockState(FALSE)>>)
             ELSE Acts(n, Local(s), <<LockState(TRUE)>> \o EndMessage(s))

\* The tick samples physical input while the peer controls this computer.
PhysicalActivity(n) ==
  /\ Event(n)
  /\ node[n].localReady /\ node[n].peerReady /\ node[n].role = "Receiving"
  /\ Acts(n, Local(Stopped(node[n])), EndMessage(node[n]))

\* The emergency chord on the controlling keyboard.
Emergency(n) ==
  /\ Event(n) /\ node[n].role = "Sending"
  /\ Acts(n, Local(node[n]), EndMessage(node[n]))

\* The top of the loop starts a capture.  On a prompt network all that was in
\* flight by then is handled before the capture is armed.
MayArm == Prompt => \A m \in Nodes : inbox[m] = <<>>

CaptureStart(n) ==
  /\ node[n].up /\ node[n].localReady /\ node[n].peerReady
  /\ LayoutReady(node[n]) /\ ~node[n].configuring /\ node[n].capture = "none"
  /\ MayArm
  /\ Acts(n, [node[n] EXCEPT !.capture = "armed"], <<>>)

\* Event::Started while Local: a session begins, with the keys already held.
\* (Holding the emergency chord is Finished: the capture is just stopped.)
StartSession_KeysNotSynced(n) ==
  /\ Event(n) /\ n \in Senders
  /\ node[n].capture = "armed" /\ node[n].role = "Local"
  /\ node[n].next <= MaxSession
  /\ \E initial \in {{}} \cup {{c} : c \in Codes} :
       Acts(n, [node[n] EXCEPT !.role = "Sending", !.session = node[n].next,
                  !.next = @ + 1, !.capture = "crossed", !.source = initial],
            <<Begin(node[n].next)>>)
StartSession(n) ==
  /\ Event(n) /\ n \in Senders
  /\ node[n].capture = "armed" /\ node[n].role = "Local"
  /\ node[n].localReady /\ node[n].peerReady
  /\ node[n].next <= MaxSession
  /\ \E initial \in {{}} \cup {{c} : c \in Codes} :
       LET k == node[n].next
           q == IF initial = {} THEN 0 ELSE 1
       IN /\ q <= MaxSequence
          /\ Acts(n, [node[n] EXCEPT !.role = "Sending", !.session = k,
                        !.sequence = q, !.next = k + 1, !.capture = "crossed",
                        !.source = initial],
                  <<Begin(k)>> \o SetToSeq({Input(k, 0, Key(c, TRUE)) : c \in initial}))

\* Event::Started while Receiving: the pointer leaves through the edge.
ReturnControl(n) ==
  /\ Event(n) /\ node[n].capture = "armed" /\ node[n].role = "Receiving"
  /\ Acts(n, Ended(node[n]), EndMessage(node[n]))

\* An input of the captured devices, or of a physical keyboard.
Forward(n) ==
  /\ Event(n) /\ node[n].role = "Sending" /\ node[n].sequence < MaxSequence
  /\ \E c \in Codes, pressed \in BOOLEAN :
       Acts(n, [node[n] EXCEPT !.sequence = @ + 1,
                  !.source = IF pressed THEN @ \cup {c} ELSE @ \ {c}],
            <<Input(node[n].session, node[n].sequence, Key(c, pressed))>>)

\* Event::Finished, whatever the reason.
CaptureFinished(n) ==
  /\ Event(n) /\ node[n].capture # "none"
  /\ Acts(n, Ended(node[n]), EndMessage(node[n]))

\* The tick finds the worker gone and no event left: only a sending session
\* depends on it.
CaptureLost(n) ==
  /\ Event(n) /\ node[n].capture # "none"
  /\ IF node[n].role = "Sending"
       THEN Acts(n, Local(node[n]), EndMessage(node[n]))
       ELSE Acts(n, [node[n] EXCEPT !.capture = "none"], <<>>)
-----------------------------------------------------------------------------
\* Messages of the peer.
Received(n, type) == /\ node[n].up /\ inbox[n] # <<>>
                     /\ Head(inbox[n]).type = type

HandleDesktop(n) ==
  /\ Received(n, "Desktop")
  /\ LET s == [node[n] EXCEPT !.peerOutputs = Head(inbox[n]).outputs]
     IN  Handles(n, AfterEpoch(s), EpochMessage(s))

HandleLockState_RoleKept(n) ==
  /\ Received(n, "LockState")
  /\ LET locked == Head(inbox[n]).locked
         s == PeerLock([node[n] EXCEPT !.peerReady = ~locked], locked)
     IN  Handles(n, s, <<>>)
HandleLockState(n) ==
  /\ Received(n, "LockState")
  /\ LET locked == Head(inbox[n]).locked
         s == PeerLock([node[n] EXCEPT !.peerReady = ~locked], locked)
     IN  IF locked THEN Handles(n, Local(s), EndMessage(s))
                   ELSE Handles(n, s, <<>>)

\* The conditions for accepting a session, apart from physical input.
Acceptable(s) == /\ s.role = "Local" /\ s.localReady /\ s.peerReady
                 /\ LayoutReady(s) /\ ~s.configuring

\* Begin: accepted, an error while already receiving, or refused.
HandleBegin_Silent(n) ==
  /\ Received(n, "Begin")
  /\ LET k == Head(inbox[n]).session
         s == node[n]
     IN \/ /\ Acceptable(s) /\ MayBegin(s)
           /\ Handles(n, [Begun(s, k) EXCEPT !.role = "Receiving", !.session = k], <<>>)
        \/ IF s.role = "Receiving" THEN Fails(n) ELSE Handles(n, s, <<>>)
HandleBegin(n) ==
  /\ Received(n, "Begin")
  /\ LET k == Head(inbox[n]).session
         s == node[n]
     IN \/ /\ Acceptable(s)
           /\ IF MayBegin(s)
                THEN Handles(n, [Begun(s, k) EXCEPT !.role = "Receiving",
                                                    !.session = k], <<>>)
                ELSE Fails(n)
        \/ \* not acceptable, or physical input is present
           IF s.role = "Receiving" THEN Fails(n) ELSE Handles(n, s, <<End(k)>>)

\* Input of the session this node is receiving: physical input takes over, a
\* gap in the sequence is an error, else it is injected.  Others are dropped.
HandleInput(n) ==
  /\ Received(n, "Input")
  /\ LET m == Head(inbox[n])
         s == node[n]
     IN IF s.role = "Receiving" /\ s.session = m.session
          THEN \/ Handles(n, Local(Stopped(s)), <<End(m.session)>>)
               \/ IF s.receiving # m.session THEN Handles(n, s, <<>>)
                  ELSE IF s.expected # m.sequence THEN Fails(n)
                  ELSE Handles(n, Injected(s, m.event), <<>>)
          ELSE Handles(n, s, <<>>)

\* End of the session this node is in, as sender or as receiver.
HandleEnd_Ignored(n) == Received(n, "End") /\ Handles(n, node[n], <<>>)
HandleEnd(n) ==
  /\ Received(n, "End")
  /\ IF node[n].role # "Local" /\ node[n].session = Head(inbox[n]).session
       THEN Handles(n, Ended(node[n]), <<>>)
       ELSE Handles(n, node[n], <<>>)

HandleMessage(n) == \/ HandleDesktop(n) \/ HandleLockState(n)
                    \/ HandleBegin(n) \/ HandleInput(n) \/ HandleEnd(n)
-----------------------------------------------------------------------------
Next ==
  \/ Connect
  \/ \E n \in Nodes :
       \/ Disconnect(n) \/ PeerClosed(n)
       \/ OutputsChanged(n) \/ Release(n) \/ Configure(n) \/ Configured(n)
       \/ StatusChanged(n) \/ PhysicalActivity(n) \/ Emergency(n)
       \/ CaptureStart(n) \/ StartSession(n) \/ ReturnControl(n) \/ Forward(n)
       \/ CaptureFinished(n) \/ CaptureLost(n)
       \/ HandleDesktop(n) \/ HandleLockState(n) \/ HandleBegin(n)
       \/ HandleInput(n) \/ HandleEnd(n)

Spec == Init /\ [][Next]_vars

\* The loop of a connected node handles what arrives and notices a lost peer.
\* Users, desktops and failures are not fair.
FairSpec == Spec /\ \A n \in Nodes : /\ WF_vars(HandleMessage(n))
                                     /\ WF_vars(PeerClosed(n))
-----------------------------------------------------------------------------
(* Properties *)

Messages(n, type) == SelectSeq(inbox[n], LAMBDA m : m.type = type)
InFlight(n, m) == \E i \in DOMAIN inbox[n] : inbox[n][i] = m
Connected == \A n \in Nodes : node[n].up

\* What each coordinator believes and what its receiver, its capture and its
\* locks are doing never drift apart, although they change in different
\* branches: it receives exactly the session its receiver injects; it sends
\* only with a crossed capture; a capture runs only on an unlocked pair with no
\* layout save pending; nothing of this survives a lock or the connection.
Coherent ==
  \A n \in Nodes : LET s == node[n] IN
    /\ s.receiving # NoSession <=> s.role = "Receiving"
    /\ s.role = "Receiving" => s.receiving = s.session
    /\ s.role = "Sending" <=> s.capture = "crossed"
    /\ s.role # "Local" \/ s.capture # "none"
         => s.up /\ s.localReady /\ s.peerReady /\ LayoutReady(s) /\ ~s.configuring
    /\ s.role # "Receiving" => s.held = {}

\* The receiver injects exactly the inputs of its session, in order and with
\* none missing: whatever was ended, refused or begun before, an input of the
\* session being received carries the next sequence number when it is handled.
InputsInOrder ==
  \A n \in Nodes :
    /\ node[n].role = "Receiving" /\ inbox[n] # <<>>
    /\ Head(inbox[n]).type = "Input" /\ Head(inbox[n]).session = node[n].session
    => Head(inbox[n]).sequence = node[n].expected

\* Keys do not stay behind: once the inputs in flight are applied, the receiver
\* holds exactly the codes that its sender has down.  The last input about a
\* code decides; a code that no input is about stays as it is.
About(m, k, c) == m.type = "Input" /\ m.session = k /\ m.event.code = c
ReplayedInputs(q, k, held) ==
  {c \in Codes :
     \/ \E i \in DOMAIN q : /\ About(q[i], k, c) /\ q[i].event.pressed
                            /\ \A j \in DOMAIN q : About(q[j], k, c) => j <= i
     \/ c \in held /\ \A j \in DOMAIN q : ~About(q[j], k, c)}
MirrorsSource ==
  \A n \in Nodes : LET s == node[n]  r == node[Peer(n)] IN
    /\ s.role = "Sending" /\ r.role = "Receiving" /\ s.session = r.session
    /\ ~InFlight(n, End(s.session))
    => ReplayedInputs(inbox[Peer(n)], s.session, r.held) = s.source

\* A sender is never talking to nobody: its session is on its way to the peer,
\* or the peer is receiving it, or word that it ended is on its way back.
SenderIsHeard ==
  Connected => \A n \in Nodes : node[n].role = "Sending" =>
    LET k == node[n].session IN
      \/ InFlight(Peer(n), Begin(k))
      \/ node[Peer(n)].role = "Receiving" /\ node[Peer(n)].session = k
      \/ InFlight(n, End(k))

\* A receiver is never left behind: the peer is still sending its session, or
\* word that it ended is on its way.
Driven(n) == LET k == node[n].session IN
  \/ node[Peer(n)].role = "Sending" /\ node[Peer(n)].session = k
  \/ InFlight(n, End(k))
ReceiverIsDriven ==
  Connected => \A n \in Nodes : node[n].role = "Receiving" => Driven(n)

\* ... at least as long as its own sessions have not reached the number of the
\* one it is receiving: an End is matched by number alone, so the End of its
\* own session k can end the session k of its peer.
DrivenUnlessReused ==
  Connected => \A n \in Nodes : node[n].role = "Receiving" =>
    Driven(n) \/ node[n].next > node[n].session

\* A new session never reaches a node that is still receiving one ("Unexpected
\* overlapping input session" would end the connection), with the same proviso.
NoOverlap ==
  \A n \in Nodes :
    node[n].role = "Receiving" /\ inbox[n] # <<>> /\ Head(inbox[n]).type = "Begin"
      => node[n].next > node[n].session

\* Each computer's desktop is leased as InputLease promises: across handlers,
\* locks, connections and whatever the peer sends, keys go down only for the
\* session that holds the lease, and each session starts on a neutral desktop.
Lease(n) == INSTANCE InputLease WITH
              Sessions <- 1..MaxSession, None <- NoSession,
              owner <- node[n].receiving, pressed <- node[n].held,
              locked <- (node[n].localLocked \/ node[n].peerLocked)
DesktopsLeased ==
  /\ \A n \in Nodes : Lease(n)!Init
  /\ [][\A n \in Nodes : Lease(n)!Next \/ UNCHANGED Lease(n)!vars]_vars

\* If the connection is lost at one end, the other releases everything that was
\* pressed for it.
LostPeerReleases ==
  \A n \in Nodes : ~node[Peer(n)].up /\ node[n].held # {} ~> node[n].held = {}

\* When neither computer is sending any more, the receiving one returns to
\* local control without any physical input.
ControlReturns ==
  \A n \in Nodes :
    node[n].role = "Receiving" /\ node[Peer(n)].role = "Local"
      ~> node[n].role # "Receiving" \/ node[Peer(n)].role = "Sending"
=============================================================================
