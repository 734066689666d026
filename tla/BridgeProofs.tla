----------------------------- MODULE BridgeProofs -----------------------------
(***************************************************************************)
(* What holds of Bridge for any codes and bounds, with or without a prompt *)
(* network and whatever its environment does.                              *)
(*                                                                         *)
(* The first part is about each node for itself: its beliefs, its          *)
(* receiver, its capture and its locks agree (Sound), and its desktop is   *)
(* leased to one session at a time.                                        *)
(*                                                                         *)
(* The second part relates the two ends of a session and what is in flight *)
(* between them.  Paired states that relation of two records and two       *)
(* queues; Moves and Steps are the ways in which a step of one node        *)
(* changes its own record and the queues, each with a lemma that it keeps  *)
(* Paired for both nodes; and a lemma per action shows that the action is  *)
(* one of these ways.  Duplex is the resulting inductive invariant.        *)
(***************************************************************************)
EXTENDS Bridge, FiniteSetTheorems, SequenceTheorems, TLAPS

Records ==
  [ up : BOOLEAN, role : {"Local", "Sending", "Receiving"},
    session : Nat, sequence : Nat, next : Nat,
    localReady : BOOLEAN, peerReady : BOOLEAN,
    outputs : BOOLEAN, peerOutputs : BOOLEAN, configuring : BOOLEAN,
    capture : {"none", "armed", "crossed"}, source : SUBSET Codes,
    receiving : Nat, expected : Nat, held : SUBSET Codes,
    localLocked : BOOLEAN, peerLocked : BOOLEAN ]

Wire ==
  {Begin(k) : k \in {k \in Nat : k # NoSession /\ k <= MaxSession}}
  \cup {Input(k, q, Key(c, p)) : k \in Nat, c \in Codes, p \in BOOLEAN,
                                 q \in {q \in Nat : q < MaxSequence}}
  \cup {End(k) : k \in Nat}
  \cup {LockState(l) : l \in BOOLEAN} \cup {Desktop(o) : o \in BOOLEAN}

-----------------------------------------------------------------------------
(* The inductive invariant: each node for itself, and what is in flight *)

Bounded(s) ==
  /\ s \in Records
  /\ s.session <= MaxSession /\ s.sequence <= MaxSequence
  /\ 1 <= s.next /\ s.next <= MaxSession + 1
  /\ s.receiving <= MaxSession /\ s.expected <= MaxSequence

\* A lock is known to the receiver at least as early as to the coordinator.
Locks(s) == /\ s.localReady = ~s.localLocked
            /\ s.peerReady => ~s.peerLocked

\* The receiver's session is the coordinator's.
Receives(s) ==
  /\ s.receiving # NoSession <=> s.role = "Receiving"
  /\ s.role = "Receiving" => s.receiving = s.session
  /\ s.role # "Receiving" => s.held = {}

Weak(s) == Bounded(s) /\ Locks(s) /\ Receives(s)

\* A capture and a session need a layout on an unlocked pair.
Supported(s) ==
  /\ s.role = "Sending" <=> s.capture = "crossed"
  /\ s.role # "Local" \/ s.capture # "none"
       => s.up /\ s.localReady /\ s.peerReady /\ LayoutReady(s) /\ ~s.configuring

Sound(s) == Weak(s) /\ Supported(s)

IInv ==
  /\ node \in [Nodes -> Records] /\ \A n \in Nodes : Sound(node[n])
  /\ inbox \in [Nodes -> Seq(Wire)]

\* What a step may do to a desktop: nothing, begin a session on a neutral one,
\* press or release for the session, or leave it without session.
Anylock(s) == s.localLocked \/ s.peerLocked
Leaves(s)  == s.receiving = NoSession /\ s.held = {}
Eases(s, t) ==
  \/ /\ t.receiving = s.receiving /\ t.held = s.held
     /\ Anylock(t) = Anylock(s)
  \/ /\ Leaves(s) /\ ~Anylock(s) /\ ~Anylock(t) /\ t.held = {}
     /\ t.receiving \in Nat /\ t.receiving # NoSession /\ t.receiving <= MaxSession
  \/ /\ s.receiving # NoSession /\ t.receiving = s.receiving
     /\ Anylock(t) = Anylock(s)
     /\ \E c \in Codes : t.held \in {s.held \cup {c}, s.held \ {c}}
  \/ Leaves(t) /\ Anylock(t) \in BOOLEAN

Kept == IInv' /\ \A n \in Nodes : Eases(node[n], node[n]')

-----------------------------------------------------------------------------
(* Operators *)

LEMMA PeerIn == \A n \in Nodes : Peer(n) \in Nodes /\ Peer(n) # n
BY NodesAssumption DEF NodesAssumption, Peer

\* Leaving a session by Local, with the receiver stopped or not in a session.
LEMMA LocalSound ==
  ASSUME NEW s, Bounded(s), Locks(s), Leaves(s)
  PROVE  /\ Sound(Local(s)) /\ Leaves(Local(s)) /\ Anylock(Local(s)) \in BOOLEAN
         /\ Local(s).role = "Local" /\ Local(s).capture = "none"
<1> DEFINE t == Local(s)
<1>1. s \in Records
  BY DEF Bounded
<1>2. /\ t \in Records
      /\ t.role = "Local" /\ t.session = 0 /\ t.sequence = 0 /\ t.capture = "none"
      /\ t.next = s.next /\ t.receiving = s.receiving /\ t.expected = s.expected
      /\ t.held = s.held /\ t.localReady = s.localReady /\ t.peerReady = s.peerReady
      /\ t.localLocked = s.localLocked /\ t.peerLocked = s.peerLocked
  BY <1>1 DEF Local, Records, NoSession
<1>3. /\ MaxSession \in Nat /\ MaxSequence \in Nat
      /\ t.localLocked \in BOOLEAN /\ t.peerLocked \in BOOLEAN
  BY <1>2, BoundsAssumption DEF BoundsAssumption, Records
<1> HIDE DEF t
<1>4. Bounded(t)
  BY <1>2, <1>3 DEF Bounded
<1>5. Locks(t) /\ Receives(t) /\ Supported(t) /\ Leaves(t) /\ Anylock(t) \in BOOLEAN
  BY <1>2, <1>3 DEF Locks, Receives, Supported, Leaves, Anylock, NoSession
<1> QED
  BY <1>2, <1>4, <1>5 DEF Sound, Weak, t

LEMMA StoppedIs ==
  ASSUME NEW s, Bounded(s), Locks(s)
  PROVE  Bounded(Stopped(s)) /\ Locks(Stopped(s)) /\ Leaves(Stopped(s))
<1> DEFINE t == Stopped(s)
<1>1. s \in Records /\ MaxSession \in Nat
  BY BoundsAssumption DEF Bounded, BoundsAssumption
<1>2. /\ t \in Records
      /\ t.session = s.session /\ t.sequence = s.sequence /\ t.next = s.next
      /\ t.receiving = 0 /\ t.expected = s.expected /\ t.held = {}
      /\ t.localReady = s.localReady /\ t.peerReady = s.peerReady
      /\ t.localLocked = s.localLocked /\ t.peerLocked = s.peerLocked
  BY <1>1 DEF Stopped, Records, NoSession
<1> HIDE DEF t
<1>3. Bounded(t) /\ Locks(t) /\ Leaves(t)
  BY <1>1, <1>2 DEF Bounded, Locks, Leaves, NoSession
<1> QED
  BY <1>3 DEF t

LEMMA EndedSound ==
  ASSUME NEW s, Weak(s)
  PROVE  /\ Sound(Ended(s)) /\ Leaves(Ended(s)) /\ Anylock(Ended(s)) \in BOOLEAN
         /\ Ended(s).role = "Local" /\ Ended(s).capture = "none"
<1>1. CASE s.receiving = s.session
  <2>1. Ended(s) = Local(Stopped(s))
    BY <1>1 DEF Ended, EndReceiver
  <2> QED
    BY <2>1, StoppedIs, LocalSound DEF Weak
<1>2. CASE s.receiving # s.session
  <2>1. Ended(s) = Local(s) /\ Leaves(s)
    BY <1>2 DEF Ended, EndReceiver, Weak, Receives, Leaves, NoSession, Bounded, Records
  <2> QED
    BY <2>1, LocalSound DEF Weak
<1> QED
  BY <1>1, <1>2

LEMMA ClosedSound ==
  ASSUME NEW s, Bounded(s), Locks(s)
  PROVE  Sound(Closed(s)) /\ Leaves(Closed(s)) /\ Anylock(Closed(s)) \in BOOLEAN
<1>1. Bounded(Stopped(s)) /\ Locks(Stopped(s)) /\ Leaves(Stopped(s))
  BY StoppedIs
<1> DEFINE t == Ended(Stopped(s))
<1>2. t = Local(Stopped(s)) \/ t = Local(Stopped(Stopped(s)))
  BY DEF Ended, EndReceiver
<1>3. Sound(t) /\ Leaves(t) /\ t.role = "Local" /\ t.capture = "none"
  BY <1>1, <1>2, StoppedIs, LocalSound
<1>4. Closed(s) = [t EXCEPT !.up = FALSE, !.configuring = FALSE]
  BY DEF Closed
<1> HIDE DEF t
<1> QED
  BY <1>3, <1>4 DEF Sound, Weak, Bounded, Records, Locks, Receives, Supported, Leaves,
       Anylock, LayoutReady

-----------------------------------------------------------------------------
(* Steps, each node for itself *)

LEMMA EndMessageIs ==
  ASSUME NEW s, s.session \in Nat
  PROVE  EndMessage(s) \in Seq(Wire)
<1>1. End(s.session) \in Wire
  BY DEF Wire
<1> QED
  BY <1>1 DEF EndMessage

\* A node that becomes s and sends what the peer understands.
LEMMA ActsKept ==
  ASSUME IInv, NEW n \in Nodes, NEW s, Sound(s), Eases(node[n], s),
         NEW out \in Seq(Wire), Acts(n, s, out)
  PROVE  Kept
<1>1. Peer(n) \in Nodes
  BY PeerIn
<1>2. node' = [node EXCEPT ![n] = s] /\ node' \in [Nodes -> Records]
  BY DEF Acts, IInv, Sound, Weak, Bounded
<1>3. Queued(Peer(n), out) \in Seq(Wire)
  BY <1>1 DEF Queued, IInv
<1>4. inbox' \in [Nodes -> Seq(Wire)]
  BY <1>1, <1>3 DEF Acts, IInv
<1>5. \A m \in Nodes : node'[m] = IF m = n THEN s ELSE node[m]
  BY <1>2 DEF IInv
<1>6. \A m \in Nodes : Eases(node[m], node[m]')
  BY <1>5 DEF Eases
<1> QED
  BY <1>2, <1>4, <1>5, <1>6 DEF Kept, IInv

LEMMA HandlesKept ==
  ASSUME IInv, NEW n \in Nodes, NEW s, Sound(s), Eases(node[n], s), inbox[n] # <<>>,
         NEW out \in Seq(Wire), Handles(n, s, out)
  PROVE  Kept
<1>1. Peer(n) \in Nodes /\ Peer(n) # n
  BY PeerIn
<1>2. node' = [node EXCEPT ![n] = s] /\ node' \in [Nodes -> Records]
  BY DEF Handles, IInv, Sound, Weak, Bounded
<1>3. Queued(Peer(n), out) \in Seq(Wire) /\ Tail(inbox[n]) \in Seq(Wire)
  BY <1>1 DEF Queued, IInv
<1>4. inbox' \in [Nodes -> Seq(Wire)]
  BY <1>1, <1>3 DEF Handles, IInv
<1>5. \A m \in Nodes : node'[m] = IF m = n THEN s ELSE node[m]
  BY <1>2 DEF IInv
<1>6. \A m \in Nodes : Eases(node[m], node[m]')
  BY <1>5 DEF Eases
<1> QED
  BY <1>2, <1>4, <1>5, <1>6 DEF Kept, IInv

LEMMA FailsKept ==
  ASSUME IInv, NEW n \in Nodes, Fails(n)
  PROVE  Kept
<1>1. Sound(Closed(node[n])) /\ Eases(node[n], Closed(node[n]))
  BY ClosedSound DEF IInv, Sound, Weak, Eases
<1>2. /\ node' = [node EXCEPT ![n] = Closed(node[n])]
      /\ node' \in [Nodes -> Records]
  BY <1>1 DEF Fails, IInv, Sound, Weak, Bounded
<1>3. inbox' \in [Nodes -> Seq(Wire)]
  BY DEF Fails, IInv
<1>4. \A m \in Nodes : node'[m] = IF m = n THEN Closed(node[n]) ELSE node[m]
  BY <1>2 DEF IInv
<1>5. \A m \in Nodes : Eases(node[m], node[m]')
  BY <1>1, <1>4 DEF Eases
<1> QED
  BY <1>1, <1>2, <1>3, <1>4, <1>5 DEF Kept, IInv

\* The messages of an end of a session, with another in front.
LEMMA SentIs ==
  ASSUME NEW s, s.session \in Nat, NEW l \in BOOLEAN
  PROVE  /\ <<LockState(l)>> \in Seq(Wire) /\ <<Desktop(l)>> \in Seq(Wire)
         /\ <<LockState(l)>> \o EndMessage(s) \in Seq(Wire)
         /\ <<Desktop(l)>> \o EpochMessage(s) \in Seq(Wire)
         /\ EpochMessage(s) \in Seq(Wire)
<1>1. LockState(l) \in Wire /\ Desktop(l) \in Wire
  BY DEF Wire
<1>2. EndMessage(s) \in Seq(Wire) /\ EpochMessage(s) \in Seq(Wire)
  BY EndMessageIs DEF EpochMessage
<1> QED
  BY <1>1, <1>2

\* A node that returns to local control.
LEMMA Returned ==
  ASSUME NEW r, NEW s, Weak(s)
  PROVE  /\ Sound(Ended(s)) /\ Eases(r, Ended(s))
         /\ Sound(Local(Stopped(s))) /\ Eases(r, Local(Stopped(s)))
         /\ Leaves(s) => Sound(Local(s)) /\ Eases(r, Local(s))
BY EndedSound, StoppedIs, LocalSound DEF Weak, Eases

\* The outputs of one side changed.
LEMMA EpochSound ==
  ASSUME NEW r, Sound(r), NEW s, NEW o \in BOOLEAN,
         \/ s = [r EXCEPT !.outputs = o]
         \/ s = [r EXCEPT !.peerOutputs = o]
  PROVE  /\ Sound(AfterEpoch(s)) /\ Eases(r, AfterEpoch(s)) /\ s.session \in Nat
         /\ s.outputs \in BOOLEAN
<1>1. r \in Records
  BY DEF Sound, Weak, Bounded
<1>2. /\ s \in Records /\ s.up = r.up /\ s.role = r.role /\ s.session = r.session
      /\ s.sequence = r.sequence /\ s.next = r.next /\ s.localReady = r.localReady
      /\ s.peerReady = r.peerReady /\ s.configuring = r.configuring
      /\ s.capture = r.capture /\ s.receiving = r.receiving
      /\ s.expected = r.expected /\ s.held = r.held
      /\ s.localLocked = r.localLocked /\ s.peerLocked = r.peerLocked
  BY <1>1 DEF Records
<1>3. Weak(s)
  BY <1>2 DEF Sound, Weak, Bounded, Locks, Receives
<1>4. CASE Outdated(s)
  BY <1>2, <1>3, <1>4, Returned DEF AfterEpoch, Records
<1>5. CASE ~Outdated(s)
  <2>1. Supported(s) /\ Eases(r, s)
    BY <1>2, <1>5 DEF Outdated, Supported, Sound, Eases, Anylock
  <2> QED
    BY <1>2, <1>3, <1>5, <2>1 DEF AfterEpoch, Sound, Records
<1> QED
  BY <1>4, <1>5

LEMMA OutputsKept ==
  ASSUME IInv, NEW n \in Nodes, OutputsChanged(n) \/ HandleDesktop(n)
  PROVE  Kept
<1>1. Sound(node[n]) /\ node[n].outputs \in BOOLEAN
  BY DEF IInv, Sound, Weak, Bounded, Records
<1>2. CASE OutputsChanged(n)
  <2> DEFINE s == [node[n] EXCEPT !.outputs = ~@]
  <2>1. Acts(n, AfterEpoch(s), <<Desktop(s.outputs)>> \o EpochMessage(s))
    BY <1>2 DEF OutputsChanged
  <2>2. s = [node[n] EXCEPT !.outputs = ~(node[n].outputs)]
    OBVIOUS
  <2> HIDE DEF s
  <2>3. /\ Sound(AfterEpoch(s)) /\ Eases(node[n], AfterEpoch(s)) /\ s.session \in Nat
        /\ s.outputs \in BOOLEAN
    BY <1>1, <2>2, EpochSound
  <2>4. <<Desktop(s.outputs)>> \o EpochMessage(s) \in Seq(Wire)
    BY <2>3, SentIs
  <2> QED
    BY <2>1, <2>3, <2>4, ActsKept
<1>3. CASE HandleDesktop(n)
  <2> DEFINE s == [node[n] EXCEPT !.peerOutputs = Head(inbox[n]).outputs]
  <2>1. Handles(n, AfterEpoch(s), EpochMessage(s)) /\ Received(n, "Desktop")
    BY <1>3 DEF HandleDesktop
  <2>2. /\ inbox[n] # <<>> /\ Head(inbox[n]) \in Wire
        /\ Head(inbox[n]).type = "Desktop"
    BY <2>1 DEF Received, IInv
  <2>3. Head(inbox[n]).outputs \in BOOLEAN
    BY <2>2 DEF Wire, Begin, Input, End, LockState, Desktop
  <2>4. Sound(AfterEpoch(s)) /\ Eases(node[n], AfterEpoch(s)) /\ s.session \in Nat
    BY <1>1, <2>3, EpochSound
  <2> HIDE DEF s
  <2>5. EpochMessage(s) \in Seq(Wire)
    BY <2>4, EndMessageIs DEF EpochMessage
  <2> QED
    BY <2>1, <2>2, <2>4, <2>5, HandlesKept
<1> QED
  BY <1>2, <1>3

\* The local and the peer's session are locked or unlocked.
LEMMA LocalLockIs ==
  ASSUME NEW r, Sound(r), NEW ready \in BOOLEAN
  PROVE  LET s == LocalLock([r EXCEPT !.localReady = ready], ~ready)
         IN  /\ s.session \in Nat
             /\ ready => Sound(s) /\ Eases(r, s)
             /\ ~ready => Sound(Local(s)) /\ Eases(r, Local(s))
<1> DEFINE t == [r EXCEPT !.localReady = ready]
           u == [t EXCEPT !.localLocked = ~ready]
           s == LocalLock(t, ~ready)
<1>1. r \in Records
  BY DEF Sound, Weak, Bounded
<1>2. /\ t \in Records /\ t.localReady = ready
      /\ t.up = r.up /\ t.role = r.role /\ t.session = r.session
      /\ t.localLocked = r.localLocked
  BY <1>1 DEF Records
<1>3. /\ u \in Records /\ u.localReady = ready /\ u.localLocked = ~ready
      /\ u.role = r.role /\ u.session = r.session
      /\ u.sequence = r.sequence /\ u.next = r.next
      /\ u.peerReady = r.peerReady /\ u.configuring = r.configuring
      /\ u.capture = r.capture /\ u.receiving = r.receiving
      /\ u.expected = r.expected /\ u.held = r.held /\ u.peerLocked = r.peerLocked
  BY <1>1 DEF Records
<1>4. s = IF r.localLocked = ~ready THEN t ELSE Stopped(u)
  BY <1>2 DEF LocalLock
<1> HIDE DEF u
<1>5. Bounded(u) /\ Locks(u)
  <2>1. Bounded(u)
    BY <1>3 DEF Sound, Weak, Bounded
  <2>2. u.localReady = ~u.localLocked
    BY <1>3
  <2>3. u.peerReady => ~u.peerLocked
    BY <1>3 DEF Sound, Weak, Locks
  <2> QED
    BY <2>1, <2>2, <2>3 DEF Locks
<1>6. CASE r.localLocked = ~ready
  <2>1. r.localReady = ready
    BY <1>1, <1>6 DEF Sound, Weak, Locks, Records
  <2>2. t = r
    BY <1>1, <2>1 DEF Records
  <2>3. s = r
    BY <1>4, <1>6, <2>2
  <2>4. ~ready => Leaves(r)
    BY <2>1 DEF Sound, Weak, Supported, Receives, Leaves
  <2> QED
    BY <1>1, <2>3, <2>4, Returned DEF Sound, Eases, Records
<1>7. CASE r.localLocked # ~ready
  <2>1. s = Stopped(u)
    BY <1>4, <1>7
  <2> HIDE DEF t, u, s
  <2>2. /\ Bounded(s) /\ Locks(s) /\ Leaves(s) /\ s.session \in Nat
    BY <1>5, <2>1, StoppedIs DEF Bounded, Records
  <2>3. Sound(Local(s)) /\ Eases(r, Local(s))
    BY <2>2, LocalSound DEF Eases
  <2>4. ASSUME ready PROVE Sound(s) /\ Eases(r, s)
    <3>1. r.role = "Local" /\ r.capture = "none"
      BY <1>1, <1>7, <2>4 DEF Sound, Weak, Locks, Supported, Records
    <3>2. u.role = "Local" /\ u.capture = "none"
      BY <1>3, <3>1
    <3>3. /\ s.role = "Local" /\ s.capture = "none"
          /\ s.localLocked \in BOOLEAN /\ s.peerLocked \in BOOLEAN
      BY <1>3, <2>1, <3>2 DEF Stopped, Records
    <3> QED
      BY <2>2, <3>3 DEF Sound, Weak, Receives, Supported, Leaves, Eases, Anylock
  <2> QED
    BY <2>2, <2>3, <2>4 DEF s, t
<1> QED
  BY <1>6, <1>7

LEMMA StatusKept ==
  ASSUME IInv, NEW n \in Nodes, StatusChanged(n)
  PROVE  Kept
<1>1. PICK ready \in BOOLEAN :
        LET s == LocalLock([node[n] EXCEPT !.localReady = ready], ~ready)
        IN  IF ready
              THEN Acts(n, s, <<LockState(FALSE)>>)
              ELSE Acts(n, Local(s), <<LockState(TRUE)>> \o EndMessage(s))
  BY DEF StatusChanged
<1> DEFINE s == LocalLock([node[n] EXCEPT !.localReady = ready], ~ready)
<1>2. /\ s.session \in Nat
      /\ ready => Sound(s) /\ Eases(node[n], s)
      /\ ~ready => Sound(Local(s)) /\ Eases(node[n], Local(s))
  BY LocalLockIs DEF IInv
<1>3. IF ready THEN Acts(n, s, <<LockState(FALSE)>>)
      ELSE Acts(n, Local(s), <<LockState(TRUE)>> \o EndMessage(s))
  BY <1>1
<1> HIDE DEF s
<1>4. <<LockState(FALSE)>> \in Seq(Wire) /\ <<LockState(TRUE)>> \o EndMessage(s) \in Seq(Wire)
  BY <1>2, SentIs
<1> QED
  BY <1>2, <1>3, <1>4, ActsKept

LEMMA PeerLockIs ==
  ASSUME NEW r, Sound(r), NEW locked \in BOOLEAN
  PROVE  LET s == PeerLock([r EXCEPT !.peerReady = ~locked], locked)
         IN  /\ s.session \in Nat
             /\ ~locked => Sound(s) /\ Eases(r, s)
             /\ locked => Sound(Local(s)) /\ Eases(r, Local(s))
<1> DEFINE t == [r EXCEPT !.peerReady = ~locked]
           u == [t EXCEPT !.peerLocked = locked]
           s == PeerLock(t, locked)
<1>1. r \in Records
  BY DEF Sound, Weak, Bounded
<1>2. /\ t \in Records /\ t.peerReady = ~locked
      /\ t.up = r.up /\ t.role = r.role /\ t.session = r.session
      /\ t.sequence = r.sequence /\ t.next = r.next /\ t.localReady = r.localReady
      /\ t.configuring = r.configuring /\ t.capture = r.capture
      /\ t.receiving = r.receiving /\ t.expected = r.expected /\ t.held = r.held
      /\ t.outputs = r.outputs /\ t.peerOutputs = r.peerOutputs
      /\ t.localLocked = r.localLocked /\ t.peerLocked = r.peerLocked
  BY <1>1 DEF Records
<1>3. /\ u \in Records /\ u.peerReady = ~locked /\ u.peerLocked = locked
      /\ u.role = r.role /\ u.session = r.session
      /\ u.sequence = r.sequence /\ u.next = r.next
      /\ u.localReady = r.localReady /\ u.localLocked = r.localLocked
      /\ u.capture = r.capture /\ u.receiving = r.receiving
      /\ u.expected = r.expected /\ u.held = r.held
  BY <1>1 DEF Records
<1>4. s = IF r.peerLocked = locked THEN t ELSE Stopped(u)
  BY <1>2 DEF PeerLock
<1> HIDE DEF t, u
<1>5. Bounded(u) /\ Locks(u)
  <2>1. Bounded(u)
    BY <1>3 DEF Sound, Weak, Bounded
  <2>2. u.localReady = ~u.localLocked
    BY <1>3 DEF Sound, Weak, Locks
  <2>3. u.peerReady => ~u.peerLocked
    BY <1>3
  <2> QED
    BY <2>1, <2>2, <2>3 DEF Locks
<1>6. CASE r.peerLocked = locked
  <2>1. s = t
    BY <1>4, <1>6
  <2>2. Bounded(t)
    BY <1>2 DEF Sound, Weak, Bounded
  <2>3. Locks(t)
    <3>1. t.localReady = ~t.localLocked
      BY <1>2 DEF Sound, Weak, Locks
    <3>2. t.peerReady => ~t.peerLocked
      BY <1>2, <1>6
    <3> QED
      BY <3>1, <3>2 DEF Locks
  <2>4. Receives(t)
    BY <1>2 DEF Sound, Weak, Receives
  <2>5. ~locked => Supported(t)
    BY <1>2 DEF Sound, Supported, LayoutReady
  <2>6. locked => Leaves(t)
    BY <1>2, <1>6 DEF Sound, Weak, Locks, Supported, Receives, Leaves
  <2>7. Eases(r, t)
    BY <1>2 DEF Eases, Anylock
  <2> QED
    BY <1>2, <2>1, <2>2, <2>3, <2>4, <2>5, <2>6, <2>7, Returned DEF Sound, Weak, Records, t
<1>7. CASE r.peerLocked # locked
  <2>1. s = Stopped(u)
    BY <1>4, <1>7
  <2> HIDE DEF s
  <2>2. /\ Bounded(s) /\ Locks(s) /\ Leaves(s) /\ s.session \in Nat
    BY <1>5, <2>1, StoppedIs DEF Bounded, Records
  <2>3. Sound(Local(s)) /\ Eases(r, Local(s))
    BY <2>2, LocalSound DEF Eases
  <2>4. ASSUME ~locked PROVE Sound(s) /\ Eases(r, s)
    <3>1. r.peerLocked
      BY <1>1, <1>7, <2>4 DEF Records
    <3>2. r.role = "Local" /\ r.capture = "none"
      BY <1>1, <3>1 DEF Sound, Weak, Locks, Supported, Records
    <3>3. u.role = "Local" /\ u.capture = "none"
      BY <1>3, <3>2
    <3>4. /\ s.role = "Local" /\ s.capture = "none"
          /\ s.localLocked \in BOOLEAN /\ s.peerLocked \in BOOLEAN
      BY <1>3, <2>1, <3>3 DEF Stopped, Records
    <3> QED
      BY <2>2, <3>4 DEF Sound, Weak, Receives, Supported, Leaves, Eases, Anylock
  <2> QED
    BY <2>2, <2>3, <2>4 DEF s, t
<1> QED
  BY <1>6, <1>7

LEMMA LockStateKept ==
  ASSUME IInv, NEW n \in Nodes, HandleLockState(n)
  PROVE  Kept
<1> DEFINE locked == Head(inbox[n]).locked
           s == PeerLock([node[n] EXCEPT !.peerReady = ~locked], locked)
<1>1. /\ Received(n, "LockState")
      /\ IF locked THEN Handles(n, Local(s), EndMessage(s)) ELSE Handles(n, s, <<>>)
  BY DEF HandleLockState
<1>2. inbox[n] # <<>> /\ Head(inbox[n]) \in Wire /\ Head(inbox[n]).type = "LockState"
  BY <1>1 DEF Received, IInv
<1>3. locked \in BOOLEAN
  BY <1>2 DEF Wire, Begin, Input, End, LockState, Desktop
<1> HIDE DEF locked
<1>4. /\ s.session \in Nat
      /\ ~locked => Sound(s) /\ Eases(node[n], s)
      /\ locked => Sound(Local(s)) /\ Eases(node[n], Local(s))
  BY <1>3, PeerLockIs DEF IInv
<1> HIDE DEF s
<1>5. EndMessage(s) \in Seq(Wire) /\ <<>> \in Seq(Wire)
  BY <1>4, EndMessageIs
<1> QED
  BY <1>1, <1>2, <1>4, <1>5, HandlesKept

\* Steps that return to local control, or change only what is captured.
LEMMA EndsKept ==
  ASSUME IInv, NEW n \in Nodes,
         \/ Release(n) \/ PhysicalActivity(n) \/ Emergency(n) \/ ReturnControl(n)
         \/ CaptureFinished(n)
  PROVE  Kept
<1> DEFINE r == node[n]
<1>1. Weak(r) /\ Sound(r) /\ r.session \in Nat
  BY DEF IInv, Sound, Weak, Bounded, Records
<1>2. EndMessage(r) \in Seq(Wire)
  BY <1>1, EndMessageIs
<1>3. /\ Sound(Ended(r)) /\ Eases(r, Ended(r))
      /\ Sound(Local(Stopped(r))) /\ Eases(r, Local(Stopped(r)))
  BY <1>1, Returned
<1>4. Emergency(n) => Sound(Local(r)) /\ Eases(r, Local(r))
  BY <1>1, Returned DEF Emergency, Weak, Receives, Leaves
<1>5. \/ Acts(n, Ended(r), EndMessage(r))
      \/ Acts(n, Local(Stopped(r)), EndMessage(r))
      \/ Emergency(n) /\ Acts(n, Local(r), EndMessage(r))
  BY DEF Release, PhysicalActivity, Emergency, ReturnControl, CaptureFinished
<1> HIDE DEF r
<1>6. node[n] = r
  BY DEF r
<1> QED
  BY <1>2, <1>3, <1>4, <1>5, <1>6, ActsKept

LEMMA ConfigureKept ==
  ASSUME IInv, NEW n \in Nodes, Configure(n) \/ Configured(n)
  PROVE  Kept
<1>1. Sound(node[n]) /\ Weak(node[n]) /\ node[n].session \in Nat
  BY DEF IInv, Sound, Weak, Bounded, Records
<1>2. EndMessage(node[n]) \in Seq(Wire) /\ <<>> \in Seq(Wire)
  BY <1>1, EndMessageIs
<1>3. CASE Configure(n)
  <2> DEFINE t == Ended(node[n])
             s == [t EXCEPT !.configuring = TRUE]
  <2>1. Sound(t) /\ Leaves(t) /\ t.role = "Local" /\ t.capture = "none"
    BY <1>1, EndedSound
  <2>2. Acts(n, s, EndMessage(node[n]))
    BY <1>3 DEF Configure
  <2> HIDE DEF t
  <2>3. Sound(s) /\ Eases(node[n], s)
    BY <2>1 DEF Sound, Weak, Bounded, Records, Locks, Receives, Supported, Leaves,
         Eases, Anylock
  <2> QED
    BY <1>2, <2>2, <2>3, ActsKept
<1>4. CASE Configured(n)
  <2> DEFINE s == [node[n] EXCEPT !.configuring = FALSE]
  <2>1. Acts(n, s, <<>>)
    BY <1>4 DEF Configured
  <2>2. Sound(s) /\ Eases(node[n], s)
    BY <1>1 DEF Sound, Weak, Bounded, Records, Locks, Receives, Supported, LayoutReady,
         Eases, Anylock
  <2> QED
    BY <1>2, <2>1, <2>2, ActsKept
<1> QED
  BY <1>3, <1>4

LEMMA CaptureKept ==
  ASSUME IInv, NEW n \in Nodes, CaptureStart(n) \/ CaptureLost(n)
  PROVE  Kept
<1>1. Sound(node[n]) /\ Weak(node[n]) /\ node[n].session \in Nat
  BY DEF IInv, Sound, Weak, Bounded, Records
<1>2. EndMessage(node[n]) \in Seq(Wire) /\ <<>> \in Seq(Wire)
  BY <1>1, EndMessageIs
<1>3. CASE CaptureLost(n) /\ node[n].role = "Sending"
  <2>1. Sound(Local(node[n])) /\ Eases(node[n], Local(node[n]))
    BY <1>1, <1>3, Returned DEF Weak, Receives, Leaves
  <2> QED
    BY <1>2, <1>3, <2>1, ActsKept DEF CaptureLost
<1>4. CASE CaptureLost(n) /\ node[n].role # "Sending"
  <2> DEFINE s == [node[n] EXCEPT !.capture = "none"]
  <2>1. Acts(n, s, <<>>)
    BY <1>4 DEF CaptureLost
  <2>2. Sound(s) /\ Eases(node[n], s)
    BY <1>1, <1>4 DEF Sound, Weak, Bounded, Records, Locks, Receives, Supported,
         LayoutReady, Eases, Anylock
  <2> QED
    BY <1>2, <2>1, <2>2, ActsKept
<1>5. CASE CaptureStart(n)
  <2> DEFINE s == [node[n] EXCEPT !.capture = "armed"]
  <2>1. Acts(n, s, <<>>)
    BY <1>5 DEF CaptureStart
  <2>2. Sound(s) /\ Eases(node[n], s)
    BY <1>1, <1>5 DEF CaptureStart, Sound, Weak, Bounded, Records, Locks, Receives,
         Supported, LayoutReady, Eases, Anylock
  <2> QED
    BY <1>2, <2>1, <2>2, ActsKept
<1> QED
  BY <1>3, <1>4, <1>5

LEMMA InputIs ==
  ASSUME NEW k \in Nat, NEW q \in Nat, q < MaxSequence, NEW c \in Codes, NEW p \in BOOLEAN
  PROVE  Input(k, q, Key(c, p)) \in Wire
BY DEF Wire

\* The messages that begin a session: Begin, and the key that is held.
LEMMA BeginningIs ==
  ASSUME NEW k \in Nat, k # NoSession, k <= MaxSession, NEW initial,
         initial = {} \/ (1 <= MaxSequence /\ \E c \in Codes : initial = {c})
  PROVE  <<Begin(k)>> \o SetToSeq({Input(k, 0, Key(c, TRUE)) : c \in initial}) \in Seq(Wire)
<1> DEFINE S == {Input(k, 0, Key(c, TRUE)) : c \in initial}
<1>1. Begin(k) \in Wire
  BY DEF Wire
<1>2. SetToSeq(S) \in Seq(Wire)
  <2>1. CASE initial = {}
    <3>1. S = {} /\ Cardinality(S) = 0
      BY <2>1, FS_EmptySet
    <3> HIDE DEF S
    <3> DEFINE f == [i \in {} |-> 0]
    <3>2. f \in [1..Cardinality(S) -> S] /\ IsInjective(f)
      <4>1. 1..Cardinality(S) = {} /\ f \in [{} -> S] /\ DOMAIN f = {}
        BY <3>1
      <4> HIDE DEF f
      <4> QED
        BY <4>1 DEF IsInjective
    <3>3. SetToSeq(S) \in [1..Cardinality(S) -> S]
      BY <3>2 DEF SetToSeq
    <3>4. SetToSeq(S) \in [1..0 -> Wire]
      BY <3>1, <3>3
    <3> QED
      BY <3>4
  <2>2. CASE 1 <= MaxSequence /\ \E c \in Codes : initial = {c}
    <3>1. PICK c \in Codes : initial = {c}
      BY <2>2
    <3> DEFINE m == Input(k, 0, Key(c, TRUE))
    <3>2. S = {m}
      BY <3>1
    <3>3. m \in Wire
      <4>1. 0 \in Nat /\ 0 < MaxSequence /\ TRUE \in BOOLEAN
        BY <2>2, BoundsAssumption DEF BoundsAssumption
      <4> QED
        BY <4>1, InputIs
    <3> HIDE DEF S, m
    <3>4. Cardinality(S) = 1
      BY <3>2, FS_Singleton
    <3> DEFINE f == [i \in 1..1 |-> m]
    <3>5. f \in [1..Cardinality(S) -> S] /\ IsInjective(f)
      BY <3>2, <3>4 DEF IsInjective
    <3> HIDE DEF f
    <3>6. SetToSeq(S) \in [1..Cardinality(S) -> S]
      BY <3>5 DEF SetToSeq
    <3>7. SetToSeq(S) \in [1..1 -> Wire]
      BY <3>2, <3>3, <3>4, <3>6
    <3>8. [1..1 -> Wire] \subseteq Seq(Wire)
      <4>1. Seq(Wire) = UNION {[1..i -> Wire] : i \in Nat}
        BY SeqDef
      <4>2. 1 \in Nat
        OBVIOUS
      <4> QED
        BY <4>1, <4>2, Zenon
    <3> QED
      BY <3>7, <3>8
  <2> QED
    BY <2>1, <2>2
<1> HIDE DEF S
<1>3. <<Begin(k)>> \o SetToSeq(S) \in Seq(Wire)
  BY <1>1, <1>2
<1> QED
  BY <1>3 DEF S

LEMMA StartKept ==
  ASSUME IInv, NEW n \in Nodes, StartSession(n)
  PROVE  Kept
<1>1. Sound(node[n])
  BY DEF IInv
<1>2. PICK initial \in {{}} \cup {{c} : c \in Codes} :
        LET k == node[n].next
            q == IF initial = {} THEN 0 ELSE 1
        IN /\ q <= MaxSequence
           /\ Acts(n, [node[n] EXCEPT !.role = "Sending", !.session = k,
                         !.sequence = q, !.next = k + 1, !.capture = "crossed",
                         !.source = initial],
                   <<Begin(k)>> \o SetToSeq({Input(k, 0, Key(c, TRUE)) : c \in initial}))
  BY DEF StartSession
<1> DEFINE k == node[n].next
           q == IF initial = {} THEN 0 ELSE 1
           s == [node[n] EXCEPT !.role = "Sending", !.session = k,
                   !.sequence = q, !.next = k + 1, !.capture = "crossed",
                   !.source = initial]
           out == <<Begin(k)>> \o SetToSeq({Input(k, 0, Key(c, TRUE)) : c \in initial})
<1>3. q <= MaxSequence /\ Acts(n, s, out)
  BY <1>2
<1>4. /\ node[n] \in Records /\ k \in Nat /\ 1 <= k /\ k <= MaxSession
      /\ q \in {0, 1} /\ initial \subseteq Codes
      /\ node[n].role = "Local" /\ node[n].capture = "armed"
  BY <1>1 DEF StartSession, Sound, Weak, Bounded, Records
<1> HIDE DEF k, s
<1>5. out \in Seq(Wire)
  <2>1. initial = {} \/ (1 <= MaxSequence /\ \E c \in Codes : initial = {c})
    BY <1>3
  <2>2. k # NoSession
    BY <1>4 DEF NoSession
  <2> HIDE DEF q
  <2> QED
    BY <1>4, <2>1, <2>2, BeginningIs
<1> HIDE DEF q, out
<1>6. /\ s \in Records
      /\ s.role = "Sending" /\ s.session = k /\ s.sequence = q /\ s.next = k + 1
      /\ s.capture = "crossed" /\ s.up = node[n].up
      /\ s.localReady = node[n].localReady /\ s.peerReady = node[n].peerReady
      /\ s.outputs = node[n].outputs /\ s.peerOutputs = node[n].peerOutputs
      /\ s.configuring = node[n].configuring /\ s.receiving = node[n].receiving
      /\ s.expected = node[n].expected /\ s.held = node[n].held
      /\ s.localLocked = node[n].localLocked /\ s.peerLocked = node[n].peerLocked
  <2>1. k + 1 \in Nat /\ q \in Nat /\ initial \in SUBSET Codes
    BY <1>4
  <2> QED
    BY <1>4, <2>1 DEF Records, s
<1>7. Sound(s)
  <2>1. MaxSession \in Nat
    BY BoundsAssumption DEF BoundsAssumption
  <2>2. Bounded(s)
    BY <1>1, <1>3, <1>4, <1>6, <2>1 DEF Sound, Weak, Bounded
  <2>3. Locks(s) /\ Receives(s) /\ Supported(s)
    BY <1>1, <1>4, <1>6 DEF Sound, Weak, Locks, Receives, Supported, LayoutReady
  <2> QED
    BY <2>2, <2>3 DEF Sound, Weak
<1>8. Eases(node[n], s)
  BY <1>6 DEF Eases, Anylock
<1> QED
  BY <1>3, <1>5, <1>7, <1>8, ActsKept

LEMMA ForwardKept ==
  ASSUME IInv, NEW n \in Nodes, Forward(n)
  PROVE  Kept
<1> DEFINE r == node[n]
<1>1. PICK c \in Codes, pressed \in BOOLEAN :
        Acts(n, [r EXCEPT !.sequence = @ + 1,
                   !.source = IF pressed THEN @ \cup {c} ELSE @ \ {c}],
             <<Input(r.session, r.sequence, Key(c, pressed))>>)
  BY DEF Forward
<1> DEFINE source == IF pressed THEN r.source \cup {c} ELSE r.source \ {c}
           s == [r EXCEPT !.sequence = r.sequence + 1, !.source = source]
<1>2. /\ Sound(r) /\ r \in Records /\ r.sequence \in Nat /\ r.session \in Nat
      /\ r.sequence < MaxSequence /\ MaxSequence \in Nat
  BY BoundsAssumption DEF IInv, Sound, Weak, Bounded, Records, Forward, BoundsAssumption
<1>3. Input(r.session, r.sequence, Key(c, pressed)) \in Wire
  BY <1>2 DEF Wire
<1>4. <<Input(r.session, r.sequence, Key(c, pressed))>> \in Seq(Wire)
  BY <1>3
<1>5. /\ s \in Records /\ s.sequence = r.sequence + 1
      /\ s.role = r.role /\ s.session = r.session /\ s.next = r.next
      /\ s.capture = r.capture /\ s.up = r.up
      /\ s.localReady = r.localReady /\ s.peerReady = r.peerReady
      /\ s.outputs = r.outputs /\ s.peerOutputs = r.peerOutputs
      /\ s.configuring = r.configuring /\ s.receiving = r.receiving
      /\ s.expected = r.expected /\ s.held = r.held
      /\ s.localLocked = r.localLocked /\ s.peerLocked = r.peerLocked
  <2>1. source \in SUBSET Codes /\ r.sequence + 1 \in Nat
    BY <1>2 DEF Records
  <2> HIDE DEF source
  <2> QED
    BY <1>2, <2>1 DEF Records
<1>6. Acts(n, s, <<Input(r.session, r.sequence, Key(c, pressed))>>)
  BY <1>1
<1> HIDE DEF s
<1>7. Sound(s) /\ Eases(r, s)
  BY <1>2, <1>5 DEF Sound, Weak, Bounded, Locks, Receives, Supported, LayoutReady, Eases,
       Anylock
<1> QED
  BY <1>4, <1>6, <1>7, ActsKept

LEMMA HandleBeginKept ==
  ASSUME IInv, NEW n \in Nodes, HandleBegin(n)
  PROVE  Kept
<1> DEFINE r == node[n]
           k == Head(inbox[n]).session
           s == [Begun(r, k) EXCEPT !.role = "Receiving", !.session = k]
<1>1. /\ inbox[n] # <<>> /\ Head(inbox[n]) \in Wire /\ Head(inbox[n]).type = "Begin"
      /\ r.up
  BY DEF HandleBegin, Received, IInv
<1>2. k \in Nat /\ k # NoSession /\ k <= MaxSession
  BY <1>1 DEF Wire, Begin, Input, End, LockState, Desktop
<1>3. \/ Acceptable(r) /\ MayBegin(r) /\ Handles(n, s, <<>>)
      \/ Fails(n)
      \/ Handles(n, r, <<End(k)>>)
  BY DEF HandleBegin
<1>4. Sound(r) /\ r \in Records
  BY DEF IInv, Sound, Weak, Bounded
<1>5. CASE Acceptable(r) /\ MayBegin(r) /\ Handles(n, s, <<>>)
  <2> HIDE DEF k
  <2>1. /\ s \in Records /\ s.role = "Receiving" /\ s.session = k /\ s.receiving = k
        /\ s.expected = 0 /\ s.sequence = r.sequence /\ s.next = r.next
        /\ s.capture = r.capture /\ s.up = r.up
        /\ s.localReady = r.localReady /\ s.peerReady = r.peerReady
        /\ s.outputs = r.outputs /\ s.peerOutputs = r.peerOutputs
        /\ s.configuring = r.configuring /\ s.held = r.held
        /\ s.localLocked = r.localLocked /\ s.peerLocked = r.peerLocked
    BY <1>2, <1>4 DEF Records, Begun
  <2> HIDE DEF s
  <2>2. MaxSequence \in Nat
    BY BoundsAssumption DEF BoundsAssumption
  <2>3. Bounded(s)
    BY <1>2, <1>4, <2>1, <2>2 DEF Sound, Weak, Bounded
  <2>4. Locks(s) /\ Receives(s) /\ Supported(s)
    BY <1>1, <1>2, <1>4, <1>5, <2>1
       DEF Acceptable, Sound, Weak, Locks, Receives, Supported, LayoutReady
  <2>5. Eases(r, s)
    BY <1>2, <1>4, <1>5, <2>1
       DEF Acceptable, MayBegin, Sound, Weak, Receives, Leaves, Eases, Anylock
  <2>6. <<>> \in Seq(Wire)
    OBVIOUS
  <2> QED
    BY <1>1, <1>5, <2>3, <2>4, <2>5, <2>6, HandlesKept DEF Sound, Weak
<1>6. CASE Handles(n, r, <<End(k)>>)
  <2>1. End(k) \in Wire
    BY <1>2 DEF Wire
  <2>2. Eases(r, r) /\ <<End(k)>> \in Seq(Wire)
    BY <2>1 DEF Eases
  <2> QED
    BY <1>1, <1>4, <1>6, <2>2, HandlesKept
<1> QED
  BY <1>3, <1>5, <1>6, FailsKept

LEMMA HandleInputKept ==
  ASSUME IInv, NEW n \in Nodes, HandleInput(n)
  PROVE  Kept
<1> DEFINE r == node[n]
           m == Head(inbox[n])
           c == m.event.code
           held == IF m.event.pressed THEN r.held \cup {c} ELSE r.held \ {c}
           s == [r EXCEPT !.expected = r.expected + 1, !.held = held]
<1>1. inbox[n] # <<>> /\ m \in Wire /\ m.type = "Input"
  BY DEF HandleInput, Received, IInv
<1>2. /\ m.session \in Nat /\ m.sequence \in Nat /\ m.sequence < MaxSequence
      /\ m.event.code \in Codes /\ m.event.pressed \in BOOLEAN
  BY <1>1 DEF Wire, Begin, Input, End, LockState, Desktop, Key
<1>3. \/ Handles(n, Local(Stopped(r)), <<End(m.session)>>)
      \/ Handles(n, r, <<>>)
      \/ Fails(n)
      \/ /\ r.role = "Receiving" /\ r.receiving = m.session
         /\ r.expected = m.sequence /\ Handles(n, s, <<>>)
  BY DEF HandleInput, Injected
<1>4. Sound(r) /\ Weak(r) /\ r \in Records
  BY DEF IInv, Sound, Weak, Bounded
<1>5. <<>> \in Seq(Wire) /\ <<End(m.session)>> \in Seq(Wire)
  <2>1. End(m.session) \in Wire
    BY <1>2 DEF Wire
  <2> QED
    BY <2>1
<1> HIDE DEF m
<1>6. CASE Handles(n, Local(Stopped(r)), <<End(m.session)>>)
  BY <1>1, <1>4, <1>5, <1>6, Returned, HandlesKept DEF m
<1>7. CASE Handles(n, r, <<>>)
  <2>1. Eases(r, r)
    BY DEF Eases
  <2> QED
    BY <1>1, <1>4, <1>5, <1>7, <2>1, HandlesKept DEF m
<1>8. CASE /\ r.role = "Receiving" /\ r.receiving = m.session
           /\ r.expected = m.sequence /\ Handles(n, s, <<>>)
  <2>1. /\ held \in SUBSET Codes /\ held \in {r.held \cup {c}, r.held \ {c}}
        /\ r.expected + 1 \in Nat
    BY <1>2, <1>4 DEF Records
  <2> HIDE DEF held
  <2>2. /\ s \in Records /\ s.expected = r.expected + 1
        /\ s.held \in {r.held \cup {c}, r.held \ {c}}
        /\ s.role = r.role /\ s.session = r.session /\ s.receiving = r.receiving
        /\ s.sequence = r.sequence /\ s.next = r.next
        /\ s.capture = r.capture /\ s.up = r.up
        /\ s.localReady = r.localReady /\ s.peerReady = r.peerReady
        /\ s.outputs = r.outputs /\ s.peerOutputs = r.peerOutputs
        /\ s.configuring = r.configuring
        /\ s.localLocked = r.localLocked /\ s.peerLocked = r.peerLocked
    BY <1>2, <1>4, <2>1 DEF Records
  <2> HIDE DEF s
  <2>3. MaxSequence \in Nat
    BY BoundsAssumption DEF BoundsAssumption
  <2>4. Bounded(s)
    BY <1>2, <1>4, <1>8, <2>2, <2>3 DEF Sound, Weak, Bounded
  <2>5. Locks(s) /\ Receives(s) /\ Supported(s)
    BY <1>4, <1>8, <2>2 DEF Sound, Weak, Locks, Receives, Supported, LayoutReady
  <2>6. Eases(r, s)
    BY <1>2, <1>4, <1>8, <2>1, <2>2 DEF Weak, Receives, Eases, Anylock
  <2> QED
    BY <1>1, <1>5, <1>8, <2>4, <2>5, <2>6, HandlesKept DEF Sound, Weak, m
<1> QED
  BY <1>3, <1>6, <1>7, <1>8, FailsKept

LEMMA HandleEndKept ==
  ASSUME IInv, NEW n \in Nodes, HandleEnd(n)
  PROVE  Kept
<1>1. inbox[n] # <<>> /\ <<>> \in Seq(Wire)
  BY DEF HandleEnd, Received
<1>2. Handles(n, Ended(node[n]), <<>>) \/ Handles(n, node[n], <<>>)
  BY DEF HandleEnd
<1>3. Sound(node[n]) /\ Weak(node[n]) /\ Eases(node[n], node[n])
  BY DEF IInv, Sound, Eases
<1> QED
  BY <1>1, <1>2, <1>3, Returned, HandlesKept

-----------------------------------------------------------------------------
(* Connections *)

LEMMA FreshSound ==
  ASSUME NEW ready \in BOOLEAN, NEW present \in BOOLEAN
  PROVE  Sound(Fresh(ready, present)) /\ Leaves(Fresh(ready, present))
         /\ Anylock(Fresh(ready, present)) = ~ready
<1> DEFINE s == Fresh(ready, present)
<1>1. /\ s \in Records
      /\ s.role = "Local" /\ s.session = 0 /\ s.sequence = 0 /\ s.next = 1
      /\ s.capture = "none" /\ s.receiving = 0 /\ s.expected = 0 /\ s.held = {}
      /\ s.localReady = ready /\ s.peerReady = FALSE /\ s.localLocked = ~ready
      /\ s.peerLocked = FALSE
  BY DEF Fresh, Records, NoSession
<1>2. MaxSession \in Nat /\ MaxSequence \in Nat
  BY BoundsAssumption DEF BoundsAssumption
<1> HIDE DEF s
<1>3. Bounded(s)
  BY <1>1, <1>2 DEF Bounded
<1>4. Locks(s) /\ Receives(s) /\ Supported(s) /\ Leaves(s)
  BY <1>1 DEF Locks, Receives, Supported, Leaves, NoSession
<1>5. Anylock(s) = ~ready
  BY <1>1 DEF Anylock
<1> QED
  BY <1>3, <1>4, <1>5 DEF Sound, Weak, s

LEMMA ConnectKept ==
  ASSUME IInv, Connect
  PROVE  Kept
<1>1. PICK ready \in [Nodes -> BOOLEAN] :
        /\ node' = [n \in Nodes |-> Fresh(ready[n], node[n].outputs)]
        /\ inbox' = [n \in Nodes |-> << Desktop(node[Peer(n)].outputs),
                                        LockState(~ready[Peer(n)]) >>]
  BY DEF Connect
<1>2. \A n \in Nodes : node[n].outputs \in BOOLEAN
  BY DEF IInv, Sound, Weak, Bounded, Records
<1>3. \A n \in Nodes : Sound(Fresh(ready[n], node[n].outputs))
                       /\ Leaves(Fresh(ready[n], node[n].outputs))
  BY <1>2, FreshSound
<1>4. \A n \in Nodes : node'[n] = Fresh(ready[n], node[n].outputs)
  BY <1>1
<1>5. inbox' \in [Nodes -> Seq(Wire)]
  <2>1. \A n \in Nodes : Desktop(node[Peer(n)].outputs) \in Wire
                         /\ LockState(~ready[Peer(n)]) \in Wire
    <3>1. \A l \in BOOLEAN : Desktop(l) \in Wire /\ LockState(l) \in Wire
      BY DEF Wire
    <3> QED
      BY <1>2, <3>1, PeerIn
  <2> QED
    BY <1>1, <2>1
<1>6. \A n \in Nodes : Eases(node[n], node[n]')
  BY <1>3, <1>4 DEF Eases, Anylock
<1> QED
  BY <1>1, <1>3, <1>4, <1>5, <1>6 DEF Kept, IInv, Sound, Weak, Bounded

-----------------------------------------------------------------------------
(* Theorems about each node *)

LEMMA Initially ==
  ASSUME Init
  PROVE  IInv /\ \A n \in Nodes : Leaves(node[n]) /\ ~Anylock(node[n])
<1> DEFINE s == Closed(Fresh(TRUE, TRUE))
<1>1. node = [n \in Nodes |-> s] /\ inbox = [n \in Nodes |-> <<>>]
  BY DEF Init
<1>2. Sound(s) /\ Leaves(s)
  BY FreshSound, ClosedSound DEF Sound, Weak
<1>3. ~Anylock(s)
  BY DEF Anylock, Closed, Ended, EndReceiver, Local, Stopped, Fresh
<1> HIDE DEF s
<1> QED
  BY <1>1, <1>2, <1>3 DEF IInv, Sound, Weak, Bounded

LEMMA StepKept ==
  ASSUME IInv, [Next]_vars
  PROVE  Kept
<1>1. CASE UNCHANGED vars
  BY <1>1 DEF vars, Kept, IInv, Eases
<1>2. CASE Connect
  BY <1>2, ConnectKept
<1>3. ASSUME NEW n \in Nodes, Disconnect(n) \/ PeerClosed(n)
      PROVE  Kept
  BY <1>3, FailsKept DEF Disconnect, PeerClosed
<1> QED
  BY <1>1, <1>2, <1>3, OutputsKept, StatusKept, LockStateKept, EndsKept, ConfigureKept,
     CaptureKept, StartKept, ForwardKept, HandleBeginKept, HandleInputKept, HandleEndKept
     DEF Next

\* What the other theorems rest on: every coordinator is sound, and only messages
\* that a coordinator sends are in flight.
THEOREM Invariance == Spec => []IInv
<1>1. Init => IInv
  BY Initially
<1>2. IInv /\ [Next]_vars => IInv'
  BY StepKept DEF Kept
<1> QED
  BY <1>1, <1>2, PTL DEF Spec

\* The numbers of sessions and inputs stay within their bounds, those of the
\* receiver too, which it takes from the peer.
THEOREM TypeCorrect == Spec => []TypeOK
<1>1. IInv => TypeOK
  <2> SUFFICES ASSUME IInv PROVE TypeOK
    OBVIOUS
  <2>1. \A n \in Nodes : node[n] \in Coordinators
    BY BoundsAssumption
       DEF IInv, Sound, Weak, Bounded, Records, Coordinators, BoundsAssumption
  <2>2. node \in [Nodes -> Coordinators]
    BY <2>1 DEF IInv
  <2>3. \A m \in Wire : m.type \in {"Begin", "Input", "End", "LockState", "Desktop"}
    BY DEF Wire, Begin, Input, End, LockState, Desktop
  <2>4. \A n \in Nodes : \A i \in DOMAIN inbox[n] : inbox[n][i] \in Wire
    BY DEF IInv
  <2> QED
    BY <2>2, <2>3, <2>4 DEF TypeOK
<1> QED
  BY <1>1, Invariance, PTL

\* What a coordinator believes, and what its receiver, its capture and its locks
\* are doing never drift apart, whatever the peer, the users and the network do.
THEOREM AlwaysCoherent == Spec => []Coherent
<1>1. IInv => Coherent
  BY DEF IInv, Sound, Weak, Receives, Supported, Coherent
<1> QED
  BY <1>1, Invariance, PTL

\* Both desktops are leased to one session at a time: Bridge implements
\* InputLease on each side.
THEOREM ImplementsLeases == Spec => DesktopsLeased
<1>1. Init => \A n \in Nodes : Lease(n)!Init
  BY Initially DEF Lease!Init, Leaves, Anylock
<1>2. ASSUME IInv, NEW n \in Nodes, Eases(node[n], node[n]'), IInv'
      PROVE  Lease(n)!Next \/ UNCHANGED Lease(n)!vars
  <2>1. CASE /\ node'[n].receiving = node[n].receiving /\ node'[n].held = node[n].held
             /\ Anylock(node'[n]) = Anylock(node[n])
    BY <2>1 DEF Lease!vars, Anylock
  <2>2. CASE /\ Leaves(node[n]) /\ ~Anylock(node[n]) /\ ~Anylock(node'[n])
             /\ node'[n].held = {}
             /\ node'[n].receiving \in Nat /\ node'[n].receiving # NoSession
             /\ node'[n].receiving <= MaxSession
    <3>1. node'[n].receiving \in 1..MaxSession
      BY <2>2, BoundsAssumption DEF NoSession, BoundsAssumption
    <3>2. Lease(n)!Grant(node'[n].receiving)
      BY <2>2 DEF Lease!Grant, Leaves, Anylock
    <3> QED
      BY <3>1, <3>2 DEF Lease!Next
  <2>3. CASE /\ node[n].receiving # NoSession /\ node'[n].receiving = node[n].receiving
             /\ Anylock(node'[n]) = Anylock(node[n])
             /\ \E c \in Codes : node'[n].held \in {node[n].held \cup {c}, node[n].held \ {c}}
    <3>1. PICK c \in Codes : Lease(n)!Inject(c)
      BY <2>3 DEF Lease!Inject, Anylock
    <3> QED
      BY <3>1 DEF Lease!Next
  <2>4. CASE Leaves(node'[n]) /\ Anylock(node'[n]) \in BOOLEAN
    <3>1. Lease(n)!Settle
      BY <2>4 DEF Lease!Settle, Leaves, Anylock
    <3> QED
      BY <3>1 DEF Lease!Next
  <2> QED
    BY <1>2, <2>1, <2>2, <2>3, <2>4 DEF Eases
<1>3. IInv /\ [Next]_vars => \A n \in Nodes : Lease(n)!Next \/ UNCHANGED Lease(n)!vars
  BY <1>2, StepKept DEF Kept
<1>4. IInv /\ [Next]_vars => [\A n \in Nodes : Lease(n)!Next \/ UNCHANGED Lease(n)!vars]_vars
  BY <1>3
<1> QED
  BY <1>1, <1>4, Invariance, PTL DEF Spec, DesktopsLeased

-----------------------------------------------------------------------------
(* A session and the two ends of it.  The operators below are about values:  *)
(* s and r are the records of a sender and its receiver, q what is in flight *)
(* to the receiver and b what is in flight to the sender.                    *)

Neutral(m) == m.type \in {"LockState", "Desktop"}
Data(m)    == m.type \in {"Begin", "Input"}
Sends(s, k) == s.role = "Sending" /\ s.session = k
Gets(r, k)  == r.role = "Receiving" /\ r.session = k

\* Sessions are begun once each, with rising numbers, and before their inputs.
Numbered(s, r, q) ==
  /\ ~r.up => q = <<>>
  /\ s.role = "Sending" => s.session < s.next
  /\ r.role = "Receiving" => r.session < s.next
  /\ \A i \in DOMAIN q : Data(q[i]) => q[i].session < s.next
  /\ \A i, j \in DOMAIN q :
       q[i].type = "Begin" /\ Data(q[j]) /\ q[j].session = q[i].session => i <= j
  /\ \A i \in DOMAIN q : q[i].type = "Begin" => ~Gets(r, q[i].session)

\* The session k is being received, or will be.
Known(r, q, k) == Gets(r, k) \/ \E i \in DOMAIN q : q[i].type = "Begin" /\ q[i].session = k
FirstNumber(r, k) == IF Gets(r, k) THEN r.expected ELSE 0

\* The input before number x of session k is ahead of place i.
Before(q, k, x, i) ==
  \E j \in DOMAIN q : /\ q[j].type = "Input" /\ q[j].session = k
                      /\ q[j].sequence + 1 = x /\ j < i

\* The inputs in flight of a session rise without a gap, from the one the
\* receiver waits for to the one the sender will send next.
Sequenced(s, r, q) ==
  /\ \A i, j \in DOMAIN q :
       q[i].type = "Input" /\ q[j].type = "Input" /\ q[i].session = q[j].session /\ i < j
         => q[i].sequence < q[j].sequence
  /\ \A i \in DOMAIN q :
       q[i].type = "Input" /\ Sends(s, q[i].session) => q[i].sequence < s.sequence
  /\ \A i \in DOMAIN q :
       q[i].type = "Input" /\ Known(r, q, q[i].session) =>
         \/ q[i].sequence = FirstNumber(r, q[i].session)
         \/ Before(q, q[i].session, q[i].sequence, i)
  /\ s.role = "Sending" /\ Known(r, q, s.session) =>
       \/ s.sequence = FirstNumber(r, s.session)
       \/ Before(q, s.session, s.sequence, Len(q) + 1)

\* What the receiver holds, and the inputs in flight to it, make what the sender
\* has down.
HeldFor(r, k) == IF Gets(r, k) THEN r.held ELSE {}
Mirrored(s, r, q) ==
  s.role = "Sending" /\ Known(r, q, s.session)
    => s.source = ReplayedInputs(q, s.session, HeldFor(r, s.session))

\* A step of a sender that concerns no session, or ends its own.
KeepsSending(s, t) ==
  /\ t.next = s.next
  /\ t.role = "Sending" => /\ s.role = "Sending" /\ t.session = s.session
                           /\ t.sequence = s.sequence /\ t.source = s.source
KeepsReceiving(r, t) ==
  /\ t.up = r.up
  /\ t.role = "Receiving" => /\ r.role = "Receiving" /\ t.session = r.session
                             /\ t.expected = r.expected /\ t.held = r.held

Grows(q, out, u) ==
  /\ \A i \in DOMAIN q : i \in DOMAIN u /\ u[i] = q[i]
  /\ \A e \in DOMAIN out : Len(q) + e \in DOMAIN u /\ u[Len(q) + e] = out[e]
  /\ \A i \in DOMAIN u : i \in DOMAIN q \/ \E e \in DOMAIN out : i = Len(q) + e
  /\ Len(u) = Len(q) + Len(out)
Shrinks(q, u) ==
  /\ 1 \in DOMAIN q /\ q[1] = Head(q) /\ Len(q) = Len(u) + 1
  /\ \A i \in DOMAIN u : i + 1 \in DOMAIN q /\ u[i] = q[i + 1]
  /\ \A i \in DOMAIN q : i = 1 \/ (i - 1 \in DOMAIN u /\ u[i - 1] = q[i])

LEMMA GrowsIs ==
  ASSUME NEW q \in Seq(Wire), NEW out \in Seq(Wire)
  PROVE  q \o out \in Seq(Wire) /\ Grows(q, out, q \o out)
<1> DEFINE u == q \o out
<1>1. /\ u \in Seq(Wire) /\ Len(u) = Len(q) + Len(out)
      /\ DOMAIN q = 1..Len(q) /\ DOMAIN out = 1..Len(out) /\ DOMAIN u = 1..Len(u)
      /\ Len(q) \in Nat /\ Len(out) \in Nat
  OBVIOUS
<1>2. \A i \in 1..Len(u) : u[i] = IF i <= Len(q) THEN q[i] ELSE out[i - Len(q)]
  OBVIOUS
<1> HIDE DEF u
<1>3. \A i \in DOMAIN q : i \in DOMAIN u /\ u[i] = q[i]
  BY <1>1, <1>2
<1>4. \A e \in DOMAIN out : Len(q) + e \in DOMAIN u /\ u[Len(q) + e] = out[e]
  <2> TAKE e \in DOMAIN out
  <2>1. Len(q) + e \in 1..Len(u) /\ ~(Len(q) + e <= Len(q)) /\ Len(q) + e - Len(q) = e
    BY <1>1
  <2> QED
    BY <1>1, <1>2, <2>1
<1>5. \A i \in DOMAIN u : i \in DOMAIN q \/ \E e \in DOMAIN out : i = Len(q) + e
  <2> TAKE i \in DOMAIN u
  <2>1. i \in 1..Len(q) \/ (i - Len(q) \in 1..Len(out) /\ i = Len(q) + (i - Len(q)))
    BY <1>1
  <2> QED
    BY <1>1, <2>1
<1> QED
  BY <1>1, <1>3, <1>4, <1>5 DEF Grows, u

LEMMA ShrinksIs ==
  ASSUME NEW q \in Seq(Wire), q # <<>>
  PROVE  Tail(q) \in Seq(Wire) /\ Shrinks(q, Tail(q))
<1> DEFINE u == Tail(q)
<1>1. /\ u \in Seq(Wire) /\ Len(q) = Len(u) + 1 /\ Head(q) = q[1]
      /\ DOMAIN q = 1..Len(q) /\ DOMAIN u = 1..Len(u) /\ Len(u) \in Nat
  OBVIOUS
<1>2. \A i \in 1..Len(u) : u[i] = q[i + 1]
  OBVIOUS
<1> HIDE DEF u
<1>3. 1 \in DOMAIN q /\ \A i \in DOMAIN u : i + 1 \in DOMAIN q /\ u[i] = q[i + 1]
  BY <1>1, <1>2
<1>4. \A i \in DOMAIN q : i = 1 \/ (i - 1 \in DOMAIN u /\ u[i - 1] = q[i])
  <2> TAKE i \in DOMAIN q
  <2>1. i = 1 \/ (i - 1 \in 1..Len(u) /\ i - 1 + 1 = i)
    BY <1>1
  <2> QED
    BY <1>1, <1>2, <2>1
<1> QED
  BY <1>1, <1>3, <1>4 DEF Shrinks, u

LEMMA WireFields ==
  ASSUME NEW q \in Seq(Wire)
  PROVE  /\ DOMAIN q = 1..Len(q) /\ Len(q) \in Nat
         /\ \A i \in DOMAIN q :
              /\ i \in Nat /\ i >= 1 /\ i <= Len(q)
              /\ q[i] \in Wire
              /\ q[i].type \in {"Begin", "Input", "End", "LockState", "Desktop"}
              /\ q[i].type \in {"Begin", "Input", "End"} => q[i].session \in Nat
              /\ q[i].type = "Input" => /\ q[i].sequence \in Nat
                                        /\ q[i].event.code \in Codes
                                        /\ q[i].event.pressed \in BOOLEAN
<1>1. DOMAIN q = 1..Len(q) /\ Len(q) \in Nat /\ \A i \in DOMAIN q : q[i] \in Wire
  OBVIOUS
<1>2. \A m \in Wire :
         /\ m.type \in {"Begin", "Input", "End", "LockState", "Desktop"}
         /\ m.type \in {"Begin", "Input", "End"} => m.session \in Nat
         /\ m.type = "Input" => /\ m.sequence \in Nat
                                /\ m.event.code \in Codes
                                /\ m.event.pressed \in BOOLEAN
  BY DEF Wire, Begin, Input, End, LockState, Desktop, Key
<1> QED
  BY <1>1, <1>2

-----------------------------------------------------------------------------
(* Steps of the sender *)

\* It keeps its session or ends it, and sends nothing that belongs to one.
LEMMA SenderStill ==
  ASSUME NEW s \in Records, NEW t \in Records, NEW r \in Records, KeepsSending(s, t),
         NEW q \in Seq(Wire), NEW u \in Seq(Wire), NEW out \in Seq(Wire),
         u = q \/ (r.up /\ Grows(q, out, u)), \A e \in DOMAIN out : ~Data(out[e]),
         Numbered(s, r, q), Sequenced(s, r, q), Mirrored(s, r, q)
  PROVE  Numbered(t, r, u) /\ Sequenced(t, r, u) /\ Mirrored(t, r, u)
<1>1. /\ \A i \in DOMAIN q : i \in DOMAIN u /\ u[i] = q[i]
      /\ \A i \in DOMAIN u : Data(u[i]) => i \in DOMAIN q
      /\ ~r.up => u = q
      /\ Len(q) <= Len(u)
  BY WireFields DEF Grows
<1>2. \A k : Known(r, u, k) <=> Known(r, q, k)
  BY <1>1 DEF Known, Data
<1>3. \A k, x : \A i \in DOMAIN q : Before(q, k, x, i) => Before(u, k, x, i)
  BY <1>1 DEF Before
<1>4. Numbered(t, r, u)
  BY <1>1 DEF Numbered, KeepsSending, Data
<1>5. Sequenced(t, r, u)
  <2>1. \A i \in DOMAIN u : u[i].type = "Input" => i \in DOMAIN q /\ q[i] = u[i]
    BY <1>1 DEF Data
  <2>2. \A i, j \in DOMAIN u :
          u[i].type = "Input" /\ u[j].type = "Input" /\ u[i].session = u[j].session /\ i < j
            => u[i].sequence < u[j].sequence
    BY <2>1 DEF Sequenced
  <2>3. \A i \in DOMAIN u :
          u[i].type = "Input" /\ Sends(t, u[i].session) => u[i].sequence < t.sequence
    BY <2>1 DEF Sequenced, Sends, KeepsSending
  <2>4. \A i \in DOMAIN u :
          u[i].type = "Input" /\ Known(r, u, u[i].session) =>
            \/ u[i].sequence = FirstNumber(r, u[i].session)
            \/ Before(u, u[i].session, u[i].sequence, i)
    BY <1>2, <1>3, <2>1 DEF Sequenced
  <2>5. t.role = "Sending" /\ Known(r, u, t.session) =>
          \/ t.sequence = FirstNumber(r, t.session)
          \/ Before(u, t.session, t.sequence, Len(u) + 1)
    <3>1. \A k, x : Before(q, k, x, Len(q) + 1) => Before(u, k, x, Len(u) + 1)
      BY <1>1, WireFields DEF Before
    <3> QED
      BY <1>2, <3>1 DEF Sequenced, KeepsSending
  <2> QED
    BY <2>2, <2>3, <2>4, <2>5 DEF Sequenced
<1>6. \A k, h : ReplayedInputs(u, k, h) = ReplayedInputs(q, k, h)
  <2> TAKE k, h
  <2>1. \A c : \A i \in DOMAIN u : About(u[i], k, c) => i \in DOMAIN q
    BY <1>1 DEF About, Data
  <2> QED
    BY <1>1, <2>1 DEF ReplayedInputs
<1>7. Mirrored(t, r, u)
  BY <1>2, <1>6 DEF Mirrored, KeepsSending
<1> QED
  BY <1>4, <1>5, <1>7

\* It begins its next session, with a key down or not.
Opening(t, k, out) ==
  \/ out = <<Begin(k)>> /\ t.sequence = 0 /\ t.source = {}
  \/ \E c \in Codes : /\ out = <<Begin(k), Input(k, 0, Key(c, TRUE))>>
                      /\ t.sequence = 1 /\ t.source = {c}
SenderStarts(s, t, out) ==
  /\ s.role = "Local" /\ t.role = "Sending" /\ t.session = s.next
  /\ t.next = s.next + 1 /\ Opening(t, s.next, out)

LEMMA SenderStarting ==
  ASSUME NEW s \in Records, NEW t \in Records, NEW r \in Records,
         NEW q \in Seq(Wire), NEW u \in Seq(Wire), NEW out \in Seq(Wire),
         SenderStarts(s, t, out),
         (u = q /\ ~r.up) \/ (r.up /\ Grows(q, out, u)), r.up \/ r.role = "Local",
         Numbered(s, r, q), Sequenced(s, r, q), Mirrored(s, r, q)
  PROVE  Numbered(t, r, u) /\ Sequenced(t, r, u) /\ Mirrored(t, r, u)
<1> DEFINE k == s.next
<1>0. /\ k \in Nat /\ t.next = k + 1 /\ t.session = k /\ t.role = "Sending"
      /\ r.session \in Nat /\ r.up \in BOOLEAN
      /\ r.role = "Receiving" => r.session < k
      /\ \A i \in DOMAIN q : Data(q[i]) => q[i].session \in Nat /\ q[i].session < k
  BY WireFields DEF SenderStarts, Numbered, Records, Data
<1>1. CASE ~r.up
  <2>1. u = <<>> /\ q = <<>> /\ DOMAIN u = {} /\ r.role = "Local"
    <3>1. u = <<>> /\ q = <<>> /\ r.role = "Local"
      BY <1>1 DEF Numbered
    <3>2. DOMAIN u = 1..Len(u) /\ Len(u) = 0
      BY <3>1
    <3> QED
      BY <3>1, <3>2
  <2> QED
    BY <1>0, <2>1 DEF Numbered, Sequenced, Mirrored, Known, Gets
<1>2. CASE r.up
  <2> DEFINE L == Len(q)
  <2>1. /\ Grows(q, out, u) /\ L \in Nat /\ DOMAIN q = 1..L
        /\ \A i \in DOMAIN u : i \in Nat
        /\ \A i \in DOMAIN q : i <= L /\ i \in Nat
    BY <1>2, WireFields
  <2>2. /\ L + 1 \in DOMAIN u /\ u[L + 1] = Begin(k)
        /\ \/ /\ \A i \in DOMAIN u : i \in DOMAIN q \/ i = L + 1
              /\ Len(u) = L + 1 /\ t.sequence = 0 /\ t.source = {}
           \/ /\ \A i \in DOMAIN u : i \in DOMAIN q \/ i = L + 1 \/ i = L + 2
              /\ L + 2 \in DOMAIN u /\ Len(u) = L + 2 /\ t.sequence = 1
              /\ \E c \in Codes : u[L + 2] = Input(k, 0, Key(c, TRUE)) /\ t.source = {c}
    <3>1. CASE out = <<Begin(k)>> /\ t.sequence = 0 /\ t.source = {}
      <4>1. Len(out) = 1 /\ DOMAIN out = 1..1 /\ out[1] = Begin(k)
        BY <3>1
      <4>2. 1 \in DOMAIN out /\ \A e \in DOMAIN out : e = 1
        BY <4>1
      <4> QED
        BY <2>1, <3>1, <4>1, <4>2 DEF Grows
    <3>2. ASSUME NEW c \in Codes, out = <<Begin(k), Input(k, 0, Key(c, TRUE))>>,
                 t.sequence = 1, t.source = {c}
          PROVE  /\ L + 1 \in DOMAIN u /\ u[L + 1] = Begin(k)
                 /\ \A i \in DOMAIN u : i \in DOMAIN q \/ i = L + 1 \/ i = L + 2
                 /\ L + 2 \in DOMAIN u /\ Len(u) = L + 2
                 /\ u[L + 2] = Input(k, 0, Key(c, TRUE))
      <4>1. /\ Len(out) = 2 /\ DOMAIN out = 1..2
            /\ out[1] = Begin(k) /\ out[2] = Input(k, 0, Key(c, TRUE))
        BY <3>2
      <4>2. 1 \in DOMAIN out /\ 2 \in DOMAIN out /\ \A e \in DOMAIN out : e = 1 \/ e = 2
        BY <4>1
      <4> QED
        BY <2>1, <4>1, <4>2 DEF Grows
    <3> QED
      BY <3>1, <3>2 DEF SenderStarts, Opening
  <2>3. \A i \in DOMAIN q : i \in DOMAIN u /\ u[i] = q[i]
    BY <2>1 DEF Grows
  <2> HIDE DEF k, L
  <2>4. /\ L + 1 \in DOMAIN u /\ u[L + 1].type = "Begin" /\ u[L + 1].session = k
        /\ \A i \in DOMAIN u : i \in DOMAIN q \/ i = L + 1 \/ i = L + 2
        /\ L + 2 \in DOMAIN u =>
             /\ u[L + 2].type = "Input" /\ u[L + 2].session = k
             /\ u[L + 2].sequence = 0 /\ t.sequence = 1
        /\ t.sequence = 0 \/ (Len(u) = L + 2 /\ L + 2 \in DOMAIN u)
    <3>1. L + 2 # L + 1 /\ L + 2 \notin DOMAIN q
      BY <2>1
    <3>2. /\ Begin(k).type = "Begin" /\ Begin(k).session = k
          /\ \A c : /\ Input(k, 0, Key(c, TRUE)).type = "Input"
                   /\ Input(k, 0, Key(c, TRUE)).session = k
                   /\ Input(k, 0, Key(c, TRUE)).sequence = 0
      BY DEF Begin, Input
    <3>3. L + 2 \in DOMAIN u => /\ Len(u) = L + 2 /\ t.sequence = 1
                               /\ \E c \in Codes : u[L + 2] = Input(k, 0, Key(c, TRUE))
      BY <2>2, <3>1
    <3> QED
      BY <2>2, <3>2, <3>3
  <2>6. \A i \in DOMAIN u : /\ Data(u[i]) => u[i].session \in Nat
                            /\ i \in DOMAIN q /\ Data(u[i]) => u[i].session < k
                            /\ i \notin DOMAIN q => u[i].session = k /\ i > L
    BY <1>0, <2>1, <2>3, <2>4
  <2>7. Numbered(t, r, u)
    <3>1. \A i \in DOMAIN u : Data(u[i]) => u[i].session < t.next
      BY <1>0, <2>6
    <3>2. \A i, j \in DOMAIN u :
            u[i].type = "Begin" /\ Data(u[j]) /\ u[j].session = u[i].session => i <= j
      BY <1>0, <2>1, <2>3, <2>4, <2>6 DEF Numbered, Data
    <3>3. \A i \in DOMAIN u : u[i].type = "Begin" => ~Gets(r, u[i].session)
      BY <1>0, <2>3, <2>4 DEF Numbered, Gets
    <3> QED
      BY <1>0, <1>2, <3>1, <3>2, <3>3 DEF Numbered
  <2>8. /\ ~Gets(r, k) /\ FirstNumber(r, k) = 0 /\ HeldFor(r, k) = {}
        /\ \A j \in Nat : j # k => (Known(r, u, j) <=> Known(r, q, j))
    <3>1. ~Gets(r, k)
      BY <1>0 DEF Gets
    <3>2. \A j \in Nat : j # k => (Known(r, u, j) <=> Known(r, q, j))
      BY <2>3, <2>4 DEF Known
    <3> QED
      BY <3>1, <3>2 DEF FirstNumber, HeldFor
  <2>9. \A i \in DOMAIN u : u[i].type = "Input" =>
          \/ i \in DOMAIN q /\ q[i] = u[i] /\ u[i].session # k
          \/ i = L + 2 /\ u[i].sequence = 0 /\ u[i].session = k
    BY <1>0, <2>3, <2>4, <2>6 DEF Data
  <2>10. Sequenced(t, r, u)
    <3>1. \A i, j \in DOMAIN u :
            u[i].type = "Input" /\ u[j].type = "Input" /\ u[i].session = u[j].session /\ i < j
              => u[i].sequence < u[j].sequence
      BY <2>1, <2>9 DEF Sequenced
    <3>2. \A i \in DOMAIN u :
            u[i].type = "Input" /\ Sends(t, u[i].session) => u[i].sequence < t.sequence
      BY <1>0, <2>4, <2>9 DEF Sends
    <3>3. \A i \in DOMAIN u :
            u[i].type = "Input" /\ Known(r, u, u[i].session) =>
              \/ u[i].sequence = FirstNumber(r, u[i].session)
              \/ Before(u, u[i].session, u[i].sequence, i)
      <4>1. \A j, x : \A i \in DOMAIN q : Before(q, j, x, i) => Before(u, j, x, i)
        BY <2>3 DEF Before
      <4> QED
        BY <2>8, <2>9, <4>1, <2>6 DEF Sequenced, Data
    <3>4. t.role = "Sending" /\ Known(r, u, t.session) =>
            \/ t.sequence = FirstNumber(r, t.session)
            \/ Before(u, t.session, t.sequence, Len(u) + 1)
      <4>1. CASE t.sequence = 0
        BY <1>0, <2>8, <4>1
      <4>2. CASE L + 2 \in DOMAIN u /\ Len(u) = L + 2
        <5>1. L + 2 < Len(u) + 1 /\ 0 + 1 = 1
          BY <2>1, <4>2
        <5> QED
          BY <1>0, <2>4, <4>2, <5>1 DEF Before
      <4> QED
        BY <2>4, <4>1, <4>2
    <3> QED
      BY <3>1, <3>2, <3>3, <3>4 DEF Sequenced
  <2>11. Mirrored(t, r, u)
    <3>1. CASE t.source = {} /\ \A i \in DOMAIN u : i \in DOMAIN q \/ i = L + 1
      <4>1. \A c : \A i \in DOMAIN u : ~About(u[i], k, c)
        BY <2>1, <2>4, <2>9, <3>1 DEF About
      <4>2. ReplayedInputs(u, k, {}) = {}
        BY <4>1 DEF ReplayedInputs
      <4> QED
        BY <1>0, <2>8, <3>1, <4>2 DEF Mirrored
    <3>2. ASSUME NEW c \in Codes, L + 2 \in DOMAIN u,
                 u[L + 2] = Input(k, 0, Key(c, TRUE)), t.source = {c}
          PROVE  Mirrored(t, r, u)
      <4>2. /\ \A d : About(u[L + 2], k, d) <=> d = c
            /\ u[L + 2].event.pressed
        BY <3>2 DEF About, Input, Key
      <4>3. \A d : \A i \in DOMAIN u : About(u[i], k, d) => i = L + 2
        BY <2>9 DEF About
      <4>4. L + 2 <= L + 2
        BY <2>1
      <4>5. ReplayedInputs(u, k, {}) = {c}
        BY <3>2, <4>2, <4>3, <4>4 DEF ReplayedInputs
      <4> QED
        BY <1>0, <2>8, <3>2, <4>5 DEF Mirrored
    <3> QED
      BY <2>2, <3>1, <3>2
  <2> QED
    BY <2>7, <2>10, <2>11
<1> QED
  BY <1>1, <1>2

\* It sends the next input of its session.
SenderForwards(s, t, out) ==
  /\ s.role = "Sending" /\ t.role = "Sending" /\ t.session = s.session
  /\ t.next = s.next /\ t.sequence = s.sequence + 1
  /\ \E c \in Codes, p \in BOOLEAN :
       /\ out = <<Input(s.session, s.sequence, Key(c, p))>>
       /\ t.source = IF p THEN s.source \cup {c} ELSE s.source \ {c}

LEMMA SenderForwarding ==
  ASSUME NEW s \in Records, NEW t \in Records, NEW r \in Records,
         NEW q \in Seq(Wire), NEW u \in Seq(Wire), NEW out \in Seq(Wire),
         SenderForwards(s, t, out),
         (u = q /\ ~r.up) \/ (r.up /\ Grows(q, out, u)), r.up \/ r.role = "Local",
         Numbered(s, r, q), Sequenced(s, r, q), Mirrored(s, r, q)
  PROVE  Numbered(t, r, u) /\ Sequenced(t, r, u) /\ Mirrored(t, r, u)
<1> DEFINE k == s.session
           x == s.sequence
           L == Len(q)
<1>0. /\ k \in Nat /\ x \in Nat /\ t.sequence = x + 1 /\ t.session = k
      /\ t.role = "Sending" /\ s.role = "Sending" /\ t.next = s.next /\ s.next \in Nat
      /\ r.session \in Nat /\ r.expected \in Nat /\ s.session < s.next
      /\ DOMAIN q = 1..L /\ L \in Nat
  BY WireFields DEF SenderForwards, Numbered, Records
<1>1. CASE ~r.up
  <2>1. u = <<>> /\ q = <<>> /\ DOMAIN u = {} /\ r.role = "Local"
    <3>1. u = <<>> /\ q = <<>> /\ r.role = "Local"
      BY <1>1 DEF Numbered
    <3>2. DOMAIN u = 1..Len(u) /\ Len(u) = 0
      BY <3>1
    <3> QED
      BY <3>1, <3>2
  <2> QED
    BY <1>0, <2>1 DEF Numbered, Sequenced, Mirrored, Known, Gets
<1>2. CASE r.up
  <2>1. PICK c \in Codes, p \in BOOLEAN :
          /\ out = <<Input(s.session, s.sequence, Key(c, p))>>
          /\ t.source = IF p THEN s.source \cup {c} ELSE s.source \ {c}
    BY DEF SenderForwards
  <2>2. Len(out) = 1 /\ DOMAIN out = 1..1 /\ out[1] = Input(k, x, Key(c, p))
    BY <2>1
  <2>3. 1 \in DOMAIN out /\ \A e \in DOMAIN out : e = 1
    BY <2>2
  <2>4. /\ \A i \in DOMAIN q : i \in DOMAIN u /\ u[i] = q[i] /\ i <= L /\ i \in Nat
        /\ L + 1 \in DOMAIN u /\ u[L + 1] = Input(k, x, Key(c, p))
        /\ \A i \in DOMAIN u : i \in DOMAIN q \/ i = L + 1
        /\ Len(u) = L + 1
    BY <1>0, <1>2, <2>2, <2>3 DEF Grows
  <2> HIDE DEF k, x, L
  <2>5. /\ u[L + 1].type = "Input" /\ u[L + 1].session = k /\ u[L + 1].sequence = x
        /\ u[L + 1].event.code = c /\ u[L + 1].event.pressed = p
    BY <2>4 DEF Input, Key
  <2>6. \A i \in DOMAIN u : u[i].type = "Input" /\ u[i].session = k /\ i # L + 1 =>
          u[i].sequence < x /\ u[i].sequence \in Nat
    BY <1>0, <2>4, WireFields DEF Sequenced, Sends, k, x
  <2>7. \A j : Known(r, u, j) <=> Known(r, q, j)
    BY <2>4, <2>5 DEF Known
  <2>8. \A j, y : \A i \in DOMAIN q : Before(q, j, y, i) => Before(u, j, y, i)
    BY <2>4 DEF Before
  <2>9. Numbered(t, r, u)
    <3>1. \A i \in DOMAIN u : Data(u[i]) => u[i].session < t.next
      BY <1>0, <2>4, <2>5 DEF Numbered, k
    <3>2. \A i, j \in DOMAIN u :
            u[i].type = "Begin" /\ Data(u[j]) /\ u[j].session = u[i].session => i <= j
      <4> TAKE i, j \in DOMAIN u
      <4> HAVE u[i].type = "Begin" /\ Data(u[j]) /\ u[j].session = u[i].session
      <4>1. i \in DOMAIN q /\ q[i].type = "Begin"
        BY <2>4, <2>5
      <4>2. CASE j = L + 1
        BY <1>0, <2>4, <4>1, <4>2
      <4>3. CASE j \in DOMAIN q
        BY <2>4, <4>1, <4>3 DEF Numbered
      <4> QED
        BY <2>4, <4>2, <4>3
    <3>3. \A i \in DOMAIN u : u[i].type = "Begin" => ~Gets(r, u[i].session)
      BY <2>4, <2>5 DEF Numbered
    <3> QED
      BY <1>0, <1>2, <3>1, <3>2, <3>3 DEF Numbered, k
  <2>10. Sequenced(t, r, u)
    <3>1. \A i, j \in DOMAIN u :
            u[i].type = "Input" /\ u[j].type = "Input" /\ u[i].session = u[j].session /\ i < j
              => u[i].sequence < u[j].sequence
      <4> TAKE i, j \in DOMAIN u
      <4> HAVE u[i].type = "Input" /\ u[j].type = "Input" /\ u[i].session = u[j].session
               /\ i < j
      <4>1. i \in DOMAIN q
        BY <1>0, <2>4
      <4>2. CASE j = L + 1
        BY <1>0, <2>4, <2>5, <2>6, <4>2
      <4>3. CASE j \in DOMAIN q
        BY <2>4, <4>1, <4>3 DEF Sequenced
      <4> QED
        BY <2>4, <4>2, <4>3
    <3>2. \A i \in DOMAIN u :
            u[i].type = "Input" /\ Sends(t, u[i].session) => u[i].sequence < t.sequence
      BY <1>0, <2>5, <2>6 DEF Sends
    <3>3. \A i \in DOMAIN u :
            u[i].type = "Input" /\ Known(r, u, u[i].session) =>
              \/ u[i].sequence = FirstNumber(r, u[i].session)
              \/ Before(u, u[i].session, u[i].sequence, i)
      <4> TAKE i \in DOMAIN u
      <4> HAVE u[i].type = "Input" /\ Known(r, u, u[i].session)
      <4>1. CASE i \in DOMAIN q
        BY <2>4, <2>7, <2>8, <4>1 DEF Sequenced
      <4>2. CASE i = L + 1
        <5>1. x = FirstNumber(r, k) \/ Before(q, k, x, L + 1)
          BY <1>0, <2>5, <2>7, <4>2 DEF Sequenced, k, x, L
        <5>2. Before(q, k, x, L + 1) => Before(u, k, x, L + 1)
          BY <2>4 DEF Before
        <5> QED
          BY <2>5, <4>2, <5>1, <5>2
      <4> QED
        BY <2>4, <4>1, <4>2
    <3>4. Before(u, k, x + 1, Len(u) + 1)
      BY <1>0, <2>4, <2>5 DEF Before
    <3> QED
      BY <1>0, <3>1, <3>2, <3>3, <3>4 DEF Sequenced
  <2>11. Mirrored(t, r, u)
    <3> SUFFICES ASSUME Known(r, u, k)
                 PROVE  t.source = ReplayedInputs(u, k, HeldFor(r, k))
      BY <1>0 DEF Mirrored
    <3>1. s.source = ReplayedInputs(q, k, HeldFor(r, k)) /\ s.source \subseteq Codes
      BY <1>0, <2>7 DEF Mirrored, Records, k
    <3>2. /\ About(u[L + 1], k, c) /\ \A d : About(u[L + 1], k, d) => d = c
          /\ \A i \in DOMAIN u : i <= L + 1
      BY <1>0, <2>4, <2>5 DEF About
    <3>3. \A d \in Codes : d # c =>
            (d \in ReplayedInputs(u, k, HeldFor(r, k)) <=> d \in ReplayedInputs(q, k, HeldFor(r, k)))
      <4> TAKE d \in Codes
      <4> HAVE d # c
      <4>1. \A i \in DOMAIN u : About(u[i], k, d) => i \in DOMAIN q
        BY <2>4, <3>2
      <4> QED
        BY <2>4, <4>1 DEF ReplayedInputs
    <3>4. c \in ReplayedInputs(u, k, HeldFor(r, k)) <=> p
      <4>1. \A i \in DOMAIN u : i >= L + 1 => i = L + 1
        BY <1>0, <2>4
      <4>2. ASSUME NEW i \in DOMAIN u, \A j \in DOMAIN u : About(u[j], k, c) => j <= i
            PROVE  i = L + 1
        BY <1>0, <2>4, <3>2, <4>1, <4>2
      <4> QED
        BY <2>4, <2>5, <3>2, <4>2 DEF ReplayedInputs
    <3>5. ReplayedInputs(u, k, HeldFor(r, k)) \subseteq Codes
      BY DEF ReplayedInputs
    <3> QED
      BY <2>1, <3>1, <3>3, <3>4, <3>5
  <2> QED
    BY <2>9, <2>10, <2>11
<1> QED
  BY <1>1, <1>2

-----------------------------------------------------------------------------
(* Inputs that are applied *)

\* The first message decides nothing about a code that it is not about, nor about
\* one that a later message is about.
LEMMA ReplayedFirst ==
  ASSUME NEW q \in Seq(Wire), NEW u \in Seq(Wire), Shrinks(q, u), NEW k, NEW c
  PROVE  /\ \A g, h : (c \in g <=> c \in h) /\ ~About(q[1], k, c)
              => (c \in ReplayedInputs(u, k, g) <=> c \in ReplayedInputs(q, k, h))
         /\ \A g, h : About(q[1], k, c) /\ (c \in g <=> q[1].event.pressed)
              => (c \in ReplayedInputs(u, k, g) <=> c \in ReplayedInputs(q, k, h))
<1>1. /\ 1 \in DOMAIN q
      /\ \A i \in DOMAIN u : i + 1 \in DOMAIN q /\ u[i] = q[i + 1] /\ i \in Nat /\ i >= 1
      /\ \A i \in DOMAIN q : /\ i \in Nat
                             /\ i = 1 \/ (i - 1 \in DOMAIN u /\ u[i - 1] = q[i])
  BY WireFields DEF Shrinks
<1> DEFINE Decides(v, i) == /\ About(v[i], k, c) /\ v[i].event.pressed
                            /\ \A j \in DOMAIN v : About(v[j], k, c) => j <= i
           Silent(v) == \A j \in DOMAIN v : ~About(v[j], k, c)
<1>2. \A v, h : c \in ReplayedInputs(v, k, h)
                  <=> c \in Codes /\ \/ \E i \in DOMAIN v : Decides(v, i)
                                     \/ c \in h /\ Silent(v)
  BY DEF ReplayedInputs
<1>3. ASSUME NEW i \in DOMAIN u, Decides(u, i)
      PROVE  i + 1 \in DOMAIN q /\ Decides(q, i + 1)
  BY <1>1, <1>3
<1>4. ASSUME NEW i \in DOMAIN q, Decides(q, i), i # 1
      PROVE  i - 1 \in DOMAIN u /\ Decides(u, i - 1)
  <2>1. i - 1 \in DOMAIN u /\ u[i - 1] = q[i]
    BY <1>1, <1>4
  <2>2. \A j \in DOMAIN u : About(u[j], k, c) => j <= i - 1
    <3> TAKE j \in DOMAIN u
    <3> HAVE About(u[j], k, c)
    <3>1. j + 1 <= i
      BY <1>1, <1>4
    <3> QED
      BY <1>1, <3>1
  <2> QED
    BY <1>4, <2>1, <2>2
<1>5. Silent(q) <=> Silent(u) /\ ~About(q[1], k, c)
  BY <1>1
<1>6. Decides(q, 1) => Silent(u)
  <2> SUFFICES ASSUME Decides(q, 1), NEW j \in DOMAIN u, About(u[j], k, c)
               PROVE  FALSE
    OBVIOUS
  <2>1. j + 1 <= 1
    BY <1>1
  <2> QED
    BY <1>1, <2>1
<1>7. About(q[1], k, c) /\ q[1].event.pressed /\ Silent(u) => Decides(q, 1)
  <2> SUFFICES ASSUME Silent(u), NEW j \in DOMAIN q, About(q[j], k, c)
               PROVE  j <= 1
    OBVIOUS
  <2> QED
    BY <1>1
<1>8. Decides(q, 1) => About(q[1], k, c) /\ q[1].event.pressed
  OBVIOUS
<1> HIDE DEF Decides, Silent
<1>9. ASSUME NEW g, NEW h, c \in g <=> c \in h, ~About(q[1], k, c)
      PROVE  c \in ReplayedInputs(u, k, g) <=> c \in ReplayedInputs(q, k, h)
  BY <1>2, <1>3, <1>4, <1>5, <1>8, <1>9
<1>10. ASSUME NEW g, NEW h, About(q[1], k, c), c \in g <=> q[1].event.pressed
       PROVE  c \in ReplayedInputs(u, k, g) <=> c \in ReplayedInputs(q, k, h)
  BY <1>1, <1>2, <1>3, <1>4, <1>5, <1>6, <1>7, <1>8, <1>10
<1> QED
  BY <1>9, <1>10

LEMMA ReplayedTail ==
  ASSUME NEW q \in Seq(Wire), NEW u \in Seq(Wire), Shrinks(q, u), NEW k,
         \A c : ~About(q[1], k, c), NEW h
  PROVE  ReplayedInputs(u, k, h) = ReplayedInputs(q, k, h)
<1>1. \A c \in Codes : c \in ReplayedInputs(u, k, h) <=> c \in ReplayedInputs(q, k, h)
  BY ReplayedFirst
<1> QED
  BY <1>1 DEF ReplayedInputs

LEMMA ReplayedHead ==
  ASSUME NEW q \in Seq(Wire), NEW u \in Seq(Wire), Shrinks(q, u), NEW k,
         q[1].type = "Input", q[1].session = k, NEW h, NEW g,
         g = IF q[1].event.pressed THEN h \cup {q[1].event.code}
             ELSE h \ {q[1].event.code}
  PROVE  ReplayedInputs(u, k, g) = ReplayedInputs(q, k, h)
<1>1. ASSUME NEW c \in Codes
      PROVE  c \in ReplayedInputs(u, k, g) <=> c \in ReplayedInputs(q, k, h)
  <2>1. CASE c = q[1].event.code
    <3>1. About(q[1], k, c) /\ (c \in g <=> q[1].event.pressed)
      BY <2>1 DEF About
    <3> QED
      BY <3>1, ReplayedFirst
  <2>2. CASE c # q[1].event.code
    <3>1. ~About(q[1], k, c) /\ (c \in g <=> c \in h)
      BY <2>2 DEF About
    <3> QED
      BY <3>1, ReplayedFirst
  <2> QED
    BY <2>1, <2>2
<1> QED
  BY <1>1 DEF ReplayedInputs

-----------------------------------------------------------------------------
(* Steps of the receiver *)

\* It keeps its session or ends it, and takes at most what is not for it.
LEMMA ReceiverStill ==
  ASSUME NEW s \in Records, NEW r \in Records, NEW t \in Records, KeepsReceiving(r, t),
         NEW q \in Seq(Wire), NEW u \in Seq(Wire),
         \/ u = q
         \/ Shrinks(q, u) /\ (Head(q).type = "Input" => ~Gets(t, Head(q).session)),
         Numbered(s, r, q), Sequenced(s, r, q), Mirrored(s, r, q), r.up
  PROVE  Numbered(s, t, u) /\ Sequenced(s, t, u) /\ Mirrored(s, t, u)
<1>0. /\ \A k : Gets(t, k) => Gets(r, k) /\ t.expected = r.expected /\ t.held = r.held
      /\ t.role = "Receiving" => r.role = "Receiving" /\ t.session = r.session
      /\ t.up = r.up
  BY DEF KeepsReceiving, Gets
<1>1. CASE u = q
  <2>1. \A k : Known(t, q, k) => Known(r, q, k)
    BY <1>0 DEF Known
  <2>2. \A k : Known(t, q, k) => FirstNumber(t, k) = FirstNumber(r, k)
                                 /\ HeldFor(t, k) = HeldFor(r, k)
    <3> SUFFICES ASSUME NEW k, Known(t, q, k)
                 PROVE  FirstNumber(t, k) = FirstNumber(r, k) /\ HeldFor(t, k) = HeldFor(r, k)
      OBVIOUS
    <3>1. CASE Gets(t, k)
      BY <1>0, <3>1 DEF FirstNumber, HeldFor
    <3>2. CASE ~Gets(t, k)
      <4>1. ~Gets(r, k)
        BY <3>2 DEF Known, Numbered
      <4> QED
        BY <3>2, <4>1 DEF FirstNumber, HeldFor
    <3> QED
      BY <3>1, <3>2
  <2>3. Numbered(s, t, q)
    BY <1>0 DEF Numbered, Gets
  <2>4. Sequenced(s, t, q)
    BY <2>1, <2>2 DEF Sequenced
  <2>5. Mirrored(s, t, q)
    BY <2>1, <2>2 DEF Mirrored
  <2> QED
    BY <1>1, <2>3, <2>4, <2>5
<1>2. CASE Shrinks(q, u) /\ (Head(q).type = "Input" => ~Gets(t, Head(q).session))
  <2>1. /\ 1 \in DOMAIN q /\ Len(q) = Len(u) + 1
        /\ \A i \in DOMAIN u : i + 1 \in DOMAIN q /\ u[i] = q[i + 1] /\ i \in Nat /\ i >= 1
        /\ \A i \in DOMAIN q : /\ i \in Nat
                               /\ i = 1 \/ (i - 1 \in DOMAIN u /\ u[i - 1] = q[i])
        /\ q[1].type = "Input" => ~Gets(t, q[1].session)
        /\ Len(u) \in Nat
    BY <1>2, WireFields DEF Shrinks
  <2>2. \A k : Known(t, u, k) => /\ Known(r, q, k)
                                 /\ ~(q[1].type = "Input" /\ q[1].session = k)
    <3> SUFFICES ASSUME NEW k, Known(t, u, k)
                 PROVE  Known(r, q, k) /\ ~(q[1].type = "Input" /\ q[1].session = k)
      OBVIOUS
    <3>1. CASE Gets(t, k)
      BY <1>0, <2>1, <3>1 DEF Known, Gets
    <3>2. ASSUME NEW i \in DOMAIN u, u[i].type = "Begin", u[i].session = k
          PROVE  Known(r, q, k) /\ ~(q[1].type = "Input" /\ q[1].session = k)
      <4>1. i + 1 \in DOMAIN q /\ q[i + 1].type = "Begin" /\ q[i + 1].session = k
        BY <2>1, <3>2
      <4>2. i + 1 > 1
        BY <2>1
      <4> QED
        BY <2>1, <4>1, <4>2 DEF Known, Numbered, Data
    <3> QED
      BY <3>1, <3>2 DEF Known
  <2>3. \A k : Known(t, u, k) => FirstNumber(t, k) = FirstNumber(r, k)
                                 /\ HeldFor(t, k) = HeldFor(r, k)
    <3> SUFFICES ASSUME NEW k, Known(t, u, k)
                 PROVE  FirstNumber(t, k) = FirstNumber(r, k) /\ HeldFor(t, k) = HeldFor(r, k)
      OBVIOUS
    <3>1. CASE Gets(t, k)
      BY <1>0, <3>1 DEF FirstNumber, HeldFor
    <3>2. CASE ~Gets(t, k)
      <4>1. \E i \in DOMAIN q : q[i].type = "Begin" /\ q[i].session = k
        BY <2>1, <3>2 DEF Known
      <4>2. ~Gets(r, k)
        BY <4>1 DEF Numbered
      <4> QED
        BY <3>2, <4>2 DEF FirstNumber, HeldFor
    <3> QED
      BY <3>1, <3>2
  <2>4. Numbered(s, t, u)
    <3>1. \A i \in DOMAIN u : Data(u[i]) => u[i].session < s.next
      BY <2>1 DEF Numbered
    <3>2. \A i, j \in DOMAIN u :
            u[i].type = "Begin" /\ Data(u[j]) /\ u[j].session = u[i].session => i <= j
      <4> TAKE i, j \in DOMAIN u
      <4> HAVE u[i].type = "Begin" /\ Data(u[j]) /\ u[j].session = u[i].session
      <4>1. i + 1 <= j + 1
        BY <2>1 DEF Numbered
      <4> QED
        BY <2>1, <4>1
    <3>3. \A i \in DOMAIN u : u[i].type = "Begin" => ~Gets(t, u[i].session)
      BY <1>0, <2>1 DEF Numbered
    <3> QED
      BY <1>0, <3>1, <3>2, <3>3 DEF Numbered
  <2>5. Sequenced(s, t, u)
    <3>1. \A i, j \in DOMAIN u :
            u[i].type = "Input" /\ u[j].type = "Input" /\ u[i].session = u[j].session /\ i < j
              => u[i].sequence < u[j].sequence
      <4> TAKE i, j \in DOMAIN u
      <4> HAVE u[i].type = "Input" /\ u[j].type = "Input" /\ u[i].session = u[j].session
               /\ i < j
      <4>1. i + 1 < j + 1
        BY <2>1
      <4> QED
        BY <2>1, <4>1 DEF Sequenced
    <3>2. \A i \in DOMAIN u :
            u[i].type = "Input" /\ Sends(s, u[i].session) => u[i].sequence < s.sequence
      BY <2>1 DEF Sequenced
    <3>3. ASSUME NEW k, Known(t, u, k), NEW x, NEW i \in Nat, Before(q, k, x, i + 1)
          PROVE  Before(u, k, x, i)
      <4>1. PICK j \in DOMAIN q : /\ q[j].type = "Input" /\ q[j].session = k
                                  /\ q[j].sequence + 1 = x /\ j < i + 1
        BY <3>3 DEF Before
      <4>2. j # 1
        BY <2>2, <3>3, <4>1
      <4>3. j - 1 \in DOMAIN u /\ u[j - 1] = q[j] /\ j - 1 < i
        BY <2>1, <4>1, <4>2
      <4> QED
        BY <4>1, <4>3 DEF Before
    <3>4. \A i \in DOMAIN u :
            u[i].type = "Input" /\ Known(t, u, u[i].session) =>
              \/ u[i].sequence = FirstNumber(t, u[i].session)
              \/ Before(u, u[i].session, u[i].sequence, i)
      <4> TAKE i \in DOMAIN u
      <4> HAVE u[i].type = "Input" /\ Known(t, u, u[i].session)
      <4>1. i + 1 \in DOMAIN q /\ u[i] = q[i + 1] /\ i \in Nat
        BY <2>1
      <4>2. \/ u[i].sequence = FirstNumber(r, u[i].session)
            \/ Before(q, u[i].session, u[i].sequence, i + 1)
        BY <2>2, <4>1 DEF Sequenced
      <4> QED
        BY <2>3, <3>3, <4>1, <4>2
    <3>5. s.role = "Sending" /\ Known(t, u, s.session) =>
            \/ s.sequence = FirstNumber(t, s.session)
            \/ Before(u, s.session, s.sequence, Len(u) + 1)
      BY <2>1, <2>2, <2>3, <3>3 DEF Sequenced
    <3> QED
      BY <3>1, <3>2, <3>4, <3>5 DEF Sequenced
  <2>6. Mirrored(s, t, u)
    <3> DEFINE k == s.session
               h == HeldFor(r, k)
    <3> SUFFICES ASSUME s.role = "Sending", Known(t, u, k)
                 PROVE  ReplayedInputs(u, k, h) = ReplayedInputs(q, k, h)
      BY <2>2, <2>3 DEF Mirrored
    <3>1. \A c : ~About(q[1], k, c)
      BY <2>2 DEF About
    <3> QED
      BY <1>2, <3>1, ReplayedTail
  <2> QED
    BY <2>4, <2>5, <2>6
<1> QED
  BY <1>1, <1>2

\* It begins to receive the session at the head of what is in flight.
LEMMA ReceiverAccepting ==
  ASSUME NEW s \in Records, NEW r \in Records, NEW t \in Records,
         NEW q \in Seq(Wire), NEW u \in Seq(Wire), Shrinks(q, u),
         Head(q).type = "Begin", r.role # "Receiving", t.role = "Receiving",
         t.session = Head(q).session, t.expected = 0, t.held = {}, t.up = r.up, r.up,
         Numbered(s, r, q), Sequenced(s, r, q), Mirrored(s, r, q)
  PROVE  Numbered(s, t, u) /\ Sequenced(s, t, u) /\ Mirrored(s, t, u)
<1> DEFINE k == t.session
<1>1. /\ 1 \in DOMAIN q /\ Len(q) = Len(u) + 1
      /\ \A i \in DOMAIN u : i + 1 \in DOMAIN q /\ u[i] = q[i + 1] /\ i \in Nat /\ i >= 1
      /\ \A i \in DOMAIN q : /\ i \in Nat
                             /\ i = 1 \/ (i - 1 \in DOMAIN u /\ u[i - 1] = q[i])
      /\ q[1].type = "Begin" /\ q[1].session = k
      /\ Len(u) \in Nat
  BY WireFields DEF Shrinks
<1>2. \A i \in DOMAIN u : ~(u[i].type = "Begin" /\ u[i].session = k)
  <2> SUFFICES ASSUME NEW i \in DOMAIN u, u[i].type = "Begin", u[i].session = k
               PROVE  FALSE
    OBVIOUS
  <2>1. i + 1 <= 1
    BY <1>1 DEF Numbered, Data
  <2> QED
    BY <1>1, <2>1
<1>3. \A j : Known(t, u, j) <=> Known(r, q, j)
  <2> TAKE j
  <2>1. Gets(t, j) <=> j = k
    BY DEF Gets
  <2>2. ~Gets(r, j)
    BY DEF Gets
  <2>3. \A i \in DOMAIN q : q[i].type = "Begin" /\ q[i].session = j =>
          j = k \/ \E l \in DOMAIN u : u[l].type = "Begin" /\ u[l].session = j
    <3> TAKE i \in DOMAIN q
    <3>1. i = 1 \/ (i - 1 \in DOMAIN u /\ u[i - 1] = q[i])
      BY <1>1
    <3> QED
      BY <1>1, <3>1
  <2>4. \A l \in DOMAIN u : l + 1 \in DOMAIN q /\ u[l] = q[l + 1]
    BY <1>1
  <2> QED
    BY <1>1, <2>1, <2>2, <2>3, <2>4 DEF Known
<1>4. \A j : FirstNumber(t, j) = FirstNumber(r, j) /\ HeldFor(t, j) = HeldFor(r, j)
  BY DEF FirstNumber, HeldFor, Gets
<1>5. ASSUME NEW j, NEW x, NEW i \in Nat, Before(q, j, x, i + 1)
      PROVE  Before(u, j, x, i)
  <2>1. PICK l \in DOMAIN q : /\ q[l].type = "Input" /\ q[l].session = j
                              /\ q[l].sequence + 1 = x /\ l < i + 1
    BY <1>5 DEF Before
  <2>2. l - 1 \in DOMAIN u /\ u[l - 1] = q[l] /\ l - 1 < i
    BY <1>1, <2>1
  <2> QED
    BY <2>1, <2>2 DEF Before
<1> HIDE DEF k
<1>6. Numbered(s, t, u)
  <2>1. \A i \in DOMAIN u : Data(u[i]) => u[i].session < s.next
    BY <1>1 DEF Numbered
  <2>2. t.session < s.next
    BY <1>1 DEF Numbered, Data, k
  <2>3. \A i, j \in DOMAIN u :
          u[i].type = "Begin" /\ Data(u[j]) /\ u[j].session = u[i].session => i <= j
    <3> TAKE i, j \in DOMAIN u
    <3> HAVE u[i].type = "Begin" /\ Data(u[j]) /\ u[j].session = u[i].session
    <3>1. i + 1 <= j + 1
      BY <1>1 DEF Numbered
    <3> QED
      BY <1>1, <3>1
  <2>4. \A i \in DOMAIN u : u[i].type = "Begin" => ~Gets(t, u[i].session)
    BY <1>2 DEF Gets, k
  <2> QED
    BY <2>1, <2>2, <2>3, <2>4 DEF Numbered
<1>7. Sequenced(s, t, u)
  <2>1. \A i, j \in DOMAIN u :
          u[i].type = "Input" /\ u[j].type = "Input" /\ u[i].session = u[j].session /\ i < j
            => u[i].sequence < u[j].sequence
    <3> TAKE i, j \in DOMAIN u
    <3> HAVE u[i].type = "Input" /\ u[j].type = "Input" /\ u[i].session = u[j].session
             /\ i < j
    <3>1. /\ i + 1 \in DOMAIN q /\ u[i] = q[i + 1]
          /\ j + 1 \in DOMAIN q /\ u[j] = q[j + 1] /\ i + 1 < j + 1
      BY <1>1
    <3> QED
      BY <3>1 DEF Sequenced
  <2>2. \A i \in DOMAIN u :
          u[i].type = "Input" /\ Sends(s, u[i].session) => u[i].sequence < s.sequence
    BY <1>1 DEF Sequenced
  <2>3. \A i \in DOMAIN u :
          u[i].type = "Input" /\ Known(t, u, u[i].session) =>
            \/ u[i].sequence = FirstNumber(t, u[i].session)
            \/ Before(u, u[i].session, u[i].sequence, i)
    <3> TAKE i \in DOMAIN u
    <3> HAVE u[i].type = "Input" /\ Known(t, u, u[i].session)
    <3>1. i + 1 \in DOMAIN q /\ u[i] = q[i + 1] /\ i \in Nat
      BY <1>1
    <3>2. \/ u[i].sequence = FirstNumber(r, u[i].session)
          \/ Before(q, u[i].session, u[i].sequence, i + 1)
      BY <1>3, <3>1 DEF Sequenced
    <3> QED
      BY <1>4, <1>5, <3>1, <3>2
  <2>4. s.role = "Sending" /\ Known(t, u, s.session) =>
          \/ s.sequence = FirstNumber(t, s.session)
          \/ Before(u, s.session, s.sequence, Len(u) + 1)
    BY <1>1, <1>3, <1>4, <1>5 DEF Sequenced
  <2> QED
    BY <2>1, <2>2, <2>3, <2>4 DEF Sequenced
<1>8. \A j, h : ReplayedInputs(u, j, h) = ReplayedInputs(q, j, h)
  BY <1>1, ReplayedTail DEF About
<1>9. Mirrored(s, t, u)
  BY <1>3, <1>4, <1>8 DEF Mirrored
<1> QED
  BY <1>6, <1>7, <1>9

\* It injects the input at the head of what is in flight, which it waits for.
LEMMA ReceiverInjecting ==
  ASSUME NEW s \in Records, NEW r \in Records, NEW t \in Records,
         NEW q \in Seq(Wire), NEW u \in Seq(Wire), Shrinks(q, u),
         Head(q).type = "Input", Gets(r, Head(q).session), r.expected = Head(q).sequence,
         t.role = "Receiving", t.session = r.session, t.expected = r.expected + 1,
         t.held = IF Head(q).event.pressed THEN r.held \cup {Head(q).event.code}
                  ELSE r.held \ {Head(q).event.code},
         t.up = r.up, r.up,
         Numbered(s, r, q), Sequenced(s, r, q), Mirrored(s, r, q)
  PROVE  Numbered(s, t, u) /\ Sequenced(s, t, u) /\ Mirrored(s, t, u)
<1> DEFINE k == r.session
           x == r.expected
           e == q[1].event
<1>1. /\ 1 \in DOMAIN q /\ Len(q) = Len(u) + 1
      /\ \A i \in DOMAIN u : i + 1 \in DOMAIN q /\ u[i] = q[i + 1] /\ i \in Nat /\ i >= 1
      /\ \A i \in DOMAIN q : /\ i \in Nat
                             /\ i = 1 \/ (i - 1 \in DOMAIN u /\ u[i - 1] = q[i])
      /\ q[1].type = "Input" /\ q[1].session = k /\ q[1].sequence = x
      /\ e.code \in Codes /\ e.pressed \in BOOLEAN
      /\ t.held = IF e.pressed THEN r.held \cup {e.code} ELSE r.held \ {e.code}
      /\ Len(u) \in Nat /\ x \in Nat
  BY WireFields DEF Shrinks, Gets, Records
<1>2. \A j : (Gets(t, j) <=> j = k) /\ (Gets(r, j) <=> j = k)
  BY DEF Gets
<1>3. \A j : Known(t, u, j) <=> Known(r, q, j)
  <2> TAKE j
  <2>1. \A i \in DOMAIN q : q[i].type = "Begin" /\ q[i].session = j =>
          \E l \in DOMAIN u : u[l].type = "Begin" /\ u[l].session = j
    <3> TAKE i \in DOMAIN q
    <3>1. i = 1 \/ (i - 1 \in DOMAIN u /\ u[i - 1] = q[i])
      BY <1>1
    <3> QED
      BY <1>1, <3>1
  <2>2. \A l \in DOMAIN u : l + 1 \in DOMAIN q /\ u[l] = q[l + 1]
    BY <1>1
  <2> QED
    BY <1>2, <2>1, <2>2 DEF Known
<1>4. \A j : j # k => FirstNumber(t, j) = FirstNumber(r, j) /\ HeldFor(t, j) = HeldFor(r, j)
  BY <1>2 DEF FirstNumber, HeldFor
<1>5. /\ FirstNumber(r, k) = x /\ FirstNumber(t, k) = x + 1
      /\ HeldFor(r, k) = r.held /\ HeldFor(t, k) = t.held
  BY <1>2 DEF FirstNumber, HeldFor
<1>6. \A j, y : \A i \in Nat : Before(q, j, y, i + 1)
                  => Before(u, j, y, i) \/ (j = k /\ y = x + 1)
  <2> SUFFICES ASSUME NEW j, NEW y, NEW i \in Nat, Before(q, j, y, i + 1),
                      ~(j = k /\ y = x + 1)
               PROVE  Before(u, j, y, i)
    OBVIOUS
  <2>1. PICK l \in DOMAIN q : /\ q[l].type = "Input" /\ q[l].session = j
                              /\ q[l].sequence + 1 = y /\ l < i + 1
    BY DEF Before
  <2>2. l # 1
    BY <1>1, <2>1
  <2>3. l - 1 \in DOMAIN u /\ u[l - 1] = q[l] /\ l - 1 < i
    BY <1>1, <2>1, <2>2
  <2> QED
    BY <2>1, <2>3 DEF Before
<1>7. Numbered(s, t, u)
  <2>1. \A i \in DOMAIN u : Data(u[i]) => u[i].session < s.next
    BY <1>1 DEF Numbered
  <2>2. \A i, j \in DOMAIN u :
          u[i].type = "Begin" /\ Data(u[j]) /\ u[j].session = u[i].session => i <= j
    <3> TAKE i, j \in DOMAIN u
    <3> HAVE u[i].type = "Begin" /\ Data(u[j]) /\ u[j].session = u[i].session
    <3>1. i + 1 <= j + 1
      BY <1>1 DEF Numbered
    <3> QED
      BY <1>1, <3>1
  <2>3. \A i \in DOMAIN u : u[i].type = "Begin" => ~Gets(t, u[i].session)
    BY <1>1, <1>2 DEF Numbered
  <2>4. t.session < s.next
    BY DEF Numbered, Gets
  <2> QED
    BY <2>1, <2>2, <2>3, <2>4 DEF Numbered
<1> HIDE DEF k, x, e
<1>8. Sequenced(s, t, u)
  <2>1. \A i, j \in DOMAIN u :
          u[i].type = "Input" /\ u[j].type = "Input" /\ u[i].session = u[j].session /\ i < j
            => u[i].sequence < u[j].sequence
    <3> TAKE i, j \in DOMAIN u
    <3> HAVE u[i].type = "Input" /\ u[j].type = "Input" /\ u[i].session = u[j].session
             /\ i < j
    <3>1. /\ i + 1 \in DOMAIN q /\ u[i] = q[i + 1]
          /\ j + 1 \in DOMAIN q /\ u[j] = q[j + 1] /\ i + 1 < j + 1
      BY <1>1
    <3> QED
      BY <3>1 DEF Sequenced
  <2>2. \A i \in DOMAIN u :
          u[i].type = "Input" /\ Sends(s, u[i].session) => u[i].sequence < s.sequence
    BY <1>1 DEF Sequenced
  <2>3. \A i \in DOMAIN u :
          u[i].type = "Input" /\ Known(t, u, u[i].session) =>
            \/ u[i].sequence = FirstNumber(t, u[i].session)
            \/ Before(u, u[i].session, u[i].sequence, i)
    <3> TAKE i \in DOMAIN u
    <3> HAVE u[i].type = "Input" /\ Known(t, u, u[i].session)
    <3>1. i + 1 \in DOMAIN q /\ u[i] = q[i + 1] /\ i \in Nat /\ 1 < i + 1
      BY <1>1
    <3>2. \/ u[i].sequence = FirstNumber(r, u[i].session)
          \/ Before(q, u[i].session, u[i].sequence, i + 1)
      BY <1>3, <3>1 DEF Sequenced
    <3>3. u[i].session = k => u[i].sequence # x
      BY <1>1, <3>1 DEF Sequenced
    <3> QED
      BY <1>4, <1>5, <1>6, <3>1, <3>2, <3>3
  <2>4. s.role = "Sending" /\ Known(t, u, s.session) =>
          \/ s.sequence = FirstNumber(t, s.session)
          \/ Before(u, s.session, s.sequence, Len(u) + 1)
    <3> SUFFICES ASSUME s.role = "Sending", Known(t, u, s.session)
                 PROVE  \/ s.sequence = FirstNumber(t, s.session)
                        \/ Before(u, s.session, s.sequence, Len(u) + 1)
      OBVIOUS
    <3>1. \/ s.sequence = FirstNumber(r, s.session)
          \/ Before(q, s.session, s.sequence, Len(u) + 1 + 1)
      BY <1>1, <1>3 DEF Sequenced
    <3>2. s.session = k => s.sequence # x
      <4>1. s.session = k => x < s.sequence
        BY <1>1 DEF Sequenced, Sends
      <4>2. s.sequence \in Nat
        BY DEF Records
      <4> QED
        BY <1>1, <4>1, <4>2
    <3>3. Len(u) + 1 \in Nat
      BY <1>1
    <3> QED
      BY <1>4, <1>5, <1>6, <3>1, <3>2, <3>3
  <2> QED
    BY <2>1, <2>2, <2>3, <2>4 DEF Sequenced
<1>9. \A j, h : j # k => ReplayedInputs(u, j, h) = ReplayedInputs(q, j, h)
  BY <1>1, ReplayedTail DEF About
<1>10. ReplayedInputs(u, k, t.held) = ReplayedInputs(q, k, r.held)
  <2>1. /\ q[1].type = "Input" /\ q[1].session = k
        /\ t.held = IF q[1].event.pressed THEN r.held \cup {q[1].event.code}
                    ELSE r.held \ {q[1].event.code}
    BY <1>1 DEF e
  <2> QED
    BY <2>1, ReplayedHead
<1>11. Mirrored(s, t, u)
  <2> SUFFICES ASSUME s.role = "Sending", Known(t, u, s.session)
               PROVE  s.source = ReplayedInputs(u, s.session, HeldFor(t, s.session))
    BY DEF Mirrored
  <2>1. s.source = ReplayedInputs(q, s.session, HeldFor(r, s.session))
    BY <1>3 DEF Mirrored
  <2>2. CASE s.session = k
    BY <1>5, <1>10, <2>1, <2>2
  <2>3. CASE s.session # k
    BY <1>4, <1>9, <2>1, <2>3
  <2> QED
    BY <2>2, <2>3
<1> QED
  BY <1>7, <1>8, <1>11

\* It is gone, and with it what was in flight to it.
LEMMA ReceiverGone ==
  ASSUME NEW s \in Records, NEW r \in Records, NEW t \in Records, t.role = "Local",
         NEW q, Numbered(s, r, q)
  PROVE  Numbered(s, t, <<>>) /\ Sequenced(s, t, <<>>) /\ Mirrored(s, t, <<>>)
<1>1. \A i \in DOMAIN <<>> : FALSE
  OBVIOUS
<1>2. \A k : ~Known(t, <<>>, k)
  BY <1>1 DEF Known, Gets
<1> QED
  BY <1>1, <1>2 DEF Numbered, Sequenced, Mirrored

-----------------------------------------------------------------------------
(* What ends a session.  s is the record of one node, o that of the other, q *)
(* what is in flight to the other and b what is in flight to s.              *)

EndIn(q, k)   == \E i \in DOMAIN q : q[i].type = "End" /\ q[i].session = k
BeginIn(q, k) == \E i \in DOMAIN q : q[i].type = "Begin" /\ q[i].session = k
Within(s, k)  == s.role # "Local" /\ s.session = k

\* Session k of the other node was begun at place i, or is being received.
Opened(s, b, k, i) ==
  \/ i \in DOMAIN b /\ b[i].type = "Begin" /\ b[i].session = k
  \/ i = 0 /\ Gets(s, k)

\* s has not left a session of its own with number k: a session k that ends is
\* the other node's.
Early(s, k) == s.next <= k \/ Sends(s, k)

EndAfter(b, k, i) == \E l \in DOMAIN b : l > i /\ b[l].type = "End" /\ b[l].session = k

\* The sessions of the other node, as long as s has not left its own of that
\* number: one that s has not answered has no End on its way back, it is still
\* sent or its End follows, and no other session is begun before that End.
Pending(s, o, q, b) ==
  \A k \in Nat, i \in Nat : Opened(s, b, k, i) /\ Early(s, k) =>
    /\ ~EndIn(q, k)
    /\ o.up => Sends(o, k) \/ EndAfter(b, k, i)
    /\ \A j \in DOMAIN b : b[j].type = "Begin" /\ i < j =>
         \E l \in DOMAIN b : i < l /\ l < j /\ b[l].type = "End" /\ b[l].session = k

\* Each session of the other node is ended at most once.
EndedOnce(s, o, q) ==
  /\ \A i, j \in DOMAIN q :
       /\ q[i].type = "End" /\ q[j].type = "End" /\ q[i].session = q[j].session
       /\ Early(s, q[i].session)
       => i = j
  /\ \A k \in Nat : EndIn(q, k) /\ Early(s, k) => k < o.next

\* An End that carries the number of the session s is sending, and arrives after
\* its Begin, answers a session of the other node, which then has left it.
Crossed(s, o, q, b) ==
  \A i \in DOMAIN q :
    /\ q[i].type = "End" /\ Sends(s, q[i].session)
    /\ \A j \in DOMAIN q : q[j].type = "Begin" /\ q[j].session = q[i].session => j < i
    => Sends(o, q[i].session) \/ EndIn(b, q[i].session)

\* The session s is sending is on its way, received, or its End is coming back.
Heard(s, o, q, b) ==
  s.role = "Sending" /\ o.up
    => BeginIn(q, s.session) \/ Gets(o, s.session) \/ EndIn(b, s.session)

Answered(s, o, q, b) ==
  Pending(s, o, q, b) /\ EndedOnce(s, o, q) /\ Crossed(s, o, q, b) /\ Heard(s, o, q, b)

\* Both directions of the connection, as far as they are needed below.
Linked(s, o, q, b) ==
  /\ s \in Records /\ o \in Records /\ q \in Seq(Wire) /\ b \in Seq(Wire)
  /\ s.up \/ s.role = "Local"
  /\ o.up \/ o.role = "Local"
  /\ Numbered(s, o, q) /\ Numbered(o, s, b)

-----------------------------------------------------------------------------
(* Steps, seen from the node that takes them: s becomes t, takes from b what  *)
(* is missing in c, and sends out.                                            *)

Sent(r, q, out, u) == (~r.up /\ u = q) \/ (r.up /\ Grows(q, out, u))
Taken(b, c) == b # <<>> /\ Shrinks(b, c)

Stays(s, t, b, c, out) ==
  /\ t.up = s.up /\ t.next = s.next /\ t.role = s.role
  /\ s.role # "Local" => t.session = s.session
  /\ \A e \in DOMAIN out : out[e].type # "Begin" /\ out[e].type # "End"
  /\ \/ c = b
     \/ /\ Taken(b, c) /\ Head(b).type # "Begin"
        /\ Head(b).type = "End" => ~Within(s, Head(b).session)

\* Exactly one End of session k, and no other message of a session.
Closing(out, k) ==
  \E e \in DOMAIN out :
    /\ out[e].type = "End" /\ out[e].session = k
    /\ \A f \in DOMAIN out : f # e => Neutral(out[f])
Quits(s, t, b, c, out) ==
  /\ t.up = s.up /\ t.next = s.next /\ s.role # "Local" /\ t.role = "Local"
  /\ Closing(out, s.session)
  /\ c = b \/ (Taken(b, c) /\ (Neutral(Head(b)) \/ Head(b).type = "Input"))
Starts(s, t, b, c, out) == t.up = s.up /\ SenderStarts(s, t, out) /\ c = b
Accepts(s, t, b, c, out) ==
  /\ t.up = s.up /\ t.next = s.next /\ s.role = "Local" /\ t.role = "Receiving"
  /\ t.expected = 0 /\ t.held = {} /\ out = <<>>
  /\ Taken(b, c) /\ Head(b).type = "Begin" /\ t.session = Head(b).session
Refuses(s, t, b, c, out) ==
  /\ t = s /\ s.role # "Receiving"
  /\ Taken(b, c) /\ Head(b).type = "Begin" /\ out = <<End(Head(b).session)>>
Stops(s, t, b, c, out) ==
  /\ t.up = s.up /\ t.next = s.next /\ t.role = "Local" /\ out = <<>>
  /\ Taken(b, c) /\ Head(b).type = "End" /\ Within(s, Head(b).session)
Gone(s, t, b, c, out) ==
  t.up = FALSE /\ t.next = s.next /\ t.role = "Local" /\ c = <<>> /\ out = <<>>

-----------------------------------------------------------------------------
(* Messages that are sent and taken *)

LEMMA SentIsQuiet ==
  ASSUME NEW r \in Records, NEW q \in Seq(Wire), NEW u \in Seq(Wire),
         NEW out \in Seq(Wire), Sent(r, q, out, u),
         \A e \in DOMAIN out : out[e].type # "Begin" /\ out[e].type # "End"
  PROVE  /\ \A i \in DOMAIN q : i \in DOMAIN u /\ u[i] = q[i]
         /\ \A i \in DOMAIN u : u[i].type \in {"Begin", "End"} => i \in DOMAIN q
         /\ \A k : (EndIn(u, k) <=> EndIn(q, k)) /\ (BeginIn(u, k) <=> BeginIn(q, k))
<1>1. /\ \A i \in DOMAIN q : i \in DOMAIN u /\ u[i] = q[i]
      /\ \A i \in DOMAIN u : u[i].type \in {"Begin", "End"} => i \in DOMAIN q
  BY DEF Sent, Grows
<1> QED
  BY <1>1 DEF EndIn, BeginIn

LEMMA TakenIs ==
  ASSUME NEW b \in Seq(Wire), NEW c \in Seq(Wire), Taken(b, c)
  PROVE  /\ 1 \in DOMAIN b /\ b[1] = Head(b)
         /\ \A i \in DOMAIN c : /\ i \in Nat /\ i >= 1
                                /\ i + 1 \in DOMAIN b /\ c[i] = b[i + 1]
         /\ \A i \in DOMAIN b : /\ i \in Nat /\ i >= 1
                                /\ i # 1 => i - 1 \in DOMAIN c /\ c[i - 1] = b[i]
         /\ \A k : EndIn(c, k) => EndIn(b, k)
         /\ \A k : BeginIn(c, k) => BeginIn(b, k)
         /\ \A k : EndIn(b, k) => EndIn(c, k) \/ (Head(b).type = "End" /\ Head(b).session = k)
         /\ \A k : BeginIn(b, k) =>
              BeginIn(c, k) \/ (Head(b).type = "Begin" /\ Head(b).session = k)
<1>1. /\ 1 \in DOMAIN b /\ b[1] = Head(b)
      /\ \A i \in DOMAIN c : i \in Nat /\ i >= 1 /\ i + 1 \in DOMAIN b /\ c[i] = b[i + 1]
      /\ \A i \in DOMAIN b : i \in Nat /\ i >= 1 /\ (i # 1 => i - 1 \in DOMAIN c /\ c[i - 1] = b[i])
  BY WireFields DEF Taken, Shrinks
<1>2. \A k : (EndIn(c, k) => EndIn(b, k)) /\ (BeginIn(c, k) => BeginIn(b, k))
  BY <1>1 DEF EndIn, BeginIn
<1>3. \A k : EndIn(b, k) => EndIn(c, k) \/ (Head(b).type = "End" /\ Head(b).session = k)
  <2> TAKE k
  <2> HAVE EndIn(b, k)
  <2>1. PICK i \in DOMAIN b : b[i].type = "End" /\ b[i].session = k
    BY DEF EndIn
  <2>2. i = 1 \/ (i - 1 \in DOMAIN c /\ c[i - 1] = b[i])
    BY <1>1
  <2> QED
    BY <1>1, <2>1, <2>2 DEF EndIn
<1>4. \A k : BeginIn(b, k) =>
        BeginIn(c, k) \/ (Head(b).type = "Begin" /\ Head(b).session = k)
  <2> TAKE k
  <2> HAVE BeginIn(b, k)
  <2>1. PICK i \in DOMAIN b : b[i].type = "Begin" /\ b[i].session = k
    BY DEF BeginIn
  <2>2. i = 1 \/ (i - 1 \in DOMAIN c /\ c[i - 1] = b[i])
    BY <1>1
  <2> QED
    BY <1>1, <2>1, <2>2 DEF BeginIn
<1> QED
  BY <1>1, <1>2, <1>3, <1>4

\* What is still pending after the first message was taken was so before.
LEMMA PendingTaken ==
  ASSUME NEW s, NEW o, NEW q, NEW b \in Seq(Wire), NEW c \in Seq(Wire), Taken(b, c),
         Pending(s, o, q, b), NEW k \in Nat, NEW i \in Nat, NEW i2 \in Nat,
         Opened(s, b, k, i2), Early(s, k), i2 = i + 1 \/ (i = 0 /\ i2 = 0),
         i2 = 0 => ~(Head(b).type = "End" /\ Head(b).session = k)
  PROVE  /\ ~EndIn(q, k)
         /\ o.up => Sends(o, k) \/ EndAfter(c, k, i)
         /\ \A j \in DOMAIN c : c[j].type = "Begin" /\ i < j =>
              \E l \in DOMAIN c : i < l /\ l < j /\ c[l].type = "End" /\ c[l].session = k
<1>1. /\ 1 \in DOMAIN b /\ b[1] = Head(b)
      /\ \A j \in DOMAIN c : j \in Nat /\ j >= 1 /\ j + 1 \in DOMAIN b /\ c[j] = b[j + 1]
      /\ \A j \in DOMAIN b : j \in Nat /\ j >= 1 /\ (j # 1 => j - 1 \in DOMAIN c /\ c[j - 1] = b[j])
  BY TakenIs
<1>2. /\ ~EndIn(q, k)
      /\ o.up => Sends(o, k) \/ EndAfter(b, k, i2)
      /\ \A j \in DOMAIN b : b[j].type = "Begin" /\ i2 < j =>
           \E l \in DOMAIN b : i2 < l /\ l < j /\ b[l].type = "End" /\ b[l].session = k
  BY DEF Pending
<1>3. ASSUME NEW l \in DOMAIN b, i2 < l, b[l].type = "End", b[l].session = k
      PROVE  l - 1 \in DOMAIN c /\ c[l - 1] = b[l] /\ i < l - 1
  <2>1. l # 1
    BY <1>1, <1>3
  <2>2. l - 1 \in DOMAIN c /\ c[l - 1] = b[l] /\ l \in Nat /\ l - 1 >= 1
    BY <1>1, <2>1
  <2> QED
    BY <1>3, <2>2
<1>4. EndAfter(b, k, i2) => EndAfter(c, k, i)
  BY <1>3 DEF EndAfter
<1>5. ASSUME NEW j \in DOMAIN c, c[j].type = "Begin", i < j
      PROVE  \E l \in DOMAIN c : i < l /\ l < j /\ c[l].type = "End" /\ c[l].session = k
  <2>1. j + 1 \in DOMAIN b /\ b[j + 1].type = "Begin" /\ i2 < j + 1 /\ j \in Nat
    BY <1>1, <1>5
  <2>2. PICK l \in DOMAIN b : i2 < l /\ l < j + 1 /\ b[l].type = "End" /\ b[l].session = k
    BY <1>2, <2>1
  <2>3. l - 1 \in DOMAIN c /\ c[l - 1] = b[l] /\ i < l - 1 /\ l \in Nat /\ l - 1 < j
    BY <1>1, <1>3, <2>1, <2>2
  <2> QED
    BY <2>2, <2>3
<1> QED
  BY <1>2, <1>4, <1>5
\* What is ended once is so after another message was taken.
LEMMA EndedTaken ==
  ASSUME NEW s, NEW o, NEW q \in Seq(Wire), NEW u \in Seq(Wire), Taken(q, u),
         EndedOnce(s, o, q)
  PROVE  EndedOnce(s, o, u)
<1>1. \A i \in DOMAIN u : i \in Nat /\ i + 1 \in DOMAIN q /\ u[i] = q[i + 1]
  BY TakenIs
<1>2. ASSUME NEW i \in DOMAIN u, NEW j \in DOMAIN u, u[i].type = "End", u[j].type = "End",
             u[i].session = u[j].session, Early(s, u[i].session)
      PROVE  i = j
  <2>1. i + 1 = j + 1
    BY <1>1, <1>2 DEF EndedOnce
  <2> QED
    BY <1>1, <2>1
<1>3. \A k : EndIn(u, k) => EndIn(q, k)
  BY TakenIs
<1> QED
  BY <1>2, <1>3 DEF EndedOnce

LEMMA CrossedTaken ==
  ASSUME NEW s, NEW o, NEW b, NEW q \in Seq(Wire), NEW u \in Seq(Wire), Taken(q, u),
         Crossed(s, o, q, b)
  PROVE  Crossed(s, o, u, b)
<1> SUFFICES ASSUME NEW i \in DOMAIN u, u[i].type = "End", Sends(s, u[i].session),
                    \A j \in DOMAIN u :
                      u[j].type = "Begin" /\ u[j].session = u[i].session => j < i
             PROVE  Sends(o, u[i].session) \/ EndIn(b, u[i].session)
  BY DEF Crossed
<1>1. i \in Nat /\ i >= 1 /\ i + 1 \in DOMAIN q /\ u[i] = q[i + 1]
  BY TakenIs
<1>2. ASSUME NEW j \in DOMAIN q, q[j].type = "Begin", q[j].session = u[i].session
      PROVE  j < i + 1
  <2>1. CASE j = 1
    BY <1>1, <2>1
  <2>2. CASE j # 1
    <3>1. j - 1 \in DOMAIN u /\ u[j - 1] = q[j] /\ j \in Nat
      BY <2>2, TakenIs
    <3> QED
      BY <1>1, <1>2, <3>1
  <2> QED
    BY <2>1, <2>2
<1> QED
  BY <1>1, <1>2 DEF Crossed

\* What is pending when the other node takes a message and begins no session.
LEMMA PendingKept ==
  ASSUME NEW s, NEW o, NEW q \in Seq(Wire), NEW u \in Seq(Wire), Taken(q, u),
         NEW b, NEW c, \A i \in DOMAIN b : i \in DOMAIN c /\ c[i] = b[i],
         \A i \in DOMAIN c : c[i].type = "Begin" => i \in DOMAIN b,
         Pending(s, o, q, b)
  PROVE  Pending(s, o, u, c)
<1> SUFFICES ASSUME NEW k \in Nat, NEW i \in Nat, Opened(s, c, k, i), Early(s, k)
             PROVE  /\ ~EndIn(u, k)
                    /\ o.up => Sends(o, k) \/ EndAfter(c, k, i)
                    /\ \A j \in DOMAIN c : c[j].type = "Begin" /\ i < j =>
                         \E l \in DOMAIN c : /\ i < l /\ l < j
                                             /\ c[l].type = "End" /\ c[l].session = k
  BY DEF Pending
<1>1. Opened(s, b, k, i)
  BY DEF Opened
<1>2. /\ ~EndIn(q, k) /\ (o.up => Sends(o, k) \/ EndAfter(b, k, i))
      /\ \A j \in DOMAIN b : b[j].type = "Begin" /\ i < j =>
           \E l \in DOMAIN b : i < l /\ l < j /\ b[l].type = "End" /\ b[l].session = k
  BY <1>1 DEF Pending
<1>3. EndAfter(b, k, i) => EndAfter(c, k, i)
  BY DEF EndAfter
<1>4. ASSUME NEW j \in DOMAIN c, c[j].type = "Begin", i < j
      PROVE  \E l \in DOMAIN c : i < l /\ l < j /\ c[l].type = "End" /\ c[l].session = k
  BY <1>2, <1>4
<1>5. ~EndIn(u, k)
  BY <1>2, TakenIs
<1> QED
  BY <1>2, <1>3, <1>4, <1>5

-----------------------------------------------------------------------------
(* Steps of s itself *)

LEMMA OwnStays ==
  ASSUME NEW s, NEW o, NEW q, NEW b, NEW t \in Records, NEW u \in Seq(Wire),
         NEW c \in Seq(Wire), NEW out \in Seq(Wire), Linked(s, o, q, b),
         Answered(s, o, q, b), Stays(s, t, b, c, out), Sent(o, q, out, u)
  PROVE  Answered(t, o, u, c)
<1>1. /\ s \in Records /\ o \in Records /\ q \in Seq(Wire) /\ b \in Seq(Wire)
  BY DEF Linked
<1>2. /\ \A i \in DOMAIN q : i \in DOMAIN u /\ u[i] = q[i]
      /\ \A i \in DOMAIN u : u[i].type \in {"Begin", "End"} => i \in DOMAIN q
      /\ \A k : (EndIn(u, k) <=> EndIn(q, k)) /\ (BeginIn(u, k) <=> BeginIn(q, k))
  BY <1>1, SentIsQuiet DEF Stays
<1>3. \A k : /\ Sends(t, k) <=> Sends(s, k)
             /\ Gets(t, k) <=> Gets(s, k)
             /\ Early(t, k) <=> Early(s, k)
  BY DEF Stays, Sends, Gets, Early
<1>4. Pending(t, o, u, c)
  <2> SUFFICES ASSUME NEW k \in Nat, NEW i \in Nat, Opened(t, c, k, i), Early(s, k)
               PROVE  /\ ~EndIn(q, k)
                      /\ o.up => Sends(o, k) \/ EndAfter(c, k, i)
                      /\ \A j \in DOMAIN c : c[j].type = "Begin" /\ i < j =>
                           \E l \in DOMAIN c : /\ i < l /\ l < j
                                               /\ c[l].type = "End" /\ c[l].session = k
    BY <1>2, <1>3 DEF Pending
  <2>1. CASE c = b
    <3>1. Opened(s, b, k, i)
      BY <1>3, <2>1 DEF Opened
    <3> QED
      BY <2>1, <3>1 DEF Answered, Pending
  <2>2. CASE /\ Taken(b, c) /\ Head(b).type # "Begin"
             /\ Head(b).type = "End" => ~Within(s, Head(b).session)
    <3>1. CASE i # 0
      <4>1. Opened(s, b, k, i + 1) /\ i + 1 \in Nat
        BY <1>1, <2>2, <3>1, TakenIs DEF Opened
      <4>2. i + 1 # 0
        OBVIOUS
      <4> QED
        BY <1>1, <2>2, <4>1, <4>2, PendingTaken DEF Answered
    <3>2. CASE i = 0
      <4>1. ~(0 \in DOMAIN c)
        BY <1>1, WireFields
      <4>2. Gets(s, k) /\ Opened(s, b, k, 0)
        BY <1>3, <3>2, <4>1 DEF Opened
      <4>3. ~(Head(b).type = "End" /\ Head(b).session = k)
        BY <2>2, <4>2 DEF Within, Gets
      <4> QED
        BY <1>1, <2>2, <3>2, <4>2, <4>3, PendingTaken DEF Answered
    <3> QED
      BY <3>1, <3>2
  <2> QED
    BY <2>1, <2>2 DEF Stays
<1>5. EndedOnce(t, o, u)
  BY <1>2, <1>3 DEF Answered, EndedOnce
<1>6. \A k : Sends(s, k) => (EndIn(b, k) => EndIn(c, k))
  <2>1. CASE c = b
    BY <2>1
  <2>2. CASE /\ Taken(b, c)
             /\ Head(b).type = "End" => ~Within(s, Head(b).session)
    BY <1>1, <2>2, TakenIs DEF Within, Sends
  <2> QED
    BY <2>1, <2>2 DEF Stays
<1>7. Crossed(t, o, u, c)
  BY <1>2, <1>3, <1>6 DEF Answered, Crossed
<1>8. Heard(t, o, u, c)
  BY <1>2, <1>6 DEF Answered, Heard, Stays, Sends
<1> QED
  BY <1>4, <1>5, <1>7, <1>8 DEF Answered

\* A node that is local and has no message of its own in the way: only what is
\* opened in its inbox matters.
LEMMA LocalAnswered ==
  ASSUME NEW t, NEW o, NEW u, NEW c, t.role = "Local", Pending(t, o, u, c),
         EndedOnce(t, o, u)
  PROVE  Answered(t, o, u, c)
BY DEF Answered, Crossed, Heard, Sends

LEMMA OwnQuits ==
  ASSUME NEW s, NEW o, NEW q, NEW b, NEW t \in Records, NEW u \in Seq(Wire),
         NEW c \in Seq(Wire), NEW out \in Seq(Wire), Linked(s, o, q, b),
         Answered(s, o, q, b), Quits(s, t, b, c, out), Sent(o, q, out, u)
  PROVE  Answered(t, o, u, c)
<1> DEFINE k0 == s.session
<1>1. /\ s \in Records /\ o \in Records /\ q \in Seq(Wire) /\ b \in Seq(Wire)
      /\ k0 \in Nat /\ s.next \in Nat /\ o.next \in Nat
      /\ \A i \in DOMAIN q : i \in Nat /\ i <= Len(q)
      /\ Len(q) \in Nat
  BY WireFields DEF Linked, Records
<1>2. PICK e \in DOMAIN out :
        /\ out[e].type = "End" /\ out[e].session = k0
        /\ \A f \in DOMAIN out : f # e => Neutral(out[f])
  BY DEF Quits, Closing
<1>3. /\ \A i \in DOMAIN q : i \in DOMAIN u /\ u[i] = q[i]
      /\ \A i \in DOMAIN u : u[i].type = "End" =>
           i \in DOMAIN q \/ (i = Len(q) + e /\ u[i].session = k0)
      /\ e \in Nat /\ e >= 1
  <2>1. e \in Nat /\ e >= 1
    BY <1>2, WireFields
  <2>2. CASE o.up
    <3>1. \A f \in DOMAIN out : out[f].type = "End" => f = e
      BY <1>2 DEF Neutral
    <3>2. Grows(q, out, u)
      BY <2>2 DEF Sent
    <3> QED
      BY <1>2, <2>1, <3>1, <3>2 DEF Grows
  <2>3. CASE ~o.up
    BY <2>1, <2>3 DEF Sent
  <2> QED
    BY <1>1, <2>2, <2>3 DEF Records
<1>4. \A k \in Nat : Early(t, k) => Early(s, k)
  BY DEF Quits, Early, Sends
<1>5. Early(t, k0) => Gets(s, k0) /\ k0 < o.next /\ Opened(s, b, k0, 0)
  <2>1. s.role = "Sending" => k0 < s.next
    BY DEF Linked, Numbered
  <2>2. s.role \in {"Sending", "Receiving"}
    BY <1>1 DEF Quits, Records
  <2>3. s.role = "Receiving" => k0 < o.next
    BY DEF Linked, Numbered
  <2> QED
    BY <1>1, <2>1, <2>2, <2>3 DEF Quits, Early, Sends, Gets, Opened
<1>6. Early(t, k0) => ~EndIn(q, k0)
  BY <1>1, <1>4, <1>5 DEF Answered, Pending
<1> HIDE DEF k0
<1>7. \A k : EndIn(u, k) => EndIn(q, k) \/ k = k0
  BY <1>3 DEF EndIn
<1>8. ASSUME NEW k \in Nat, NEW i \in Nat, Opened(t, c, k, i), Early(t, k)
      PROVE  /\ ~EndIn(u, k)
             /\ o.up => Sends(o, k) \/ EndAfter(c, k, i)
             /\ \A j \in DOMAIN c : c[j].type = "Begin" /\ i < j =>
                  \E l \in DOMAIN c : i < l /\ l < j /\ c[l].type = "End" /\ c[l].session = k
  <2>1. i \in DOMAIN c /\ c[i].type = "Begin" /\ c[i].session = k /\ i # 0
    BY <1>8, WireFields DEF Opened, Gets, Quits
  <2>2. k # k0
    <3> SUFFICES ASSUME k = k0 PROVE FALSE
      OBVIOUS
    <3>1. Gets(s, k0)
      BY <1>5, <1>8
    <3>2. \E j \in DOMAIN b : b[j].type = "Begin" /\ b[j].session = k0
      BY <1>1, <2>1, TakenIs DEF Quits
    <3> QED
      BY <3>1, <3>2 DEF Linked, Numbered
  <2>3. ~EndIn(u, k) <=> ~EndIn(q, k)
    <3>1. EndIn(q, k) => EndIn(u, k)
      BY <1>3 DEF EndIn
    <3> QED
      BY <1>7, <2>2, <3>1
  <2>4. CASE c = b
    BY <1>4, <1>8, <2>1, <2>3, <2>4 DEF Opened, Answered, Pending
  <2>5. CASE Taken(b, c)
    <3>1. Opened(s, b, k, i + 1) /\ i + 1 \in Nat /\ i + 1 # 0
      BY <1>1, <2>1, <2>5, TakenIs DEF Opened
    <3> QED
      BY <1>1, <1>4, <1>8, <2>3, <2>5, <3>1, PendingTaken DEF Answered
  <2> QED
    BY <2>4, <2>5 DEF Quits
<1>9. Pending(t, o, u, c)
  BY <1>8 DEF Pending
<1>10. EndedOnce(t, o, u)
  <2>1. ASSUME NEW i \in DOMAIN u, NEW j \in DOMAIN u, u[i].type = "End", u[j].type = "End",
               u[i].session = u[j].session, Early(t, u[i].session)
        PROVE  i = j
    <3>1. u[i].session \in Nat
      BY <2>1, WireFields
    <3>2. CASE i \in DOMAIN q /\ j \in DOMAIN q
      BY <1>3, <1>4, <2>1, <3>1, <3>2 DEF Answered, EndedOnce
    <3>3. CASE u[i].session = k0
      <4>1. i \notin DOMAIN q /\ j \notin DOMAIN q
        BY <1>3, <1>6, <2>1, <3>3 DEF EndIn
      <4> QED
        BY <1>3, <2>1, <4>1
    <3> QED
      BY <1>3, <2>1, <3>2, <3>3
  <2>2. \A k \in Nat : EndIn(u, k) /\ Early(t, k) => k < o.next
    BY <1>4, <1>5, <1>7 DEF Answered, EndedOnce
  <2> QED
    BY <2>1, <2>2 DEF EndedOnce
<1> QED
  BY <1>9, <1>10, LocalAnswered DEF Quits

LEMMA OwnStarts ==
  ASSUME NEW s, NEW o, NEW q, NEW b, NEW t \in Records, NEW u \in Seq(Wire),
         NEW c \in Seq(Wire), NEW out \in Seq(Wire), Linked(s, o, q, b),
         Answered(s, o, q, b), Starts(s, t, b, c, out), Sent(o, q, out, u)
  PROVE  Answered(t, o, u, c)
<1> DEFINE k0 == s.next
<1>1. /\ s \in Records /\ o \in Records /\ q \in Seq(Wire) /\ b \in Seq(Wire)
      /\ k0 \in Nat /\ t.next = k0 + 1 /\ t.session = k0 /\ t.role = "Sending"
      /\ s.role = "Local" /\ c = b
      /\ \A i \in DOMAIN q : i \in Nat /\ i <= Len(q)
      /\ Len(q) \in Nat
  BY WireFields DEF Linked, Records, Starts, SenderStarts
<1>2. /\ 1 \in DOMAIN out /\ out[1].type = "Begin" /\ out[1].session = k0
      /\ \A e \in DOMAIN out : out[e].type # "End"
  <2>1. CASE out = <<Begin(k0)>>
    <3>1. DOMAIN out = 1..1 /\ out[1] = Begin(k0)
      BY <2>1
    <3>2. 1 \in DOMAIN out /\ \A e \in DOMAIN out : e = 1
      BY <3>1
    <3> QED
      BY <3>1, <3>2 DEF Begin
  <2>2. ASSUME NEW d \in Codes, out = <<Begin(k0), Input(k0, 0, Key(d, TRUE))>>
        PROVE  /\ 1 \in DOMAIN out /\ out[1].type = "Begin" /\ out[1].session = k0
               /\ \A e \in DOMAIN out : out[e].type # "End"
    <3>1. DOMAIN out = 1..2 /\ out[1] = Begin(k0) /\ out[2] = Input(k0, 0, Key(d, TRUE))
      BY <2>2
    <3>2. 1 \in DOMAIN out /\ \A e \in DOMAIN out : e = 1 \/ e = 2
      BY <3>1
    <3> QED
      BY <3>1, <3>2 DEF Begin, Input
  <2> QED
    BY <2>1, <2>2 DEF Starts, SenderStarts, Opening
<1> HIDE DEF k0
<1>3. /\ \A i \in DOMAIN q : i \in DOMAIN u /\ u[i] = q[i]
      /\ \A i \in DOMAIN u : u[i].type = "End" => i \in DOMAIN q
      /\ o.up => Len(q) + 1 \in DOMAIN u /\ u[Len(q) + 1].type = "Begin"
                 /\ u[Len(q) + 1].session = k0
      /\ ~o.up => DOMAIN q = {}
  <2>1. ~o.up => DOMAIN q = {}
    <3> SUFFICES ASSUME ~o.up PROVE DOMAIN q = {}
      OBVIOUS
    <3>1. q = <<>>
      BY DEF Linked, Numbered
    <3>2. DOMAIN q = 1..0
      BY <3>1
    <3> QED
      BY <3>2
  <2>2. CASE o.up
    BY <1>2, <2>2 DEF Sent, Grows
  <2>3. CASE ~o.up
    BY <2>1, <2>3 DEF Sent
  <2> QED
    BY <1>1, <2>1, <2>2, <2>3 DEF Records
<1>4. \A k : EndIn(u, k) <=> EndIn(q, k)
  BY <1>3 DEF EndIn
<1>5. \A k \in Nat : /\ Early(t, k) <=> Early(s, k)
                     /\ ~Gets(t, k) /\ ~Gets(s, k) /\ (Sends(t, k) <=> k = k0)
  BY <1>1 DEF Early, Sends, Gets, k0
<1>6. Pending(t, o, u, c)
  BY <1>1, <1>4, <1>5 DEF Answered, Pending, Opened
<1>7. EndedOnce(t, o, u)
  <2>1. \A i \in DOMAIN u : u[i].type = "End" => u[i].session \in Nat
    BY WireFields
  <2> QED
    BY <1>3, <1>4, <1>5, <2>1 DEF Answered, EndedOnce
<1>8. Crossed(t, o, u, c)
  <2> SUFFICES ASSUME NEW i \in DOMAIN u, u[i].type = "End", u[i].session = k0,
                      \A j \in DOMAIN u : u[j].type = "Begin" /\ u[j].session = k0 => j < i
               PROVE  FALSE
    BY <1>1 DEF Crossed, Sends
  <2>1. i \in DOMAIN q /\ o.up
    BY <1>3
  <2>2. Len(q) + 1 < i
    BY <1>3, <2>1
  <2> QED
    BY <1>1, <2>1, <2>2
<1>9. Heard(t, o, u, c)
  BY <1>1, <1>3 DEF Heard, BeginIn
<1> QED
  BY <1>6, <1>7, <1>8, <1>9 DEF Answered

LEMMA OwnAccepts ==
  ASSUME NEW s, NEW o, NEW q, NEW b, NEW t \in Records, NEW u \in Seq(Wire),
         NEW c \in Seq(Wire), NEW out \in Seq(Wire), Linked(s, o, q, b),
         Answered(s, o, q, b), Accepts(s, t, b, c, out), Sent(o, q, out, u)
  PROVE  Answered(t, o, u, c)
<1>1. /\ s \in Records /\ o \in Records /\ q \in Seq(Wire) /\ b \in Seq(Wire)
      /\ Taken(b, c) /\ Head(b).type = "Begin" /\ t.session = Head(b).session
      /\ s.role = "Local" /\ t.role = "Receiving" /\ t.next = s.next
  BY DEF Linked, Accepts
<1>2. /\ \A i \in DOMAIN q : i \in DOMAIN u /\ u[i] = q[i]
      /\ \A i \in DOMAIN u : u[i].type \in {"Begin", "End"} => i \in DOMAIN q
      /\ \A k : EndIn(u, k) <=> EndIn(q, k)
  <2>1. \A e \in DOMAIN out : FALSE
    BY DEF Accepts
  <2> QED
    BY <1>1, <2>1, SentIsQuiet
<1>3. \A k : Early(t, k) <=> Early(s, k)
  BY <1>1 DEF Early, Sends
<1>4. Pending(t, o, u, c)
  <2> SUFFICES ASSUME NEW k \in Nat, NEW i \in Nat, Opened(t, c, k, i), Early(s, k)
               PROVE  /\ ~EndIn(q, k)
                      /\ o.up => Sends(o, k) \/ EndAfter(c, k, i)
                      /\ \A j \in DOMAIN c : c[j].type = "Begin" /\ i < j =>
                           \E l \in DOMAIN c : /\ i < l /\ l < j
                                               /\ c[l].type = "End" /\ c[l].session = k
    BY <1>2, <1>3 DEF Pending
  <2>1. Opened(s, b, k, i + 1) /\ i + 1 \in Nat /\ i + 1 # 0
    BY <1>1, TakenIs DEF Opened, Gets
  <2> QED
    BY <1>1, <2>1, PendingTaken DEF Answered
<1>5. EndedOnce(t, o, u)
  BY <1>2, <1>3 DEF Answered, EndedOnce
<1>6. Crossed(t, o, u, c) /\ Heard(t, o, u, c)
  BY <1>1 DEF Crossed, Heard, Sends
<1> QED
  BY <1>4, <1>5, <1>6 DEF Answered

LEMMA OwnRefuses ==
  ASSUME NEW s, NEW o, NEW q, NEW b, NEW t \in Records, NEW u \in Seq(Wire),
         NEW c \in Seq(Wire), NEW out \in Seq(Wire), Linked(s, o, q, b),
         Answered(s, o, q, b), Refuses(s, t, b, c, out), Sent(o, q, out, u)
  PROVE  Answered(t, o, u, c)
<1> DEFINE k0 == Head(b).session
<1>1. /\ s \in Records /\ o \in Records /\ q \in Seq(Wire) /\ b \in Seq(Wire)
      /\ Taken(b, c) /\ t = s /\ s.role # "Receiving"
      /\ \A i \in DOMAIN q : i \in Nat /\ i <= Len(q)
      /\ Len(q) \in Nat
  BY WireFields DEF Linked, Refuses
<1>2. 1 \in DOMAIN b /\ b[1].type = "Begin" /\ b[1].session = k0 /\ k0 \in Nat
  BY <1>1, TakenIs, WireFields DEF Refuses
<1>3. DOMAIN out = 1..1 /\ out[1] = End(k0)
  BY DEF Refuses
<1>4. /\ \A i \in DOMAIN q : i \in DOMAIN u /\ u[i] = q[i]
      /\ \A i \in DOMAIN u : i \in DOMAIN q
           \/ (i = Len(q) + 1 /\ u[i].type = "End" /\ u[i].session = k0 /\ o.up)
  <2>1. 1 \in DOMAIN out /\ \A e \in DOMAIN out : e = 1
    BY <1>3
  <2>2. out[1].type = "End" /\ out[1].session = k0
    BY <1>3 DEF End
  <2> QED
    BY <2>1, <2>2 DEF Sent, Grows
<1> HIDE DEF k0
<1>5. Opened(s, b, k0, 1) /\ k0 < o.next
  BY <1>2 DEF Opened, Linked, Numbered, Data
<1>6. Early(s, k0) => /\ ~EndIn(q, k0)
                      /\ o.up => Sends(o, k0) \/ EndAfter(b, k0, 1)
  BY <1>2, <1>5 DEF Answered, Pending
<1>7. \A k : EndIn(u, k) => EndIn(q, k) \/ (k = k0 /\ o.up)
  BY <1>4 DEF EndIn
<1>8. \A k : EndIn(b, k) <=> EndIn(c, k)
  BY <1>1, <1>2, TakenIs
<1>9. Pending(t, o, u, c)
  <2> SUFFICES ASSUME NEW k \in Nat, NEW i \in Nat, Opened(s, c, k, i), Early(s, k)
               PROVE  /\ ~EndIn(u, k)
                      /\ o.up => Sends(o, k) \/ EndAfter(c, k, i)
                      /\ \A j \in DOMAIN c : c[j].type = "Begin" /\ i < j =>
                           \E l \in DOMAIN c : /\ i < l /\ l < j
                                               /\ c[l].type = "End" /\ c[l].session = k
    BY <1>1 DEF Pending
  <2>1. /\ i \in DOMAIN c /\ i + 1 \in DOMAIN b /\ c[i] = b[i + 1] /\ i >= 1
        /\ b[i + 1].type = "Begin" /\ b[i + 1].session = k
    BY <1>1, TakenIs DEF Opened, Gets
  <2>2. Opened(s, b, k, i + 1) /\ i + 1 \in Nat /\ i + 1 # 0
    BY <2>1 DEF Opened
  <2>3. k # k0
    <3> SUFFICES ASSUME k = k0 PROVE FALSE
      OBVIOUS
    <3>1. i + 1 <= 1
      BY <1>2, <2>1 DEF Linked, Numbered, Data
    <3> QED
      BY <2>1, <3>1
  <2>4. ~EndIn(q, k) => ~EndIn(u, k)
    BY <1>7, <2>3
  <2> QED
    BY <1>1, <2>2, <2>4, PendingTaken DEF Answered
<1>10. EndedOnce(t, o, u)
  <2>1. ASSUME NEW i \in DOMAIN u, NEW j \in DOMAIN u, u[i].type = "End", u[j].type = "End",
               u[i].session = u[j].session, Early(s, u[i].session)
        PROVE  i = j
    <3>1. CASE i \in DOMAIN q /\ j \in DOMAIN q
      BY <1>4, <2>1, <3>1 DEF Answered, EndedOnce
    <3>2. CASE u[i].session = k0
      <4>1. i \notin DOMAIN q /\ j \notin DOMAIN q
        BY <1>4, <1>6, <2>1, <3>2 DEF EndIn
      <4> QED
        BY <1>4, <4>1
    <3> QED
      BY <1>4, <2>1, <3>1, <3>2
  <2>2. \A k \in Nat : EndIn(u, k) /\ Early(s, k) => k < o.next
    BY <1>5, <1>7 DEF Answered, EndedOnce
  <2> QED
    BY <1>1, <2>1, <2>2 DEF EndedOnce
<1>11. Crossed(t, o, u, c)
  <2> SUFFICES ASSUME NEW i \in DOMAIN u, u[i].type = "End", Sends(s, u[i].session),
                      \A j \in DOMAIN u :
                        u[j].type = "Begin" /\ u[j].session = u[i].session => j < i
               PROVE  Sends(o, u[i].session) \/ EndIn(c, u[i].session)
    BY <1>1 DEF Crossed
  <2>1. CASE i \in DOMAIN q
    BY <1>4, <1>8, <2>1 DEF Answered, Crossed
  <2>2. CASE u[i].session = k0 /\ o.up
    <3>1. EndAfter(b, k0, 1) => EndIn(b, k0)
      BY DEF EndAfter, EndIn
    <3> QED
      BY <1>6, <1>8, <2>2, <3>1 DEF Early
  <2> QED
    BY <1>4, <2>1, <2>2
<1>12. Heard(t, o, u, c)
  <2>1. \A k : BeginIn(q, k) => BeginIn(u, k)
    BY <1>4 DEF BeginIn
  <2> QED
    BY <1>1, <1>8, <2>1 DEF Answered, Heard
<1> QED
  BY <1>9, <1>10, <1>11, <1>12 DEF Answered

\* It leaves its session without sending anything: ended by the other node, or
\* gone with all that was in flight to it.
LEMMA OwnStops ==
  ASSUME NEW s, NEW o, NEW q, NEW b, NEW t \in Records, NEW u \in Seq(Wire),
         NEW c \in Seq(Wire), NEW out \in Seq(Wire), Linked(s, o, q, b),
         Answered(s, o, q, b), Stops(s, t, b, c, out) \/ Gone(s, t, b, c, out),
         Sent(o, q, out, u)
  PROVE  Answered(t, o, u, c)
<1>1. /\ s \in Records /\ o \in Records /\ q \in Seq(Wire) /\ b \in Seq(Wire)
      /\ t.role = "Local" /\ t.next = s.next
  BY DEF Linked, Stops, Gone
<1>2. /\ \A i \in DOMAIN q : i \in DOMAIN u /\ u[i] = q[i]
      /\ \A i \in DOMAIN u : u[i].type \in {"Begin", "End"} => i \in DOMAIN q
      /\ \A k : EndIn(u, k) <=> EndIn(q, k)
  <2>1. \A e \in DOMAIN out : FALSE
    BY DEF Stops, Gone
  <2> QED
    BY <1>1, <2>1, SentIsQuiet
<1>3. \A k : Early(t, k) => Early(s, k)
  BY <1>1 DEF Early, Sends
<1>4. Pending(t, o, u, c)
  <2> SUFFICES ASSUME NEW k \in Nat, NEW i \in Nat, Opened(t, c, k, i), Early(s, k)
               PROVE  /\ ~EndIn(q, k)
                      /\ o.up => Sends(o, k) \/ EndAfter(c, k, i)
                      /\ \A j \in DOMAIN c : c[j].type = "Begin" /\ i < j =>
                           \E l \in DOMAIN c : /\ i < l /\ l < j
                                               /\ c[l].type = "End" /\ c[l].session = k
    BY <1>2, <1>3 DEF Pending
  <2>1. i \in DOMAIN c /\ c[i].type = "Begin" /\ c[i].session = k
    BY <1>1 DEF Opened, Gets
  <2>2. Taken(b, c)
    BY <2>1 DEF Stops, Gone
  <2>3. Opened(s, b, k, i + 1) /\ i + 1 \in Nat /\ i + 1 # 0
    BY <1>1, <2>1, <2>2, TakenIs DEF Opened
  <2> QED
    BY <1>1, <2>2, <2>3, PendingTaken DEF Answered
<1>5. EndedOnce(t, o, u)
  BY <1>2, <1>3 DEF Answered, EndedOnce
<1> QED
  BY <1>1, <1>4, <1>5, LocalAnswered

-----------------------------------------------------------------------------
(* Steps of the other node: o becomes t, takes from q what is missing in u,   *)
(* and sends out, after which c is in flight to s.                            *)

\* What is pending does not depend on what is sent meanwhile, as long as the
\* other node leaves no session.
LEMMA OtherStays ==
  ASSUME NEW s, NEW o, NEW q, NEW b, NEW t \in Records, NEW u \in Seq(Wire),
         NEW c \in Seq(Wire), NEW out \in Seq(Wire), Linked(s, o, q, b),
         Answered(s, o, q, b), Stays(o, t, q, u, out), Sent(s, b, out, c)
  PROVE  Answered(s, t, u, c)
<1>1. /\ s \in Records /\ o \in Records /\ q \in Seq(Wire) /\ b \in Seq(Wire)
  BY DEF Linked
<1>2. /\ \A i \in DOMAIN b : i \in DOMAIN c /\ c[i] = b[i]
      /\ \A i \in DOMAIN c : c[i].type \in {"Begin", "End"} => i \in DOMAIN b
      /\ \A k : (EndIn(c, k) <=> EndIn(b, k)) /\ (BeginIn(c, k) <=> BeginIn(b, k))
  BY <1>1, SentIsQuiet DEF Stays
<1>3. /\ \A k : (Sends(t, k) <=> Sends(o, k)) /\ (Gets(t, k) <=> Gets(o, k))
      /\ t.up = o.up /\ t.next = o.next
  BY DEF Stays, Sends, Gets
<1>4. /\ \A i \in DOMAIN u : \E l \in DOMAIN q : u[i] = q[l]
      /\ \A k : (EndIn(u, k) => EndIn(q, k)) /\ (BeginIn(u, k) <=> BeginIn(q, k))
  <2>1. CASE u = q
    BY <2>1
  <2>2. CASE Taken(q, u) /\ Head(q).type # "Begin"
    BY <1>1, <2>2, TakenIs
  <2> QED
    BY <2>1, <2>2 DEF Stays
<1>5. Pending(s, t, u, c)
  <2> SUFFICES ASSUME NEW k \in Nat, NEW i \in Nat, Opened(s, c, k, i), Early(s, k)
               PROVE  /\ ~EndIn(u, k)
                      /\ o.up => Sends(o, k) \/ EndAfter(c, k, i)
                      /\ \A j \in DOMAIN c : c[j].type = "Begin" /\ i < j =>
                           \E l \in DOMAIN c : /\ i < l /\ l < j
                                               /\ c[l].type = "End" /\ c[l].session = k
    BY <1>3 DEF Pending
  <2>1. Opened(s, b, k, i)
    BY <1>2 DEF Opened
  <2>2. EndAfter(b, k, i) => EndAfter(c, k, i)
    BY <1>2 DEF EndAfter
  <2>3. \A j \in DOMAIN b : b[j].type = "Begin" /\ i < j =>
          \E l \in DOMAIN b : i < l /\ l < j /\ b[l].type = "End" /\ b[l].session = k
    BY <2>1 DEF Answered, Pending
  <2>4. ~EndIn(q, k) /\ (o.up => Sends(o, k) \/ EndAfter(b, k, i))
    BY <2>1 DEF Answered, Pending
  <2>5. ASSUME NEW j \in DOMAIN c, c[j].type = "Begin", i < j
        PROVE  \E l \in DOMAIN c : i < l /\ l < j /\ c[l].type = "End" /\ c[l].session = k
    BY <1>2, <2>3, <2>5
  <2> QED
    BY <1>4, <2>2, <2>4, <2>5
<1>6. EndedOnce(s, t, u)
  <2>1. CASE u = q
    BY <1>3, <2>1 DEF Answered, EndedOnce
  <2>2. CASE Taken(q, u)
    BY <1>1, <1>3, <2>2, EndedTaken DEF Answered, EndedOnce
  <2> QED
    BY <2>1, <2>2 DEF Stays
<1>7. Crossed(s, t, u, c)
  <2>1. CASE u = q
    BY <1>2, <1>3, <2>1 DEF Answered, Crossed
  <2>2. CASE Taken(q, u)
    <3>1. Crossed(s, o, u, b)
      BY <1>1, <2>2, CrossedTaken DEF Answered
    <3> QED
      BY <1>2, <1>3, <3>1 DEF Crossed
  <2> QED
    BY <2>1, <2>2 DEF Stays
<1>8. Heard(s, t, u, c)
  BY <1>2, <1>3, <1>4 DEF Answered, Heard
<1> QED
  BY <1>5, <1>6, <1>7, <1>8 DEF Answered

LEMMA OtherQuits ==
  ASSUME NEW s, NEW o, NEW q, NEW b, NEW t \in Records, NEW u \in Seq(Wire),
         NEW c \in Seq(Wire), NEW out \in Seq(Wire), Linked(s, o, q, b),
         Answered(s, o, q, b), Quits(o, t, q, u, out), Sent(s, b, out, c)
  PROVE  Answered(s, t, u, c)
<1> DEFINE k0 == o.session
<1>1. /\ s \in Records /\ o \in Records /\ q \in Seq(Wire) /\ b \in Seq(Wire)
      /\ \A i \in DOMAIN b : i \in Nat /\ i <= Len(b)
      /\ Len(b) \in Nat
      /\ t.up = o.up /\ t.next = o.next /\ t.role = "Local" /\ k0 \in Nat
  BY WireFields DEF Linked, Quits, Records
<1>2. PICK e \in DOMAIN out :
        /\ out[e].type = "End" /\ out[e].session = k0
        /\ \A f \in DOMAIN out : f # e => Neutral(out[f])
  BY DEF Quits, Closing
<1>3. /\ \A i \in DOMAIN b : i \in DOMAIN c /\ c[i] = b[i]
      /\ \A i \in DOMAIN c : c[i].type = "Begin" => i \in DOMAIN b
      /\ s.up => /\ Len(b) + e \in DOMAIN c /\ c[Len(b) + e].type = "End"
                 /\ c[Len(b) + e].session = k0
      /\ ~s.up => DOMAIN c = {} /\ s.role = "Local"
      /\ e \in Nat /\ e >= 1
  <2>1. e \in Nat /\ e >= 1
    BY <1>2, WireFields
  <2>2. CASE s.up
    <3>1. \A f \in DOMAIN out : out[f].type # "Begin"
      BY <1>2 DEF Neutral
    <3>2. Grows(b, out, c)
      BY <2>2 DEF Sent
    <3> QED
      BY <1>2, <2>1, <2>2, <3>1, <3>2 DEF Grows
  <2>3. CASE ~s.up
    <3>1. b = <<>> /\ c = b /\ s.role = "Local"
      BY <2>3 DEF Linked, Numbered, Sent
    <3>2. DOMAIN c = 1..0
      BY <3>1
    <3> QED
      BY <2>1, <2>3, <3>1, <3>2
  <2> QED
    BY <1>1, <2>2, <2>3 DEF Records
<1> HIDE DEF k0
<1>4. /\ \A k : EndIn(b, k) => EndIn(c, k)
      /\ s.up => EndIn(c, k0)
  BY <1>3 DEF EndIn
<1>5. /\ \A i \in DOMAIN u : \E l \in DOMAIN q : u[i] = q[l]
      /\ \A k : (EndIn(u, k) => EndIn(q, k)) /\ (BeginIn(q, k) <=> BeginIn(u, k))
  <2>1. CASE u = q
    BY <2>1
  <2>2. CASE Taken(q, u) /\ Head(q).type # "Begin"
    BY <1>1, <2>2, TakenIs
  <2> QED
    BY <2>1, <2>2 DEF Quits, Neutral
<1>6. \A k : (Sends(o, k) => k = k0) /\ (Gets(o, k) => k = k0) /\ ~Sends(t, k) /\ ~Gets(t, k)
  BY <1>1 DEF Sends, Gets, k0
<1>7. Pending(s, t, u, c)
  <2> SUFFICES ASSUME NEW k \in Nat, NEW i \in Nat, Opened(s, c, k, i), Early(s, k)
               PROVE  /\ ~EndIn(u, k)
                      /\ o.up => EndAfter(c, k, i)
                      /\ \A j \in DOMAIN c : c[j].type = "Begin" /\ i < j =>
                           \E l \in DOMAIN c : /\ i < l /\ l < j
                                               /\ c[l].type = "End" /\ c[l].session = k
    BY <1>1 DEF Pending
  <2>1. Opened(s, b, k, i) /\ i <= Len(b) /\ s.up
    <3>1. s.up
      BY <1>3 DEF Opened, Gets
    <3>2. Opened(s, b, k, i)
      BY <1>3 DEF Opened
    <3> QED
      BY <1>1, <3>1, <3>2 DEF Opened
  <2>2. /\ ~EndIn(q, k) /\ (o.up => Sends(o, k) \/ EndAfter(b, k, i))
        /\ \A j \in DOMAIN b : b[j].type = "Begin" /\ i < j =>
             \E l \in DOMAIN b : i < l /\ l < j /\ b[l].type = "End" /\ b[l].session = k
    BY <2>1 DEF Answered, Pending
  <2>3. EndAfter(b, k, i) => EndAfter(c, k, i)
    BY <1>3 DEF EndAfter
  <2>4. EndAfter(c, k0, i)
    <3>1. Len(b) + e > i
      BY <1>1, <1>3, <2>1
    <3> QED
      BY <1>3, <2>1, <3>1 DEF EndAfter
  <2>5. ASSUME NEW j \in DOMAIN c, c[j].type = "Begin", i < j
        PROVE  \E l \in DOMAIN c : i < l /\ l < j /\ c[l].type = "End" /\ c[l].session = k
    BY <1>3, <2>2, <2>5
  <2> QED
    BY <1>5, <1>6, <2>2, <2>3, <2>4, <2>5
<1>8. EndedOnce(s, t, u)
  <2>1. CASE u = q
    BY <1>1, <2>1 DEF Answered, EndedOnce
  <2>2. CASE Taken(q, u)
    BY <1>1, <2>2, EndedTaken DEF Answered, EndedOnce
  <2> QED
    BY <2>1, <2>2 DEF Quits
<1>9. ASSUME NEW i \in DOMAIN u, u[i].type = "End", Sends(s, u[i].session),
             \A j \in DOMAIN u : u[j].type = "Begin" /\ u[j].session = u[i].session => j < i
      PROVE  Sends(o, u[i].session) \/ EndIn(b, u[i].session)
  <2>1. CASE u = q
    BY <1>9, <2>1 DEF Answered, Crossed
  <2>2. CASE Taken(q, u)
    <3>1. Crossed(s, o, u, b)
      BY <1>1, <2>2, CrossedTaken DEF Answered
    <3> QED
      BY <1>9, <3>1 DEF Crossed
  <2> QED
    BY <2>1, <2>2 DEF Quits
<1>10. Crossed(s, t, u, c)
  <2>1. \A k : Sends(s, k) => s.up
    BY <1>3 DEF Sends
  <2> QED
    BY <1>4, <1>6, <1>9, <2>1 DEF Crossed
<1>11. Heard(s, t, u, c)
  <2>1. s.role = "Sending" => s.up
    BY <1>3
  <2> QED
    BY <1>1, <1>4, <1>5, <1>6, <2>1 DEF Answered, Heard
<1> QED
  BY <1>7, <1>8, <1>10, <1>11 DEF Answered

LEMMA OtherStarts ==
  ASSUME NEW s, NEW o, NEW q, NEW b, NEW t \in Records, NEW u \in Seq(Wire),
         NEW c \in Seq(Wire), NEW out \in Seq(Wire), Linked(s, o, q, b),
         Answered(s, o, q, b), Starts(o, t, q, u, out), Sent(s, b, out, c), o.up
  PROVE  Answered(s, t, u, c)
<1> DEFINE k0 == o.next
<1>1. /\ s \in Records /\ o \in Records /\ q \in Seq(Wire) /\ b \in Seq(Wire)
      /\ k0 \in Nat /\ t.next = k0 + 1 /\ t.session = k0 /\ t.role = "Sending"
      /\ o.role = "Local" /\ u = q /\ t.up = o.up
      /\ \A i \in DOMAIN b : i \in Nat /\ i >= 1 /\ i <= Len(b)
      /\ Len(b) \in Nat
  BY WireFields DEF Linked, Records, Starts, SenderStarts
<1>2. \A e \in DOMAIN out : /\ out[e].type # "End"
                            /\ out[e].type = "Begin" => e = 1 /\ out[1].session = k0
  <2>1. CASE out = <<Begin(k0)>>
    <3>1. DOMAIN out = 1..1 /\ out[1] = Begin(k0)
      BY <2>1
    <3>2. \A e \in DOMAIN out : e = 1
      BY <3>1
    <3> QED
      BY <3>1, <3>2 DEF Begin
  <2>2. ASSUME NEW d \in Codes, out = <<Begin(k0), Input(k0, 0, Key(d, TRUE))>>
        PROVE  \A e \in DOMAIN out : /\ out[e].type # "End"
                                     /\ out[e].type = "Begin" => e = 1 /\ out[1].session = k0
    <3>1. DOMAIN out = 1..2 /\ out[1] = Begin(k0) /\ out[2] = Input(k0, 0, Key(d, TRUE))
      BY <2>2
    <3>2. \A e \in DOMAIN out : e = 1 \/ e = 2
      BY <3>1
    <3> QED
      BY <3>1, <3>2 DEF Begin, Input
  <2> QED
    BY <2>1, <2>2 DEF Starts, SenderStarts, Opening
<1> HIDE DEF k0
<1>3. /\ \A i \in DOMAIN b : i \in DOMAIN c /\ c[i] = b[i]
      /\ \A i \in DOMAIN c : /\ c[i].type = "End" => i \in DOMAIN b
                             /\ c[i].type = "Begin" =>
                                  i \in DOMAIN b \/ (i = Len(b) + 1 /\ c[i].session = k0)
  <2>1. CASE s.up
    <3>1. Grows(b, out, c)
      BY <2>1 DEF Sent
    <3> QED
      BY <1>2, <3>1 DEF Grows
  <2>2. CASE ~s.up
    BY <2>2 DEF Sent
  <2> QED
    BY <1>1, <2>1, <2>2 DEF Records
<1>4. \A k : EndIn(c, k) <=> EndIn(b, k)
  BY <1>3 DEF EndIn
<1>5. \A k : ~Sends(o, k) /\ ~Gets(o, k) /\ (Sends(t, k) <=> k = k0)
  BY <1>1 DEF Sends, Gets
<1>6. Pending(s, t, u, c)
  <2> SUFFICES ASSUME NEW k \in Nat, NEW i \in Nat, Opened(s, c, k, i), Early(s, k)
               PROVE  /\ ~EndIn(q, k)
                      /\ Sends(t, k) \/ EndAfter(c, k, i)
                      /\ \A j \in DOMAIN c : c[j].type = "Begin" /\ i < j =>
                           \E l \in DOMAIN c : /\ i < l /\ l < j
                                               /\ c[l].type = "End" /\ c[l].session = k
    BY <1>1 DEF Pending
  <2>1. CASE Opened(s, b, k, i)
    <3>1. /\ ~EndIn(q, k) /\ EndAfter(b, k, i)
          /\ \A j \in DOMAIN b : b[j].type = "Begin" /\ i < j =>
               \E l \in DOMAIN b : i < l /\ l < j /\ b[l].type = "End" /\ b[l].session = k
      BY <1>5, <2>1 DEF Answered, Pending
    <3>2. PICK l \in DOMAIN b : l > i /\ b[l].type = "End" /\ b[l].session = k
      BY <3>1 DEF EndAfter
    <3>3. l \in DOMAIN c /\ c[l] = b[l] /\ l < Len(b) + 1
      BY <1>1, <1>3
    <3>4. ASSUME NEW j \in DOMAIN c, c[j].type = "Begin", i < j
          PROVE  \E m \in DOMAIN c : i < m /\ m < j /\ c[m].type = "End" /\ c[m].session = k
      <4>1. CASE j \in DOMAIN b
        BY <1>3, <3>1, <3>4, <4>1
      <4>2. CASE j = Len(b) + 1
        BY <3>2, <3>3, <4>2
      <4> QED
        BY <1>3, <3>4, <4>1, <4>2
    <3> QED
      BY <3>1, <3>2, <3>3, <3>4 DEF EndAfter
  <2>2. CASE ~Opened(s, b, k, i)
    <3>1. i = Len(b) + 1 /\ k = k0
      BY <1>3, <2>2 DEF Opened
    <3>2. ~EndIn(q, k)
      BY <1>1, <3>1 DEF Answered, EndedOnce, k0
    <3>3. \A j \in DOMAIN c : c[j].type = "Begin" => j <= Len(b) + 1 /\ j \in Nat
      BY <1>1, <1>3
    <3>4. \A j \in DOMAIN c : c[j].type = "Begin" => ~(i < j)
      BY <1>1, <3>1, <3>3
    <3> QED
      BY <1>5, <3>1, <3>2, <3>4
  <2> QED
    BY <2>1, <2>2
<1>7. EndedOnce(s, t, u)
  <2>1. \A k \in Nat : EndIn(q, k) /\ Early(s, k) => k < k0 + 1
    BY <1>1 DEF Answered, EndedOnce, k0
  <2> QED
    BY <1>1, <2>1 DEF Answered, EndedOnce
<1>8. Crossed(s, t, u, c)
  BY <1>1, <1>4, <1>5 DEF Answered, Crossed
<1>9. Heard(s, t, u, c)
  BY <1>1, <1>4, <1>5 DEF Answered, Heard
<1> QED
  BY <1>6, <1>7, <1>8, <1>9 DEF Answered

LEMMA OtherAccepts ==
  ASSUME NEW s, NEW o, NEW q, NEW b, NEW t \in Records, NEW u \in Seq(Wire),
         NEW c \in Seq(Wire), NEW out \in Seq(Wire), Linked(s, o, q, b),
         Answered(s, o, q, b), Accepts(o, t, q, u, out), Sent(s, b, out, c)
  PROVE  Answered(s, t, u, c)
<1>1. /\ s \in Records /\ o \in Records /\ q \in Seq(Wire) /\ b \in Seq(Wire)
      /\ Taken(q, u) /\ Head(q).type = "Begin" /\ t.session = Head(q).session
      /\ o.role = "Local" /\ t.role = "Receiving" /\ t.next = o.next /\ t.up = o.up
  BY DEF Linked, Accepts
<1>2. /\ \A i \in DOMAIN b : i \in DOMAIN c /\ c[i] = b[i]
      /\ \A i \in DOMAIN c : c[i].type \in {"Begin", "End"} => i \in DOMAIN b
      /\ \A k : EndIn(c, k) <=> EndIn(b, k)
  <2>1. \A e \in DOMAIN out : FALSE
    BY DEF Accepts
  <2> QED
    BY <1>1, <2>1, SentIsQuiet
<1>3. \A k : ~Sends(o, k) /\ ~Gets(o, k) /\ ~Sends(t, k)
  BY <1>1 DEF Sends, Gets
<1>4. Pending(s, t, u, c)
  <2>1. Pending(s, o, u, c)
    BY <1>1, <1>2, PendingKept DEF Answered
  <2> QED
    BY <1>1, <1>3, <2>1 DEF Pending
<1>5. EndedOnce(s, t, u)
  BY <1>1, EndedTaken DEF Answered, EndedOnce
<1>6. Crossed(s, t, u, c)
  <2>1. Crossed(s, o, u, b)
    BY <1>1, CrossedTaken DEF Answered
  <2> QED
    BY <1>2, <1>3, <2>1 DEF Crossed
<1>7. Heard(s, t, u, c)
  <2>1. \A k : BeginIn(q, k) => BeginIn(u, k) \/ Gets(t, k)
    BY <1>1, TakenIs DEF Gets
  <2> QED
    BY <1>1, <1>2, <1>3, <2>1 DEF Answered, Heard
<1> QED
  BY <1>4, <1>5, <1>6, <1>7 DEF Answered

LEMMA OtherRefuses ==
  ASSUME NEW s, NEW o, NEW q, NEW b, NEW t \in Records, NEW u \in Seq(Wire),
         NEW c \in Seq(Wire), NEW out \in Seq(Wire), Linked(s, o, q, b),
         Answered(s, o, q, b), Refuses(o, t, q, u, out), Sent(s, b, out, c)
  PROVE  Answered(s, t, u, c)
<1> DEFINE k0 == Head(q).session
<1>1. /\ s \in Records /\ o \in Records /\ q \in Seq(Wire) /\ b \in Seq(Wire)
      /\ Taken(q, u) /\ Head(q).type = "Begin" /\ o.role # "Receiving" /\ t = o
  BY DEF Linked, Refuses
<1>2. DOMAIN out = 1..1 /\ out[1] = End(k0)
  BY DEF Refuses
<1>3. 1 \in DOMAIN out /\ (\A e \in DOMAIN out : e = 1)
      /\ out[1].type = "End" /\ out[1].session = k0
  BY <1>2 DEF End
<1>4. /\ \A i \in DOMAIN b : i \in DOMAIN c /\ c[i] = b[i]
      /\ \A i \in DOMAIN c : c[i].type = "Begin" => i \in DOMAIN b
      /\ s.up => EndIn(c, k0)
  <2>1. CASE s.up
    <3>1. Grows(b, out, c)
      BY <2>1 DEF Sent
    <3> QED
      BY <1>3, <3>1 DEF Grows, EndIn
  <2>2. CASE ~s.up
    BY <2>2 DEF Sent
  <2> QED
    BY <1>1, <2>1, <2>2 DEF Records
<1>5. \A k : EndIn(b, k) => EndIn(c, k)
  BY <1>4 DEF EndIn
<1>6. Pending(s, t, u, c)
  BY <1>1, <1>4, PendingKept DEF Answered
<1>7. EndedOnce(s, t, u)
  BY <1>1, EndedTaken DEF Answered, EndedOnce
<1>8. Crossed(s, t, u, c)
  <2>1. Crossed(s, o, u, b)
    BY <1>1, CrossedTaken DEF Answered
  <2> QED
    BY <1>1, <1>5, <2>1 DEF Crossed
<1>9. Heard(s, t, u, c)
  <2>1. \A k : BeginIn(q, k) => BeginIn(u, k) \/ k = k0
    BY <1>1, TakenIs
  <2>2. s.role = "Sending" => s.up
    BY DEF Linked
  <2> QED
    BY <1>1, <1>4, <1>5, <2>1, <2>2 DEF Answered, Heard
<1> QED
  BY <1>6, <1>7, <1>8, <1>9 DEF Answered

LEMMA OtherStops ==
  ASSUME NEW s, NEW o, NEW q, NEW b, NEW t \in Records, NEW u \in Seq(Wire),
         NEW c \in Seq(Wire), NEW out \in Seq(Wire), Linked(s, o, q, b),
         Answered(s, o, q, b), Stops(o, t, q, u, out), Sent(s, b, out, c)
  PROVE  Answered(s, t, u, c)
<1> DEFINE k0 == o.session
<1>1. /\ s \in Records /\ o \in Records /\ q \in Seq(Wire) /\ b \in Seq(Wire)
      /\ Taken(q, u) /\ Head(q).type = "End" /\ Head(q).session = k0
      /\ o.role \in {"Sending", "Receiving"} /\ t.role = "Local" /\ t.next = o.next
      /\ t.up = o.up /\ k0 \in Nat
  BY DEF Linked, Stops, Within, Records
<1>2. /\ \A i \in DOMAIN b : i \in DOMAIN c /\ c[i] = b[i]
      /\ \A i \in DOMAIN c : c[i].type \in {"Begin", "End"} => i \in DOMAIN b
      /\ \A k : EndIn(c, k) <=> EndIn(b, k)
  <2>1. \A e \in DOMAIN out : FALSE
    BY DEF Stops
  <2> QED
    BY <1>1, <2>1, SentIsQuiet
<1>3. \A k : ~Sends(t, k) /\ ~Gets(t, k) /\ (Sends(o, k) => k = k0) /\ (Gets(o, k) => k = k0)
  BY <1>1 DEF Sends, Gets
<1>4. 1 \in DOMAIN q /\ q[1].type = "End" /\ q[1].session = k0 /\ EndIn(q, k0)
  BY <1>1, TakenIs DEF EndIn
<1> HIDE DEF k0
<1>5. Pending(s, t, u, c)
  <2> SUFFICES ASSUME NEW k \in Nat, NEW i \in Nat, Opened(s, c, k, i), Early(s, k)
               PROVE  /\ ~EndIn(u, k)
                      /\ o.up => EndAfter(c, k, i)
                      /\ \A j \in DOMAIN c : c[j].type = "Begin" /\ i < j =>
                           \E l \in DOMAIN c : /\ i < l /\ l < j
                                               /\ c[l].type = "End" /\ c[l].session = k
    BY <1>1 DEF Pending
  <2>1. /\ ~EndIn(u, k)
        /\ o.up => Sends(o, k) \/ EndAfter(c, k, i)
        /\ \A j \in DOMAIN c : c[j].type = "Begin" /\ i < j =>
             \E l \in DOMAIN c : i < l /\ l < j /\ c[l].type = "End" /\ c[l].session = k
    <3>1. Pending(s, o, u, c)
      BY <1>1, <1>2, PendingKept DEF Answered
    <3> QED
      BY <3>1 DEF Pending
  <2>2. ~Sends(o, k)
    <3>1. ~EndIn(q, k)
      BY <1>2 DEF Opened, Answered, Pending
    <3> QED
      BY <1>3, <1>4, <3>1
  <2> QED
    BY <2>1, <2>2
<1>6. EndedOnce(s, t, u)
  BY <1>1, EndedTaken DEF Answered, EndedOnce
<1>7. Crossed(s, t, u, c)
  <2> SUFFICES ASSUME NEW i \in DOMAIN u, u[i].type = "End", Sends(s, u[i].session),
                      \A j \in DOMAIN u :
                        u[j].type = "Begin" /\ u[j].session = u[i].session => j < i
               PROVE  EndIn(c, u[i].session)
    BY DEF Crossed
  <2>1. Sends(o, u[i].session) \/ EndIn(b, u[i].session)
    <3>1. Crossed(s, o, u, b)
      BY <1>1, CrossedTaken DEF Answered
    <3> QED
      BY <3>1 DEF Crossed
  <2>2. ~Sends(o, u[i].session)
    <3> SUFFICES ASSUME u[i].session = k0 PROVE FALSE
      BY <1>3
    <3>1. i + 1 \in DOMAIN q /\ q[i + 1] = u[i] /\ i + 1 # 1
      BY <1>1, TakenIs
    <3> QED
      BY <1>4, <3>1 DEF Answered, EndedOnce, Early
  <2> QED
    BY <1>2, <2>1, <2>2
<1>8. Heard(s, t, u, c)
  <2> SUFFICES ASSUME s.role = "Sending", o.up
               PROVE  BeginIn(u, s.session) \/ EndIn(b, s.session)
    BY <1>1, <1>2 DEF Heard
  <2>1. BeginIn(q, s.session) => BeginIn(u, s.session)
    BY <1>1, TakenIs
  <2>2. CASE Gets(o, s.session)
    <3>1. s.session = k0 /\ o.role = "Receiving"
      BY <1>3, <2>2 DEF Gets
    <3>2. \A j \in DOMAIN q : ~(q[j].type = "Begin" /\ q[j].session = k0)
      BY <2>2, <3>1 DEF Linked, Numbered
    <3>3. Sends(o, k0) \/ EndIn(b, k0)
      BY <1>4, <3>1, <3>2 DEF Answered, Crossed, Sends
    <3> QED
      BY <3>1, <3>3 DEF Sends
  <2> QED
    BY <2>1, <2>2 DEF Answered, Heard
<1> QED
  BY <1>5, <1>6, <1>7, <1>8 DEF Answered

LEMMA OtherGone ==
  ASSUME NEW s, NEW o, NEW q, NEW b, NEW t \in Records, NEW u \in Seq(Wire),
         NEW c \in Seq(Wire), NEW out \in Seq(Wire), Linked(s, o, q, b),
         Answered(s, o, q, b), Gone(o, t, q, u, out), Sent(s, b, out, c)
  PROVE  Answered(s, t, u, c)
<1>1. /\ s \in Records /\ b \in Seq(Wire) /\ u = <<>> /\ ~t.up
  BY DEF Linked, Gone
<1>2. /\ \A i \in DOMAIN b : i \in DOMAIN c /\ c[i] = b[i]
      /\ \A i \in DOMAIN c : c[i].type \in {"Begin", "End"} => i \in DOMAIN b
  <2>1. \A e \in DOMAIN out : FALSE
    BY DEF Gone
  <2> QED
    BY <1>1, <2>1, SentIsQuiet
<1>3. (\A i \in DOMAIN u : FALSE) /\ \A k : ~EndIn(u, k)
  BY <1>1 DEF EndIn
<1>4. Pending(s, t, u, c)
  <2> SUFFICES ASSUME NEW k \in Nat, NEW i \in Nat, Opened(s, c, k, i), Early(s, k)
               PROVE  \A j \in DOMAIN c : c[j].type = "Begin" /\ i < j =>
                        \E l \in DOMAIN c : /\ i < l /\ l < j
                                            /\ c[l].type = "End" /\ c[l].session = k
    BY <1>1, <1>3 DEF Pending
  <2>1. Opened(s, b, k, i)
    BY <1>2 DEF Opened
  <2>2. \A j \in DOMAIN b : b[j].type = "Begin" /\ i < j =>
          \E l \in DOMAIN b : i < l /\ l < j /\ b[l].type = "End" /\ b[l].session = k
    BY <2>1 DEF Answered, Pending
  <2>3. ASSUME NEW j \in DOMAIN c, c[j].type = "Begin", i < j
        PROVE  \E l \in DOMAIN c : i < l /\ l < j /\ c[l].type = "End" /\ c[l].session = k
    BY <1>2, <2>2, <2>3
  <2> QED
    BY <2>3
<1>5. EndedOnce(s, t, u) /\ Crossed(s, t, u, c) /\ Heard(s, t, u, c)
  BY <1>1, <1>3 DEF EndedOnce, Crossed, Heard
<1> QED
  BY <1>4, <1>5 DEF Answered

-----------------------------------------------------------------------------
(* What a step of a node may be, for its sessions                            *)

\* Nothing is begun, ended, sent or injected.
Idles(s, t, b, c, out) ==
  /\ Stays(s, t, b, c, out) /\ KeepsSending(s, t) /\ KeepsReceiving(s, t)
  /\ \A e \in DOMAIN out : ~Data(out[e])
  /\ c # b /\ Head(b).type = "Input" => ~Gets(t, Head(b).session)
Forwards(s, t, b, c, out) == t.up = s.up /\ SenderForwards(s, t, out) /\ c = b
Injects(s, t, b, c, out) ==
  /\ t.up = s.up /\ t.next = s.next /\ out = <<>>
  /\ Taken(b, c) /\ Head(b).type = "Input" /\ Gets(s, Head(b).session)
  /\ s.expected = Head(b).sequence
  /\ t.role = "Receiving" /\ t.session = s.session /\ t.expected = s.expected + 1
  /\ t.held = IF Head(b).event.pressed THEN s.held \cup {Head(b).event.code}
              ELSE s.held \ {Head(b).event.code}
Moves(s, t, b, c, out) ==
  \/ Gone(s, t, b, c, out)
  \/ /\ s.up
     /\ \/ Idles(s, t, b, c, out) \/ Quits(s, t, b, c, out)
        \/ Forwards(s, t, b, c, out) \/ Accepts(s, t, b, c, out)
        \/ Refuses(s, t, b, c, out) \/ Injects(s, t, b, c, out) \/ Stops(s, t, b, c, out)
Steps(s, t, b, c, out) == Moves(s, t, b, c, out) \/ (s.up /\ Starts(s, t, b, c, out))

\* All that relates the two ends of the connection, in both directions.
Stream(s, r, q) == Numbered(s, r, q) /\ Sequenced(s, r, q) /\ Mirrored(s, r, q)
Paired(s, o, q, b) ==
  /\ s \in Records /\ o \in Records /\ q \in Seq(Wire) /\ b \in Seq(Wire)
  /\ s.up \/ s.role = "Local"
  /\ o.up \/ o.role = "Local"
  /\ Stream(s, o, q) /\ Stream(o, s, b)
  /\ Answered(s, o, q, b) /\ Answered(o, s, b, q)

\* The inputs that a node sends.
LEMMA MovesSending ==
  ASSUME NEW s \in Records, NEW t \in Records, NEW o \in Records, o.up \/ o.role = "Local",
         NEW q \in Seq(Wire), NEW u \in Seq(Wire), NEW out \in Seq(Wire), NEW b, NEW c,
         Steps(s, t, b, c, out), Sent(o, q, out, u), Stream(s, o, q)
  PROVE  Stream(t, o, u)
<1>1. /\ u = q \/ (o.up /\ Grows(q, out, u))
      /\ (u = q /\ ~o.up) \/ (o.up /\ Grows(q, out, u))
  BY DEF Sent
<1>2. CASE KeepsSending(s, t) /\ \A e \in DOMAIN out : ~Data(out[e])
  BY <1>1, <1>2, SenderStill DEF Stream
<1>3. CASE Starts(s, t, b, c, out)
  BY <1>1, <1>3, SenderStarting DEF Stream, Starts
<1>4. CASE Forwards(s, t, b, c, out)
  BY <1>1, <1>4, SenderForwarding DEF Stream, Forwards
<1>5. CASE \/ Gone(s, t, b, c, out) \/ Accepts(s, t, b, c, out)
           \/ Injects(s, t, b, c, out) \/ Stops(s, t, b, c, out)
  <2>1. KeepsSending(s, t)
    BY <1>5 DEF KeepsSending, Gone, Accepts, Injects, Stops
  <2>2. \A e \in DOMAIN out : ~Data(out[e])
    BY <1>5 DEF Gone, Accepts, Injects, Stops
  <2> QED
    BY <1>2, <2>1, <2>2
<1>6. CASE Quits(s, t, b, c, out)
  <2>1. KeepsSending(s, t)
    BY <1>6 DEF KeepsSending, Quits
  <2>2. \A e \in DOMAIN out : ~Data(out[e])
    BY <1>6 DEF Quits, Closing, Neutral, Data
  <2> QED
    BY <1>2, <2>1, <2>2
<1>7. CASE Refuses(s, t, b, c, out)
  <2>1. KeepsSending(s, t)
    BY <1>7 DEF KeepsSending, Refuses
  <2>2. \A e \in DOMAIN out : out[e] = End(Head(b).session)
    BY <1>7 DEF Refuses
  <2> QED
    BY <1>2, <2>1, <2>2 DEF End, Data
<1> QED
  BY <1>2, <1>3, <1>4, <1>5, <1>6, <1>7 DEF Steps, Moves, Idles

\* The inputs that a node receives.
LEMMA MovesReceiving ==
  ASSUME NEW s \in Records, NEW t \in Records, NEW o \in Records,
         NEW b \in Seq(Wire), NEW c \in Seq(Wire), NEW out,
         Steps(s, t, b, c, out), Stream(o, s, b)
  PROVE  Stream(o, t, c)
<1>1. CASE Gone(s, t, b, c, out)
  BY <1>1, ReceiverGone DEF Stream, Gone
<1>2. CASE Accepts(s, t, b, c, out) /\ s.up
  <2>1. Shrinks(b, c) /\ s.role # "Receiving"
    BY <1>2 DEF Accepts, Taken
  <2> QED
    BY <1>2, <2>1, ReceiverAccepting DEF Stream, Accepts
<1>3. CASE Injects(s, t, b, c, out) /\ s.up
  <2>1. Shrinks(b, c)
    BY <1>3 DEF Injects, Taken
  <2> QED
    BY <1>3, <2>1, ReceiverInjecting DEF Stream, Injects
<1>4. CASE /\ s.up /\ KeepsReceiving(s, t)
           /\ \/ c = b
              \/ Shrinks(b, c) /\ (Head(b).type = "Input" => ~Gets(t, Head(b).session))
  BY <1>4, ReceiverStill DEF Stream
<1>5. CASE s.up /\ Idles(s, t, b, c, out)
  BY <1>4, <1>5 DEF Idles, Stays, Taken
<1>6. CASE s.up /\ (Quits(s, t, b, c, out) \/ Stops(s, t, b, c, out))
  <2>1. t.up = s.up /\ t.role = "Local" /\ (c = b \/ Shrinks(b, c))
    BY <1>6 DEF Quits, Stops, Taken
  <2> QED
    BY <1>4, <1>6, <2>1 DEF KeepsReceiving, Gets
<1>7. CASE s.up /\ (Starts(s, t, b, c, out) \/ Forwards(s, t, b, c, out))
  <2>1. t.up = s.up /\ t.role = "Sending" /\ c = b
    BY <1>7 DEF Starts, Forwards, SenderStarts, SenderForwards
  <2> QED
    BY <1>4, <1>7, <2>1 DEF KeepsReceiving
<1>8. CASE s.up /\ Refuses(s, t, b, c, out)
  <2>1. t = s /\ Shrinks(b, c) /\ Head(b).type # "Input"
    BY <1>8 DEF Refuses, Taken
  <2> QED
    BY <1>4, <1>8, <2>1 DEF KeepsReceiving
<1> QED
  BY <1>1, <1>2, <1>3, <1>5, <1>6, <1>7, <1>8 DEF Steps, Moves

\* Steps that only go on with a session.
LEMMA MovesStays ==
  ASSUME NEW s \in Records, NEW t, NEW b \in Seq(Wire), NEW c, NEW out \in Seq(Wire),
         Forwards(s, t, b, c, out) \/ Injects(s, t, b, c, out)
  PROVE  Stays(s, t, b, c, out)
<1>1. CASE Forwards(s, t, b, c, out)
  <2>1. \A e \in DOMAIN out : \E c2 \in Codes, p \in BOOLEAN :
          out[e] = Input(s.session, s.sequence, Key(c2, p))
    BY <1>1 DEF Forwards, SenderForwards
  <2>2. \A e \in DOMAIN out : out[e].type # "Begin" /\ out[e].type # "End"
    BY <2>1 DEF Input
  <2> QED
    BY <1>1, <2>2 DEF Forwards, SenderForwards, Stays
<1>2. CASE Injects(s, t, b, c, out)
  <2>1. DOMAIN out = {}
    BY <1>2 DEF Injects
  <2> QED
    BY <1>2, <2>1 DEF Injects, Stays, Gets
<1> QED
  BY <1>1, <1>2

\* Every step keeps what relates the two ends.
LEMMA MovesPaired ==
  ASSUME NEW s, NEW o, NEW q, NEW b, NEW t \in Records, NEW u \in Seq(Wire),
         NEW c \in Seq(Wire), NEW out \in Seq(Wire), Paired(s, o, q, b),
         t.up \/ t.role = "Local", Steps(s, t, b, c, out), Sent(o, q, out, u)
  PROVE  Paired(t, o, u, c)
<1>1. /\ s \in Records /\ o \in Records /\ q \in Seq(Wire) /\ b \in Seq(Wire)
      /\ o.up \/ o.role = "Local"
      /\ Linked(s, o, q, b) /\ Linked(o, s, b, q)
      /\ Answered(s, o, q, b) /\ Answered(o, s, b, q)
  BY DEF Paired, Stream, Linked
<1>2. Stream(t, o, u)
  BY <1>1, MovesSending DEF Paired
<1>3. Stream(o, t, c)
  BY <1>1, MovesReceiving DEF Paired
<1>4. Answered(t, o, u, c) /\ Answered(o, t, c, u)
  <2>1. CASE Stays(s, t, b, c, out)
    BY <1>1, <2>1, OwnStays, OtherStays
  <2>2. CASE Quits(s, t, b, c, out)
    BY <1>1, <2>2, OwnQuits, OtherQuits
  <2>3. CASE s.up /\ Starts(s, t, b, c, out)
    BY <1>1, <2>3, OwnStarts, OtherStarts
  <2>4. CASE Accepts(s, t, b, c, out)
    BY <1>1, <2>4, OwnAccepts, OtherAccepts
  <2>5. CASE Refuses(s, t, b, c, out)
    BY <1>1, <2>5, OwnRefuses, OtherRefuses
  <2>6. CASE Stops(s, t, b, c, out)
    BY <1>1, <2>6, OwnStops, OtherStops
  <2>7. CASE Gone(s, t, b, c, out)
    BY <1>1, <2>7, OwnStops, OtherGone
  <2> QED
    BY <1>1, <2>1, <2>2, <2>3, <2>4, <2>5, <2>6, <2>7, MovesStays DEF Steps, Moves, Idles
<1> QED
  BY <1>1, <1>2, <1>3, <1>4 DEF Paired

-----------------------------------------------------------------------------
(* Handlers, as values *)

\* A node that returns to local control, with the End it owes or nothing.
LEMMA ReturnMoves ==
  ASSUME NEW s \in Records, NEW t \in Records, NEW m \in Records, s.up,
         m.role = s.role, m.session = s.session,
         t.up = s.up, t.next = s.next, t.role = "Local",
         NEW b \in Seq(Wire), NEW c \in Seq(Wire),
         \/ c = b
         \/ Taken(b, c) /\ (Neutral(Head(b)) \/ (Head(b).type = "Input" /\ s.role # "Local")),
         NEW pre \in Seq(Wire), pre = <<>> \/ \E w \in Wire : Neutral(w) /\ pre = <<w>>,
         NEW out \in Seq(Wire), out = pre \o EndMessage(m)
  PROVE  Moves(s, t, b, c, out)
<1>1. CASE s.role = "Local"
  <2>1. out = pre
    BY <1>1 DEF EndMessage
  <2>2. \A e \in DOMAIN out : Neutral(out[e])
    BY <2>1
  <2>3. Taken(b, c) => Neutral(Head(b))
    BY <1>1 DEF Taken, Shrinks
  <2>4. Stays(s, t, b, c, out)
    BY <1>1, <2>2, <2>3 DEF Stays, Neutral
  <2>5. KeepsSending(s, t) /\ KeepsReceiving(s, t)
    BY DEF KeepsSending, KeepsReceiving
  <2> QED
    BY <1>1, <2>2, <2>4, <2>5 DEF Moves, Idles, Neutral, Data, Gets
<1>2. CASE s.role # "Local"
  <2>1. out = pre \o <<End(s.session)>>
    BY <1>2 DEF EndMessage
  <2>2. End(s.session).type = "End" /\ End(s.session).session = s.session
    BY DEF End
  <2>3. Closing(out, s.session)
    <3>1. CASE pre = <<>>
      <4>1. DOMAIN out = 1..1 /\ out[1] = End(s.session)
        BY <2>1, <3>1
      <4> QED
        BY <2>2, <4>1 DEF Closing
    <3>2. ASSUME NEW w \in Wire, Neutral(w), pre = <<w>>
          PROVE  Closing(out, s.session)
      <4>1. DOMAIN out = 1..2 /\ out[1] = w /\ out[2] = End(s.session)
        BY <2>1, <3>2
      <4>2. 2 \in DOMAIN out /\ \A f \in DOMAIN out : f # 2 => out[f] = w
        BY <4>1
      <4> QED
        BY <2>2, <3>2, <4>1, <4>2 DEF Closing
    <3> QED
      BY <3>1, <3>2
  <2> QED
    BY <1>2, <2>3 DEF Moves, Quits
<1> QED
  BY <1>1, <1>2

\* A node that stays in the session it is in, if any.
LEMMA IdleMoves ==
  ASSUME NEW s \in Records, NEW t \in Records, s.up, t.up = s.up, t.next = s.next,
         t.role = s.role, t.session = s.session, t.sequence = s.sequence,
         t.source = s.source, t.expected = s.expected,
         s.role = "Receiving" => t.held = s.held,
         NEW b \in Seq(Wire), NEW c \in Seq(Wire),
         \/ c = b
         \/ /\ Taken(b, c) /\ Head(b).type # "Begin"
            /\ Head(b).type = "Input" => ~Gets(s, Head(b).session)
            /\ Head(b).type = "End" => ~Within(s, Head(b).session),
         NEW out \in Seq(Wire), out = <<>> \/ \E w \in Wire : Neutral(w) /\ out = <<w>>
  PROVE  Moves(s, t, b, c, out)
<1>1. \A e \in DOMAIN out : Neutral(out[e])
  OBVIOUS
<1>2. Stays(s, t, b, c, out)
  BY <1>1 DEF Stays, Neutral
<1>3. KeepsSending(s, t) /\ KeepsReceiving(s, t)
  BY DEF KeepsSending, KeepsReceiving
<1>4. \A k : Gets(t, k) <=> Gets(s, k)
  BY DEF Gets
<1>5. \A e \in DOMAIN out : ~Data(out[e])
  BY <1>1 DEF Neutral, Data
<1> QED
  BY <1>2, <1>3, <1>4, <1>5 DEF Moves, Idles

-----------------------------------------------------------------------------
(* Actions *)

\* An action of Bridge, as what it does to the sessions of n.
Moved(n) ==
  \E out \in Seq(Wire) :
    /\ node'[Peer(n)] = node[Peer(n)]
    /\ Sent(node[Peer(n)], inbox[Peer(n)], out, inbox'[Peer(n)])
    /\ \/ Moves(node[n], node'[n], inbox[n], inbox'[n], out)
       \/ /\ n \in Senders /\ node[n].up
          /\ Starts(node[n], node'[n], inbox[n], inbox'[n], out)

LEMMA QueuedIs ==
  ASSUME IInv, NEW n \in Nodes, NEW out \in Seq(Wire)
  PROVE  Sent(node[Peer(n)], inbox[Peer(n)], out, Queued(Peer(n), out))
<1>1. inbox[Peer(n)] \in Seq(Wire) /\ node[Peer(n)].up \in BOOLEAN
  BY PeerIn DEF IInv, Records
<1>2. Grows(inbox[Peer(n)], out, inbox[Peer(n)] \o out)
  BY <1>1, GrowsIs
<1> QED
  BY <1>1, <1>2 DEF Sent, Queued

LEMMA ActsMoved ==
  ASSUME IInv, NEW n \in Nodes, NEW s, NEW out \in Seq(Wire), Acts(n, s, out),
         \/ Moves(node[n], s, inbox[n], inbox[n], out)
         \/ n \in Senders /\ node[n].up /\ Starts(node[n], s, inbox[n], inbox[n], out)
  PROVE  Moved(n)
<1>1. Peer(n) \in Nodes /\ Peer(n) # n
  BY PeerIn
<1>2. node'[n] = s /\ node'[Peer(n)] = node[Peer(n)]
  BY <1>1 DEF Acts, IInv
<1>3. inbox'[n] = inbox[n] /\ inbox'[Peer(n)] = Queued(Peer(n), out)
  BY <1>1 DEF Acts, IInv
<1>4. Sent(node[Peer(n)], inbox[Peer(n)], out, Queued(Peer(n), out))
  BY QueuedIs
<1> QED
  BY <1>2, <1>3, <1>4 DEF Moved

LEMMA HandlesMoved ==
  ASSUME IInv, NEW n \in Nodes, NEW s, NEW out \in Seq(Wire), Handles(n, s, out),
         Moves(node[n], s, inbox[n], Tail(inbox[n]), out)
  PROVE  Moved(n)
<1>1. Peer(n) \in Nodes /\ Peer(n) # n
  BY PeerIn
<1>2. node'[n] = s /\ node'[Peer(n)] = node[Peer(n)]
  BY <1>1 DEF Handles, IInv
<1>3. inbox'[n] = Tail(inbox[n]) /\ inbox'[Peer(n)] = Queued(Peer(n), out)
  BY <1>1 DEF Handles, IInv
<1>4. Sent(node[Peer(n)], inbox[Peer(n)], out, Queued(Peer(n), out))
  BY QueuedIs
<1> QED
  BY <1>2, <1>3, <1>4 DEF Moved

\* What the returns to local control leave alone.
LEMMA ReturnFields ==
  ASSUME NEW s \in Records
  PROVE  /\ Stopped(s) \in Records /\ Stopped(s).up = s.up /\ Stopped(s).next = s.next
         /\ Stopped(s).role = s.role /\ Stopped(s).session = s.session
         /\ Stopped(s).sequence = s.sequence /\ Stopped(s).source = s.source
         /\ Stopped(s).expected = s.expected
         /\ Local(s) \in Records /\ Local(s).up = s.up /\ Local(s).next = s.next
         /\ Local(s).role = "Local"
BY DEF Stopped, Local, Records, NoSession

LEMMA EndedFields ==
  ASSUME NEW s \in Records
  PROVE  /\ Ended(s) \in Records /\ Ended(s).up = s.up /\ Ended(s).next = s.next
         /\ Ended(s).role = "Local"
<1>1. Ended(s) = Local(s) \/ Ended(s) = Local(Stopped(s))
  BY DEF Ended, EndReceiver
<1>2. /\ Stopped(s) \in Records /\ Stopped(s).up = s.up /\ Stopped(s).next = s.next
  BY ReturnFields
<1> QED
  BY <1>1, <1>2, ReturnFields

LEMMA ClosedFields ==
  ASSUME NEW s \in Records
  PROVE  /\ Closed(s) \in Records /\ Closed(s).up = FALSE /\ Closed(s).next = s.next
         /\ Closed(s).role = "Local"
<1> DEFINE t == Ended(Stopped(s))
<1>1. t \in Records /\ t.next = s.next /\ t.role = "Local"
  BY ReturnFields, EndedFields
<1>2. Closed(s) = [t EXCEPT !.up = FALSE, !.configuring = FALSE]
  BY DEF Closed
<1> HIDE DEF t
<1> QED
  BY <1>1, <1>2 DEF Records

LEMMA FailsMoved ==
  ASSUME IInv, NEW n \in Nodes, Fails(n)
  PROVE  Moved(n)
<1>1. Peer(n) \in Nodes /\ Peer(n) # n /\ node[n] \in Records /\ <<>> \in Seq(Wire)
  BY PeerIn DEF IInv
<1>2. node'[n] = Closed(node[n]) /\ node'[Peer(n)] = node[Peer(n)]
  BY <1>1 DEF Fails, IInv
<1>3. inbox'[n] = <<>> /\ inbox'[Peer(n)] = inbox[Peer(n)]
  BY <1>1 DEF Fails, IInv
<1>4. Gone(node[n], Closed(node[n]), inbox[n], <<>>, <<>>)
  BY <1>1, ClosedFields DEF Gone
<1>5. Sent(node[Peer(n)], inbox[Peer(n)], <<>>, inbox[Peer(n)])
  <2>1. inbox[Peer(n)] \in Seq(Wire) /\ node[Peer(n)].up \in BOOLEAN
    BY <1>1 DEF IInv, Records
  <2>2. inbox[Peer(n)] \o <<>> = inbox[Peer(n)]
    BY <2>1
  <2> QED
    BY <1>1, <2>1, <2>2, GrowsIs DEF Sent
<1> QED
  BY <1>1, <1>2, <1>3, <1>4, <1>5 DEF Moved, Moves

\* Of a node before a step: the facts that the lemmas above ask for.
LEMMA NodeIs ==
  ASSUME IInv, NEW n \in Nodes
  PROVE  /\ node[n] \in Records /\ Sound(node[n]) /\ node[n].session \in Nat
         /\ inbox[n] \in Seq(Wire) /\ EndMessage(node[n]) \in Seq(Wire)
         /\ <<>> \in Seq(Wire)
         /\ inbox[n] # <<>> => /\ Taken(inbox[n], Tail(inbox[n]))
                               /\ Tail(inbox[n]) \in Seq(Wire)
                               /\ Head(inbox[n]) \in Wire
<1>1. node[n] \in Records /\ Sound(node[n]) /\ node[n].session \in Nat /\ inbox[n] \in Seq(Wire)
  BY DEF IInv, Records
<1> QED
  BY <1>1, EndMessageIs, ShrinksIs DEF Taken

LEMMA EndsMoved ==
  ASSUME IInv, NEW n \in Nodes,
         \/ Release(n) \/ PhysicalActivity(n) \/ Emergency(n) \/ ReturnControl(n)
         \/ CaptureFinished(n) \/ Configure(n)
         \/ CaptureLost(n) /\ node[n].role = "Sending"
  PROVE  Moved(n)
<1> DEFINE r == node[n]
           b == inbox[n]
           ended == Ended(r)
<1>1. r \in Records /\ b \in Seq(Wire) /\ EndMessage(r) \in Seq(Wire) /\ r.up
  BY NodeIs DEF Release, PhysicalActivity, Emergency, ReturnControl, CaptureFinished,
                Configure, CaptureLost, Event
<1>2. PICK t \in Records : /\ Acts(n, t, EndMessage(r))
                           /\ t.up = r.up /\ t.next = r.next /\ t.role = "Local"
  <2>1. \/ Acts(n, Ended(r), EndMessage(r))
        \/ Acts(n, Local(Stopped(r)), EndMessage(r))
        \/ Acts(n, Local(r), EndMessage(r))
        \/ Acts(n, [ended EXCEPT !.configuring = TRUE], EndMessage(r))
    BY DEF Release, PhysicalActivity, Emergency, ReturnControl, CaptureFinished,
           Configure, CaptureLost
  <2>2. /\ Ended(r) \in Records /\ Ended(r).up = r.up /\ Ended(r).next = r.next
        /\ Ended(r).role = "Local"
    BY <1>1, EndedFields
  <2>3. /\ Local(Stopped(r)) \in Records /\ Local(Stopped(r)).up = r.up
        /\ Local(Stopped(r)).next = r.next /\ Local(Stopped(r)).role = "Local"
        /\ Local(r) \in Records /\ Local(r).up = r.up /\ Local(r).next = r.next
        /\ Local(r).role = "Local"
    BY <1>1, ReturnFields
  <2> DEFINE v == [ended EXCEPT !.configuring = TRUE]
  <2> HIDE DEF ended, r
  <2>4. v \in Records /\ v.up = r.up /\ v.next = r.next /\ v.role = "Local"
    BY <2>2 DEF Records, ended
  <2> HIDE DEF v
  <2> QED
    BY <2>1, <2>2, <2>3, <2>4 DEF v
<1>3. <<>> \in Seq(Wire) /\ EndMessage(r) = <<>> \o EndMessage(r)
  BY <1>1
<1>4. Moves(r, t, b, b, EndMessage(r))
  BY <1>1, <1>2, <1>3, ReturnMoves
<1> QED
  BY <1>1, <1>2, <1>4, ActsMoved

LEMMA OutputsMoved ==
  ASSUME IInv, NEW n \in Nodes, OutputsChanged(n) \/ HandleDesktop(n)
  PROVE  Moved(n)
<1>1. node[n] \in Records /\ inbox[n] \in Seq(Wire) /\ <<>> \in Seq(Wire)
  BY NodeIs
<1>2. ASSUME NEW r \in Records, r.up, NEW s, NEW o \in BOOLEAN,
             s = [r EXCEPT !.outputs = o] \/ s = [r EXCEPT !.peerOutputs = o],
             NEW b \in Seq(Wire), NEW c \in Seq(Wire), c = b \/ (Taken(b, c) /\ Neutral(Head(b))),
             NEW pre \in Seq(Wire), pre = <<>> \/ \E w \in Wire : Neutral(w) /\ pre = <<w>>
      PROVE  /\ pre \o EpochMessage(s) \in Seq(Wire)
             /\ Moves(r, AfterEpoch(s), b, c, pre \o EpochMessage(s))
  <2>1. /\ s \in Records /\ s.up = r.up /\ s.next = r.next /\ s.role = r.role
        /\ s.session = r.session /\ s.sequence = r.sequence /\ s.source = r.source
        /\ s.expected = r.expected /\ s.held = r.held /\ s.session \in Nat
    BY <1>2 DEF Records
  <2>2. EndMessage(s) \in Seq(Wire) /\ pre \o EndMessage(s) \in Seq(Wire) /\ pre \o <<>> = pre
    BY <2>1, EndMessageIs
  <2>3. CASE Outdated(s)
    <3>1. EpochMessage(s) = EndMessage(s) /\ AfterEpoch(s) = Ended(s)
      BY <2>3 DEF EpochMessage, AfterEpoch
    <3>2. /\ Ended(s) \in Records /\ Ended(s).up = r.up /\ Ended(s).next = r.next
          /\ Ended(s).role = "Local"
      BY <2>1, EndedFields
    <3>3. Moves(r, Ended(s), b, c, pre \o EndMessage(s))
      BY <1>2, <2>1, <2>2, <3>2, ReturnMoves
    <3> QED
      BY <2>2, <3>1, <3>3
  <2>4. CASE ~Outdated(s)
    <3>1. EpochMessage(s) = <<>> /\ AfterEpoch(s) = s
      BY <2>4 DEF EpochMessage, AfterEpoch
    <3>2. \/ c = b
          \/ /\ Taken(b, c) /\ Head(b).type # "Begin"
             /\ Head(b).type = "Input" => ~Gets(r, Head(b).session)
             /\ Head(b).type = "End" => ~Within(r, Head(b).session)
      BY <1>2 DEF Neutral
    <3>3. Moves(r, s, b, c, pre)
      BY <1>2, <2>1, <3>2, IdleMoves
    <3> QED
      BY <1>2, <2>2, <3>1, <3>3
  <2> QED
    BY <2>3, <2>4
<1>3. CASE OutputsChanged(n)
  <2> DEFINE r == node[n]
             o == ~r.outputs
             s == [r EXCEPT !.outputs = o]
             pre == <<Desktop(s.outputs)>>
  <2>1. Acts(n, AfterEpoch(s), pre \o EpochMessage(s)) /\ r.up
    BY <1>3 DEF OutputsChanged, Event
  <2>2. o \in BOOLEAN /\ s.outputs \in BOOLEAN
    BY <1>1 DEF Records
  <2> HIDE DEF o, s, r
  <2>3. pre \in Seq(Wire) /\ \E w \in Wire : Neutral(w) /\ pre = <<w>>
    <3>1. Desktop(s.outputs) \in Wire /\ Neutral(Desktop(s.outputs))
      BY <2>2 DEF Wire, Neutral, Desktop
    <3> QED
      BY <3>1
  <2> HIDE DEF pre
  <2>4. /\ pre \o EpochMessage(s) \in Seq(Wire)
        /\ Moves(r, AfterEpoch(s), inbox[n], inbox[n], pre \o EpochMessage(s))
    <3>1. r \in Records /\ s = [r EXCEPT !.outputs = o]
      BY <1>1 DEF r, s
    <3> QED
      BY <1>1, <1>2, <2>1, <2>2, <2>3, <3>1
  <2> QED
    BY <2>1, <2>4, ActsMoved DEF r
<1>4. CASE HandleDesktop(n)
  <2> DEFINE r == node[n]
             b == inbox[n]
             o == Head(b).outputs
             s == [r EXCEPT !.peerOutputs = o]
  <2>1. Handles(n, AfterEpoch(s), EpochMessage(s)) /\ Received(n, "Desktop")
    BY <1>4 DEF HandleDesktop
  <2>2. /\ r.up /\ Head(b).type = "Desktop" /\ Taken(b, Tail(b)) /\ Tail(b) \in Seq(Wire)
        /\ Head(b) \in Wire
    BY <2>1, NodeIs DEF Received
  <2>3. o \in BOOLEAN /\ Neutral(Head(b))
    BY <2>2 DEF Wire, Begin, Input, End, LockState, Desktop, Neutral
  <2> HIDE DEF o, s, r, b
  <2>4. /\ <<>> \o EpochMessage(s) \in Seq(Wire)
        /\ Moves(r, AfterEpoch(s), b, Tail(b), <<>> \o EpochMessage(s))
    <3>1. r \in Records /\ b \in Seq(Wire) /\ s = [r EXCEPT !.peerOutputs = o]
      BY <1>1 DEF r, s, b
    <3> QED
      BY <1>1, <1>2, <2>2, <2>3, <3>1
  <2>5. <<>> \o EpochMessage(s) = EpochMessage(s)
    <3>1. EpochMessage(s) \in {<<>>, <<End(s.session)>>}
      BY DEF EpochMessage, EndMessage
    <3> QED
      BY <3>1
  <2> QED
    BY <2>1, <2>4, <2>5, HandlesMoved DEF r, b
<1> QED
  BY <1>3, <1>4

LEMMA StatusMoved ==
  ASSUME IInv, NEW n \in Nodes, StatusChanged(n)
  PROVE  Moved(n)
<1> DEFINE r == node[n]
           b == inbox[n]
<1>1. PICK ready \in BOOLEAN :
        LET s == LocalLock([r EXCEPT !.localReady = ready], ~ready)
        IN  IF ready
              THEN Acts(n, s, <<LockState(FALSE)>>)
              ELSE Acts(n, Local(s), <<LockState(TRUE)>> \o EndMessage(s))
  BY DEF StatusChanged
<1> DEFINE t == [r EXCEPT !.localReady = ready]
           v == [t EXCEPT !.localLocked = ~ready]
           s == LocalLock(t, ~ready)
<1>2. IF ready THEN Acts(n, s, <<LockState(FALSE)>>)
      ELSE Acts(n, Local(s), <<LockState(TRUE)>> \o EndMessage(s))
  BY <1>1
<1>3. r \in Records /\ b \in Seq(Wire) /\ r.up /\ Sound(r)
  BY NodeIs DEF StatusChanged, Event
<1>4. s = IF r.localLocked = ~ready THEN t ELSE Stopped(v)
  BY <1>3 DEF LocalLock, Records
<1>5. /\ t \in Records /\ t.up = r.up /\ t.next = r.next /\ t.role = r.role
      /\ t.session = r.session /\ t.sequence = r.sequence /\ t.source = r.source
      /\ t.expected = r.expected /\ t.held = r.held
      /\ v \in Records /\ v.up = r.up /\ v.next = r.next /\ v.role = r.role
      /\ v.session = r.session /\ v.sequence = r.sequence /\ v.source = r.source
      /\ v.expected = r.expected /\ v.held = r.held
  BY <1>3 DEF Records
<1>6. ready /\ r.role = "Receiving" => r.localLocked = ~ready
  BY <1>3 DEF Sound, Weak, Locks, Supported, Records
<1> HIDE DEF r, t, v, s
<1>7. /\ s \in Records /\ s.up = r.up /\ s.next = r.next /\ s.role = r.role
      /\ s.session = r.session /\ s.sequence = r.sequence /\ s.source = r.source
      /\ s.expected = r.expected /\ s.session \in Nat
      /\ ready /\ s.role = "Receiving" => s.held = r.held
  <2>1. s \in Records => s.session \in Nat
    BY DEF Records
  <2> QED
    BY <1>4, <1>5, <1>6, <2>1, ReturnFields
<1>8. /\ \A l \in BOOLEAN : /\ LockState(l) \in Wire /\ Neutral(LockState(l))
                            /\ <<LockState(l)>> \in Seq(Wire)
                            /\ <<LockState(l)>> \o EndMessage(s) \in Seq(Wire)
  <2>1. \A l \in BOOLEAN : LockState(l) \in Wire /\ Neutral(LockState(l))
    BY DEF Wire, LockState, Neutral
  <2> QED
    BY <1>7, <2>1, EndMessageIs
<1>9. CASE ready
  <2>1. <<LockState(FALSE)>> \in Seq(Wire)
        /\ \E w \in Wire : Neutral(w) /\ <<LockState(FALSE)>> = <<w>>
    BY <1>8
  <2>2. Moves(r, s, b, b, <<LockState(FALSE)>>)
    BY <1>3, <1>7, <1>9, <2>1, IdleMoves
  <2> QED
    BY <1>2, <1>9, <2>1, <2>2, ActsMoved DEF r
<1>10. CASE ~ready
  <2>1. <<LockState(TRUE)>> \in Seq(Wire)
        /\ \E w \in Wire : Neutral(w) /\ <<LockState(TRUE)>> = <<w>>
    BY <1>8
  <2>2. /\ Local(s) \in Records /\ Local(s).up = r.up /\ Local(s).next = r.next
        /\ Local(s).role = "Local"
    BY <1>7, ReturnFields
  <2>3. <<LockState(TRUE)>> \o EndMessage(s) \in Seq(Wire)
    BY <1>8
  <2>4. Moves(r, Local(s), b, b, <<LockState(TRUE)>> \o EndMessage(s))
    BY <1>3, <1>7, <2>1, <2>2, <2>3, ReturnMoves
  <2> QED
    BY <1>2, <1>10, <2>3, <2>4, ActsMoved DEF r
<1> QED
  BY <1>9, <1>10

LEMMA LockStateMoved ==
  ASSUME IInv, NEW n \in Nodes, HandleLockState(n)
  PROVE  Moved(n)
<1> DEFINE r == node[n]
           b == inbox[n]
           locked == Head(b).locked
           t == [r EXCEPT !.peerReady = ~locked]
           v == [t EXCEPT !.peerLocked = locked]
           s == PeerLock(t, locked)
<1>1. /\ Received(n, "LockState")
      /\ IF locked THEN Handles(n, Local(s), EndMessage(s)) ELSE Handles(n, s, <<>>)
  BY DEF HandleLockState
<1>2. /\ r \in Records /\ b \in Seq(Wire) /\ r.up /\ Sound(r) /\ <<>> \in Seq(Wire)
      /\ Taken(b, Tail(b)) /\ Tail(b) \in Seq(Wire) /\ Head(b) \in Wire
      /\ Head(b).type = "LockState"
  BY <1>1, NodeIs DEF Received
<1>3. locked \in BOOLEAN /\ Neutral(Head(b))
  BY <1>2 DEF Wire, Begin, Input, End, LockState, Desktop, Neutral
<1> HIDE DEF locked
<1>4. s = IF r.peerLocked = locked THEN t ELSE Stopped(v)
  BY <1>2 DEF PeerLock, Records
<1>5. /\ t \in Records /\ t.up = r.up /\ t.next = r.next /\ t.role = r.role
      /\ t.session = r.session /\ t.sequence = r.sequence /\ t.source = r.source
      /\ t.expected = r.expected /\ t.held = r.held
      /\ v \in Records /\ v.up = r.up /\ v.next = r.next /\ v.role = r.role
      /\ v.session = r.session /\ v.sequence = r.sequence /\ v.source = r.source
      /\ v.expected = r.expected /\ v.held = r.held
  BY <1>2, <1>3 DEF Records
<1>6. ~locked /\ r.role = "Receiving" => r.peerLocked = locked
  BY <1>2, <1>3 DEF Sound, Weak, Locks, Supported, Records
<1> HIDE DEF r, t, v, s
<1>7. /\ s \in Records /\ s.up = r.up /\ s.next = r.next /\ s.role = r.role
      /\ s.session = r.session /\ s.sequence = r.sequence /\ s.source = r.source
      /\ s.expected = r.expected /\ s.session \in Nat
      /\ ~locked /\ s.role = "Receiving" => s.held = r.held
  <2>1. s \in Records => s.session \in Nat
    BY DEF Records
  <2> QED
    BY <1>4, <1>5, <1>6, <2>1, ReturnFields
<1>8. EndMessage(s) \in Seq(Wire) /\ EndMessage(s) = <<>> \o EndMessage(s)
  BY <1>7, EndMessageIs
<1>9. CASE locked
  <2>1. /\ Local(s) \in Records /\ Local(s).up = r.up /\ Local(s).next = r.next
        /\ Local(s).role = "Local"
    BY <1>7, ReturnFields
  <2>2. Moves(r, Local(s), b, Tail(b), EndMessage(s))
    BY <1>2, <1>3, <1>7, <1>8, <2>1, ReturnMoves
  <2> QED
    BY <1>1, <1>8, <1>9, <2>2, HandlesMoved DEF r
<1>10. CASE ~locked
  <2>1. /\ Taken(b, Tail(b)) /\ Head(b).type # "Begin"
        /\ Head(b).type = "Input" => ~Gets(r, Head(b).session)
        /\ Head(b).type = "End" => ~Within(r, Head(b).session)
    BY <1>2, <1>3 DEF Neutral
  <2>2. Moves(r, s, b, Tail(b), <<>>)
    BY <1>2, <1>7, <1>10, <2>1, IdleMoves
  <2> QED
    BY <1>1, <1>2, <1>10, <2>2, HandlesMoved DEF r
<1> QED
  BY <1>9, <1>10

\* Steps that change only what is captured or configured.
LEMMA CaptureMoved ==
  ASSUME IInv, NEW n \in Nodes,
         \/ Configured(n) \/ CaptureStart(n)
         \/ CaptureLost(n) /\ node[n].role # "Sending"
  PROVE  Moved(n)
<1> DEFINE r == node[n]
<1>1. r \in Records /\ inbox[n] \in Seq(Wire) /\ <<>> \in Seq(Wire) /\ r.up
  BY NodeIs DEF Configured, CaptureStart, CaptureLost, Event
<1>2. PICK s : /\ Acts(n, s, <<>>)
               /\ \/ s = [r EXCEPT !.configuring = FALSE]
                  \/ s = [r EXCEPT !.capture = "armed"]
                  \/ s = [r EXCEPT !.capture = "none"]
  BY DEF Configured, CaptureStart, CaptureLost
<1>3. /\ s \in Records /\ s.up = r.up /\ s.next = r.next /\ s.role = r.role
      /\ s.session = r.session /\ s.sequence = r.sequence /\ s.source = r.source
      /\ s.expected = r.expected /\ s.held = r.held
  BY <1>1, <1>2 DEF Records
<1>4. Moves(r, s, inbox[n], inbox[n], <<>>)
  BY <1>1, <1>3, IdleMoves
<1> QED
  BY <1>1, <1>2, <1>4, ActsMoved

LEMMA HandleEndMoved ==
  ASSUME IInv, NEW n \in Nodes, HandleEnd(n)
  PROVE  Moved(n)
<1> DEFINE r == node[n]
           b == inbox[n]
<1>1. /\ r \in Records /\ b \in Seq(Wire) /\ r.up /\ <<>> \in Seq(Wire)
      /\ Taken(b, Tail(b)) /\ Tail(b) \in Seq(Wire)
      /\ Head(b).type = "End"
  BY NodeIs DEF HandleEnd, Received
<1>2. CASE Within(r, Head(b).session)
  <2>1. Handles(n, Ended(r), <<>>)
    BY <1>2 DEF HandleEnd, Within
  <2>2. Stops(r, Ended(r), b, Tail(b), <<>>)
    BY <1>1, <1>2, EndedFields DEF Stops
  <2> QED
    BY <1>1, <2>1, <2>2, HandlesMoved DEF Moves
<1>3. CASE ~Within(r, Head(b).session)
  <2>1. Handles(n, r, <<>>)
    BY <1>3 DEF HandleEnd, Within
  <2>2. Moves(r, r, b, Tail(b), <<>>)
    BY <1>1, <1>3, IdleMoves
  <2> QED
    BY <1>1, <2>1, <2>2, HandlesMoved
<1> QED
  BY <1>2, <1>3

LEMMA HandleBeginMoved ==
  ASSUME IInv, NEW n \in Nodes, HandleBegin(n)
  PROVE  Moved(n)
<1> DEFINE r == node[n]
           b == inbox[n]
           k == Head(b).session
           s == [Begun(r, k) EXCEPT !.role = "Receiving", !.session = k]
<1>1. /\ r \in Records /\ b \in Seq(Wire) /\ r.up /\ <<>> \in Seq(Wire) /\ Sound(r)
      /\ Taken(b, Tail(b)) /\ Tail(b) \in Seq(Wire)
      /\ Head(b).type = "Begin" /\ Head(b) \in Wire
  BY NodeIs DEF HandleBegin, Received
<1>2. k \in Nat
  BY <1>1 DEF Wire, Begin, Input, End, LockState, Desktop
<1>3. \/ Acceptable(r) /\ Handles(n, s, <<>>)
      \/ Fails(n)
      \/ r.role # "Receiving" /\ Handles(n, r, <<End(k)>>)
  BY DEF HandleBegin
<1>4. CASE Acceptable(r) /\ Handles(n, s, <<>>)
  <2> HIDE DEF k
  <2>1. /\ s.role = "Receiving" /\ s.session = k /\ s.expected = 0 /\ s.next = r.next
        /\ s.up = r.up /\ s.held = r.held
    BY <1>1, <1>2 DEF Records, Begun
  <2>2. r.role = "Local" /\ r.held = {}
    BY <1>1, <1>4 DEF Acceptable, Sound, Weak, Receives
  <2> HIDE DEF s
  <2>3. Accepts(r, s, b, Tail(b), <<>>)
    BY <1>1, <2>1, <2>2 DEF Accepts, k
  <2> QED
    BY <1>1, <1>4, <2>3, HandlesMoved DEF Moves
<1>5. CASE r.role # "Receiving" /\ Handles(n, r, <<End(k)>>)
  <2>1. End(k) \in Wire
    BY <1>2 DEF Wire
  <2>2. <<End(k)>> \in Seq(Wire)
    BY <2>1
  <2>3. Refuses(r, r, b, Tail(b), <<End(k)>>)
    BY <1>1, <1>5 DEF Refuses
  <2> QED
    BY <1>1, <1>5, <2>2, <2>3, HandlesMoved DEF Moves
<1> QED
  BY <1>3, <1>4, <1>5, FailsMoved

LEMMA HandleInputMoved ==
  ASSUME IInv, NEW n \in Nodes, HandleInput(n)
  PROVE  Moved(n)
<1> DEFINE r == node[n]
           b == inbox[n]
           m == Head(b)
           held == IF m.event.pressed THEN r.held \cup {m.event.code}
                   ELSE r.held \ {m.event.code}
           s == [r EXCEPT !.expected = r.expected + 1, !.held = held]
<1>1. /\ r \in Records /\ b \in Seq(Wire) /\ r.up /\ <<>> \in Seq(Wire) /\ Sound(r)
      /\ Taken(b, Tail(b)) /\ Tail(b) \in Seq(Wire)
      /\ m.type = "Input" /\ m \in Wire
  BY NodeIs DEF HandleInput, Received
<1>2. /\ m.session \in Nat /\ m.event.code \in Codes /\ m.event.pressed \in BOOLEAN
  BY <1>1 DEF Wire, Begin, Input, End, LockState, Desktop, Key
<1>3. \/ Gets(r, m.session) /\ Handles(n, Local(Stopped(r)), <<End(m.session)>>)
      \/ Gets(r, m.session) /\ r.receiving # m.session
      \/ Fails(n)
      \/ Gets(r, m.session) /\ r.expected = m.sequence /\ Handles(n, s, <<>>)
      \/ ~Gets(r, m.session) /\ Handles(n, r, <<>>)
  BY DEF HandleInput, Injected, Gets
<1>4. Gets(r, m.session) => r.receiving = m.session
  BY <1>1 DEF Gets, Sound, Weak, Receives
<1> HIDE DEF m
<1>5. CASE Gets(r, m.session) /\ Handles(n, Local(Stopped(r)), <<End(m.session)>>)
  <2>1. /\ Local(Stopped(r)) \in Records /\ Local(Stopped(r)).up = r.up
        /\ Local(Stopped(r)).next = r.next /\ Local(Stopped(r)).role = "Local"
    BY <1>1, ReturnFields
  <2>2. r.role # "Local" /\ r.session = m.session /\ EndMessage(r) = <<End(m.session)>>
    BY <1>5 DEF Gets, EndMessage
  <2>3. EndMessage(r) \in Seq(Wire) /\ EndMessage(r) = <<>> \o EndMessage(r)
    BY NodeIs
  <2>4. Moves(r, Local(Stopped(r)), b, Tail(b), EndMessage(r))
    BY <1>1, <2>1, <2>2, <2>3, ReturnMoves DEF m
  <2> QED
    BY <1>5, <2>2, <2>3, <2>4, HandlesMoved
<1>6. CASE ~Gets(r, m.session) /\ Handles(n, r, <<>>)
  <2>1. Moves(r, r, b, Tail(b), <<>>)
    BY <1>1, <1>6, IdleMoves DEF m
  <2> QED
    BY <1>1, <1>6, <2>1, HandlesMoved
<1>7. CASE Gets(r, m.session) /\ r.expected = m.sequence /\ Handles(n, s, <<>>)
  <2>1. s.expected = r.expected + 1 /\ s.held = held /\ s.role = r.role
        /\ s.session = r.session /\ s.next = r.next /\ s.up = r.up
    BY <1>1, <1>2 DEF Records
  <2>2. Injects(r, s, b, Tail(b), <<>>)
    BY <1>1, <1>7, <2>1 DEF Injects, Gets, m
  <2> QED
    BY <1>1, <1>7, <2>2, HandlesMoved DEF Moves
<1> QED
  BY <1>3, <1>4, <1>5, <1>6, <1>7, FailsMoved

LEMMA ForwardMoved ==
  ASSUME IInv, NEW n \in Nodes, Forward(n)
  PROVE  Moved(n)
<1> DEFINE r == node[n]
<1>1. PICK c \in Codes, p \in BOOLEAN :
        Acts(n, [r EXCEPT !.sequence = @ + 1,
                   !.source = IF p THEN @ \cup {c} ELSE @ \ {c}],
             <<Input(r.session, r.sequence, Key(c, p))>>)
  BY DEF Forward
<1> DEFINE source == IF p THEN r.source \cup {c} ELSE r.source \ {c}
           s == [r EXCEPT !.sequence = r.sequence + 1, !.source = source]
<1>2. /\ r \in Records /\ r.sequence \in Nat /\ r.session \in Nat /\ r.up
      /\ r.sequence < MaxSequence /\ r.role = "Sending"
  BY NodeIs DEF Records, Forward, Event
<1>3. Input(r.session, r.sequence, Key(c, p)) \in Wire
  BY <1>2, InputIs
<1>4. <<Input(r.session, r.sequence, Key(c, p))>> \in Seq(Wire)
  BY <1>3
<1>5. Acts(n, s, <<Input(r.session, r.sequence, Key(c, p))>>)
  BY <1>1
<1>6. /\ s.sequence = r.sequence + 1 /\ s.source = source
      /\ s.role = r.role /\ s.session = r.session /\ s.next = r.next /\ s.up = r.up
  BY <1>2 DEF Records
<1> HIDE DEF s
<1>7. Forwards(r, s, inbox[n], inbox[n], <<Input(r.session, r.sequence, Key(c, p))>>)
  BY <1>2, <1>6 DEF Forwards, SenderForwards
<1> QED
  BY <1>2, <1>4, <1>5, <1>7, ActsMoved DEF Moves

\* The sequences of no message and of one.
LEMMA SetToSeqIs ==
  /\ SetToSeq({}) = <<>>
  /\ \A m : SetToSeq({m}) = <<m>>
<1>1. SetToSeq({}) = <<>>
  <2> DEFINE f == [i \in {} |-> 0]
  <2>1. Cardinality({}) = 0
    BY FS_EmptySet
  <2>2. f \in [1..Cardinality({}) -> {}] /\ IsInjective(f)
    <3>1. 1..Cardinality({}) = {} /\ f \in [{} -> {}] /\ DOMAIN f = {}
      BY <2>1
    <3> HIDE DEF f
    <3> QED
      BY <3>1 DEF IsInjective
  <2>3. SetToSeq({}) \in [1..Cardinality({}) -> {}]
    BY <2>2 DEF SetToSeq
  <2>4. SetToSeq({}) \in [1..0 -> {}]
    BY <2>1, <2>3
  <2> QED
    BY <2>4
<1>2. ASSUME NEW m PROVE SetToSeq({m}) = <<m>>
  <2> DEFINE f == [i \in 1..1 |-> m]
  <2>1. Cardinality({m}) = 1
    BY FS_Singleton
  <2>2. f \in [1..Cardinality({m}) -> {m}] /\ IsInjective(f)
    BY <2>1 DEF IsInjective
  <2> HIDE DEF f
  <2>3. SetToSeq({m}) \in [1..Cardinality({m}) -> {m}]
    BY <2>2 DEF SetToSeq
  <2>4. SetToSeq({m}) \in [1..1 -> {m}]
    BY <2>1, <2>3
  <2> QED
    BY <2>4
<1> QED
  BY <1>1, <1>2

LEMMA StartMoved ==
  ASSUME IInv, NEW n \in Nodes, StartSession(n)
  PROVE  Moved(n)
<1> DEFINE r == node[n]
<1>1. PICK initial \in {{}} \cup {{c} : c \in Codes} :
        LET k == r.next
            q == IF initial = {} THEN 0 ELSE 1
        IN /\ q <= MaxSequence
           /\ Acts(n, [r EXCEPT !.role = "Sending", !.session = k,
                         !.sequence = q, !.next = k + 1, !.capture = "crossed",
                         !.source = initial],
                   <<Begin(k)>> \o SetToSeq({Input(k, 0, Key(c, TRUE)) : c \in initial}))
  BY DEF StartSession
<1> DEFINE k == r.next
           q == IF initial = {} THEN 0 ELSE 1
           s == [r EXCEPT !.role = "Sending", !.session = k,
                   !.sequence = q, !.next = k + 1, !.capture = "crossed",
                   !.source = initial]
           S == {Input(k, 0, Key(c, TRUE)) : c \in initial}
           out == <<Begin(k)>> \o SetToSeq(S)
<1>2. q <= MaxSequence /\ Acts(n, s, out)
  BY <1>1
<1>3. /\ r \in Records /\ k \in Nat /\ k # NoSession /\ k <= MaxSession
      /\ initial = {} \/ \E c \in Codes : initial = {c}
      /\ r.role = "Local" /\ r.up
  BY NodeIs DEF StartSession, Event, Sound, Weak, Bounded, Records, NoSession
<1> HIDE DEF k, r
<1>4. out \in Seq(Wire)
  <2>1. initial = {} \/ (1 <= MaxSequence /\ \E c \in Codes : initial = {c})
    BY <1>2, <1>3
  <2> QED
    BY <1>3, <2>1, BeginningIs
<1>5. /\ s.role = "Sending" /\ s.session = k /\ s.sequence = q /\ s.next = k + 1
      /\ s.source = initial /\ s.up = r.up
  BY <1>3 DEF Records
<1> HIDE DEF s
<1>6. Opening(s, k, out)
  <2>1. CASE initial = {}
    <3>1. S = {}
      BY <2>1
    <3> HIDE DEF S
    <3>2. out = <<Begin(k)>> \o <<>>
      BY <3>1, SetToSeqIs
    <3>3. out = <<Begin(k)>>
      BY <3>2
    <3> QED
      BY <1>5, <2>1, <3>3 DEF Opening
  <2>2. ASSUME NEW c \in Codes, initial = {c}
        PROVE  Opening(s, k, out)
    <3>1. S = {Input(k, 0, Key(c, TRUE))} /\ initial # {}
      BY <2>2
    <3> HIDE DEF S
    <3>2. out = <<Begin(k)>> \o <<Input(k, 0, Key(c, TRUE))>>
      BY <3>1, SetToSeqIs
    <3>3. ASSUME NEW x, NEW y PROVE <<x>> \o <<y>> = <<x, y>>
      <4>1. <<x>> \in Seq({x, y}) /\ <<y>> \in Seq({x, y}) /\ <<x, y>> \in Seq({x, y})
        OBVIOUS
      <4>2. /\ <<x>> \o <<y>> \in Seq({x, y}) /\ Len(<<x>> \o <<y>>) = 2
            /\ (<<x>> \o <<y>>)[1] = x /\ (<<x>> \o <<y>>)[2] = y
        BY <4>1
      <4>3. PICK l \in Seq({x, y}), r2 \in Seq({x, y}) :
              l = <<x>> \o <<y>> /\ r2 = <<x, y>>
        BY <4>1, <4>2
      <4>4. Len(l) = Len(r2) /\ \A i \in 1..Len(l) : l[i] = r2[i]
        <5>1. Len(r2) = 2 /\ r2[1] = x /\ r2[2] = y
          BY <4>3
        <5>2. Len(l) = 2 /\ l[1] = x /\ l[2] = y
          BY <4>2, <4>3
        <5>3. \A i \in 1..2 : i = 1 \/ i = 2
          OBVIOUS
        <5> QED
          BY <5>1, <5>2, <5>3
      <4>5. l = r2
        BY <4>4, SeqEqual
      <4> QED
        BY <4>3, <4>5
    <3>4. out = <<Begin(k), Input(k, 0, Key(c, TRUE))>>
      BY <3>2, <3>3
    <3> QED
      BY <1>5, <2>2, <3>1, <3>4 DEF Opening
  <2> QED
    BY <1>3, <2>1, <2>2
<1> HIDE DEF out, q
<1>7. Starts(r, s, inbox[n], inbox[n], out)
  BY <1>3, <1>5, <1>6 DEF Starts, SenderStarts, k
<1> QED
  BY <1>2, <1>3, <1>4, <1>7, ActsMoved DEF r, StartSession

\* Every step but a new connection is a step of one node.
LEMMA StepMoved ==
  ASSUME IInv, Next
  PROVE  Connect \/ \E n \in Nodes : Moved(n)
<1>1. ASSUME NEW n \in Nodes, Disconnect(n) \/ PeerClosed(n)
      PROVE  Moved(n)
  BY <1>1, FailsMoved DEF Disconnect, PeerClosed
<1>2. ASSUME NEW n \in Nodes, CaptureLost(n)
      PROVE  Moved(n)
  BY <1>2, EndsMoved, CaptureMoved
<1> QED
  BY <1>1, <1>2, OutputsMoved, StatusMoved, LockStateMoved, EndsMoved, CaptureMoved,
     StartMoved, ForwardMoved, HandleBeginMoved, HandleInputMoved, HandleEndMoved
     DEF Next

-----------------------------------------------------------------------------
(* The invariant of the connection *)

Duplex ==
  /\ IInv
  /\ \A n \in Nodes : Paired(node[n], node[Peer(n)], inbox[Peer(n)], inbox[n])

LEMMA PeersAre == \A n \in Nodes : Peer(Peer(n)) = n /\ Nodes = {n, Peer(n)}
<1>1. PICK a \in Nodes, b \in Nodes : a # b /\ Nodes = {a, b}
  BY NodesAssumption DEF NodesAssumption
<1> QED
  BY <1>1, PeerIn

LEMMA PairedMirror ==
  ASSUME NEW s, NEW o, NEW q, NEW b, Paired(s, o, q, b)
  PROVE  Paired(o, s, b, q)
BY DEF Paired

\* A connection on which nothing was sent yet relates its ends.
LEMMA PairedAtFirst ==
  ASSUME NEW s \in Records, NEW o \in Records, s.role = "Local", o.role = "Local",
         NEW q \in Seq(Wire), NEW b \in Seq(Wire),
         \A i \in DOMAIN q : Neutral(q[i]), \A i \in DOMAIN b : Neutral(b[i]),
         o.up \/ q = <<>>, s.up \/ b = <<>>
  PROVE  Paired(s, o, q, b)
<1>1. ASSUME NEW t \in Records, NEW r \in Records, t.role = "Local", r.role = "Local",
             NEW u \in Seq(Wire), NEW c \in Seq(Wire),
             \A i \in DOMAIN u : Neutral(u[i]), \A i \in DOMAIN c : Neutral(c[i]),
             r.up \/ u = <<>>
      PROVE  Stream(t, r, u) /\ Answered(t, r, u, c)
  <2>1. /\ \A i \in DOMAIN u : u[i].type \notin {"Begin", "Input", "End"}
        /\ \A i \in DOMAIN c : c[i].type \notin {"Begin", "Input", "End"}
    BY <1>1 DEF Neutral
  <2>2. Stream(t, r, u)
    BY <1>1, <2>1 DEF Stream, Numbered, Sequenced, Mirrored, Data, Sends
  <2>3. Answered(t, r, u, c)
    BY <1>1, <2>1 DEF Answered, Pending, EndedOnce, Crossed, Heard, Opened, Gets, EndIn, EndAfter
  <2> QED
    BY <2>2, <2>3
<1> QED
  BY <1>1 DEF Paired

LEMMA DuplexAtFirst == Init => Duplex
<1> SUFFICES ASSUME Init PROVE Duplex
  OBVIOUS
<1>1. IInv
  BY Initially
<1>2. \A n \in Nodes : node[n].role = "Local" /\ inbox[n] = <<>>
  BY FreshSound, ClosedFields DEF Init, Sound, Weak, Bounded
<1>3. ASSUME NEW n \in Nodes
      PROVE  Paired(node[n], node[Peer(n)], inbox[Peer(n)], inbox[n])
  <2>1. /\ node[n] \in Records /\ node[Peer(n)] \in Records
        /\ node[n].role = "Local" /\ node[Peer(n)].role = "Local"
        /\ inbox[n] = <<>> /\ inbox[Peer(n)] = <<>>
        /\ <<>> \in Seq(Wire) /\ DOMAIN inbox[n] = {} /\ DOMAIN inbox[Peer(n)] = {}
    BY <1>1, <1>2, PeerIn DEF IInv
  <2> QED
    BY <2>1, PairedAtFirst
<1> QED
  BY <1>1, <1>3 DEF Duplex

LEMMA DuplexConnected ==
  ASSUME Duplex, Connect
  PROVE  Duplex'
<1>1. IInv'
  BY ConnectKept DEF Duplex, Kept
<1>2. PICK ready \in [Nodes -> BOOLEAN] :
        /\ node' = [n \in Nodes |-> Fresh(ready[n], node[n].outputs)]
        /\ inbox' = [n \in Nodes |-> << Desktop(node[Peer(n)].outputs),
                                        LockState(~ready[Peer(n)]) >>]
  BY DEF Connect
<1>3. ASSUME NEW n \in Nodes
      PROVE  /\ node'[n] \in Records /\ node'[n].role = "Local" /\ node'[n].up
             /\ inbox'[n] \in Seq(Wire) /\ \A i \in DOMAIN inbox'[n] : Neutral(inbox'[n][i])
  <2>1. node'[n].role = "Local" /\ node'[n].up
    BY <1>2 DEF Fresh
  <2>2. \A i \in DOMAIN inbox'[n] : Neutral(inbox'[n][i])
    <3>1. Neutral(Desktop(node[Peer(n)].outputs)) /\ Neutral(LockState(~ready[Peer(n)]))
      BY DEF Neutral, Desktop, LockState
    <3> QED
      BY <1>2, <3>1
  <2> QED
    BY <1>1, <2>1, <2>2 DEF IInv
<1>4. ASSUME NEW n \in Nodes
      PROVE  Paired(node'[n], node'[Peer(n)], inbox'[Peer(n)], inbox'[n])
  <2>1. PICK s, o, q, b : /\ s = node'[n] /\ o = node'[Peer(n)]
                          /\ q = inbox'[Peer(n)] /\ b = inbox'[n]
    OBVIOUS
  <2>2. /\ s \in Records /\ o \in Records /\ s.role = "Local" /\ o.role = "Local"
        /\ q \in Seq(Wire) /\ b \in Seq(Wire) /\ s.up /\ o.up
        /\ \A i \in DOMAIN q : Neutral(q[i])
        /\ \A i \in DOMAIN b : Neutral(b[i])
    BY <1>3, <2>1, PeerIn
  <2>3. Paired(s, o, q, b)
    BY <2>2, PairedAtFirst
  <2> QED
    BY <2>1, <2>3
<1> QED
  BY <1>1, <1>4 DEF Duplex

LEMMA DuplexMoved ==
  ASSUME Duplex, IInv', NEW n \in Nodes, Moved(n)
  PROVE  Duplex'
<1>1. PICK out \in Seq(Wire) :
        /\ node'[Peer(n)] = node[Peer(n)]
        /\ Sent(node[Peer(n)], inbox[Peer(n)], out, inbox'[Peer(n)])
        /\ Steps(node[n], node'[n], inbox[n], inbox'[n], out)
  BY DEF Moved, Steps
<1>2. PICK s, o, q, b, t, u, c :
        /\ s = node[n] /\ o = node[Peer(n)] /\ q = inbox[Peer(n)] /\ b = inbox[n]
        /\ t = node'[n] /\ u = inbox'[Peer(n)] /\ c = inbox'[n]
  OBVIOUS
<1>3. /\ Paired(s, o, q, b) /\ Sent(o, q, out, u) /\ Steps(s, t, b, c, out)
      /\ o = node'[Peer(n)]
  BY <1>1, <1>2 DEF Duplex
<1>4. /\ t \in Records /\ u \in Seq(Wire) /\ c \in Seq(Wire)
      /\ t.up \/ t.role = "Local"
  <2>1. IInv' => /\ node'[n] \in Records /\ inbox'[Peer(n)] \in Seq(Wire)
                 /\ inbox'[n] \in Seq(Wire)
                 /\ node'[n].up \/ node'[n].role = "Local"
    BY PeerIn DEF IInv, Sound, Supported
  <2> QED
    BY <1>2, <2>1
<1>5. Paired(t, o, u, c) /\ Paired(o, t, c, u)
  BY <1>3, <1>4, MovesPaired, PairedMirror
<1>6. ASSUME NEW m \in Nodes
      PROVE  Paired(node'[m], node'[Peer(m)], inbox'[Peer(m)], inbox'[m])
  <2>1. (m = n /\ Peer(m) = Peer(n)) \/ (m = Peer(n) /\ Peer(m) = n)
    BY PeersAre
  <2> QED
    BY <1>2, <1>3, <1>5, <2>1
<1> QED
  BY <1>6 DEF Duplex

\* What the theorems about the two ends rest on.
THEOREM DuplexInvariance == Spec => []Duplex
<1>1. Init => Duplex
  BY DuplexAtFirst
<1>2. Duplex /\ [Next]_vars => Duplex'
  <2> SUFFICES ASSUME Duplex, [Next]_vars PROVE Duplex'
    OBVIOUS
  <2>1. CASE UNCHANGED vars
    BY <2>1 DEF vars, Duplex, IInv
  <2>2. CASE Next
    <3>1. IInv /\ IInv'
      BY StepKept DEF Duplex, Kept
    <3> QED
      BY <2>2, <3>1, StepMoved, DuplexConnected, DuplexMoved
  <2> QED
    BY <2>1, <2>2
<1> QED
  BY <1>1, <1>2, PTL DEF Spec

\* Every input of the session being received carries the number that its
\* receiver waits for when it is handled, whatever was begun, refused, ended or
\* still in flight of earlier sessions.
THEOREM InputsAreInOrder == Spec => []InputsInOrder
<1>1. Duplex => InputsInOrder
  <2> SUFFICES ASSUME Duplex, NEW n \in Nodes,
                      node[n].role = "Receiving", inbox[n] # <<>>,
                      Head(inbox[n]).type = "Input",
                      Head(inbox[n]).session = node[n].session
               PROVE  Head(inbox[n]).sequence = node[n].expected
    BY DEF InputsInOrder
  <2>1. PICK s, o, q, b : /\ s = node[n] /\ o = node[Peer(n)]
                          /\ q = inbox[Peer(n)] /\ b = inbox[n]
    OBVIOUS
  <2>2. Sequenced(o, s, b) /\ b \in Seq(Wire)
    BY <2>1 DEF Duplex, Paired, Stream
  <2>3. /\ 1 \in DOMAIN b /\ b[1] = Head(b)
        /\ \A i \in DOMAIN b : i \in Nat /\ i >= 1
    BY <2>1, <2>2, ShrinksIs, WireFields DEF Shrinks
  <2>4. Gets(s, b[1].session)
    BY <2>1, <2>3 DEF Gets
  <2>5. ~Before(b, b[1].session, b[1].sequence, 1)
    BY <2>3 DEF Before
  <2> QED
    BY <2>1, <2>2, <2>3, <2>4, <2>5 DEF Sequenced, Known, FirstNumber
<1> QED
  BY <1>1, DuplexInvariance, PTL

\* A receiver whose session is still sent has, or has in flight to it, exactly
\* the codes that its sender has down: no key stays behind.
THEOREM KeysAreMirrored == Spec => []MirrorsSource
<1>1. Duplex => MirrorsSource
  <2> SUFFICES ASSUME Duplex, NEW n \in Nodes,
                      node[n].role = "Sending", node[Peer(n)].role = "Receiving",
                      node[n].session = node[Peer(n)].session
               PROVE  ReplayedInputs(inbox[Peer(n)], node[n].session, node[Peer(n)].held)
                        = node[n].source
    BY DEF MirrorsSource
  <2>1. Mirrored(node[n], node[Peer(n)], inbox[Peer(n)])
    BY DEF Duplex, Paired, Stream
  <2>2. Gets(node[Peer(n)], node[n].session)
    BY DEF Gets
  <2> QED
    BY <2>1, <2>2 DEF Mirrored, Known, HeldFor
<1> QED
  BY <1>1, DuplexInvariance, PTL

\* A message is known by its kind and its session.
LEMMA WireIs ==
  ASSUME NEW m \in Wire
  PROVE  /\ m.type = "Begin" => m = Begin(m.session)
         /\ m.type = "End" => m = End(m.session)
BY DEF Wire, Begin, Input, End, LockState, Desktop

LEMMA InFlightIs ==
  ASSUME Duplex, NEW n \in Nodes, NEW k
  PROVE  /\ BeginIn(inbox[n], k) => InFlight(n, Begin(k))
         /\ EndIn(inbox[n], k) => InFlight(n, End(k))
<1>1. \A i \in DOMAIN inbox[n] : inbox[n][i] \in Wire
  BY DEF Duplex, IInv
<1> QED
  BY <1>1, WireIs DEF BeginIn, EndIn, InFlight

\* A sender is never left talking to nobody, however sessions, refusals and
\* their ends cross on the connection.
THEOREM SendersAreHeard == Spec => []SenderIsHeard
<1>1. Duplex => SenderIsHeard
  <2> SUFFICES ASSUME Duplex, Connected, NEW n \in Nodes, node[n].role = "Sending"
               PROVE  \/ InFlight(Peer(n), Begin(node[n].session))
                      \/ /\ node[Peer(n)].role = "Receiving"
                         /\ node[Peer(n)].session = node[n].session
                      \/ InFlight(n, End(node[n].session))
    BY DEF SenderIsHeard
  <2>1. Heard(node[n], node[Peer(n)], inbox[Peer(n)], inbox[n]) /\ node[Peer(n)].up
    BY PeerIn DEF Duplex, Paired, Answered, Connected
  <2> QED
    BY <2>1, InFlightIs, PeerIn DEF Heard, Gets
<1> QED
  BY <1>1, DuplexInvariance, PTL

\* What a receiver knows of its session, unless it has left one of its own with
\* the same number.
LEMMA ReceiverKnows ==
  ASSUME Duplex, NEW n \in Nodes, node[n].role = "Receiving",
         node[n].next <= node[n].session
  PROVE  /\ Connected => Driven(n)
         /\ inbox[n] # <<>> => Head(inbox[n]).type # "Begin"
<1>1. PICK s, o, q, b : /\ s = node[n] /\ o = node[Peer(n)]
                        /\ q = inbox[Peer(n)] /\ b = inbox[n]
  OBVIOUS
<1>2. Pending(s, o, q, b) /\ b \in Seq(Wire) /\ s \in Records
  BY <1>1 DEF Duplex, Paired, Answered
<1>3. s.session \in Nat /\ Opened(s, b, s.session, 0) /\ Early(s, s.session)
  BY <1>1, <1>2 DEF Opened, Gets, Early, Records
<1>4. /\ o.up => Sends(o, s.session) \/ EndAfter(b, s.session, 0)
      /\ \A j \in DOMAIN b : b[j].type = "Begin" /\ 0 < j =>
           \E l \in DOMAIN b : 0 < l /\ l < j /\ b[l].type = "End" /\ b[l].session = s.session
  BY <1>2, <1>3 DEF Pending
<1>5. Connected => Driven(n)
  <2>1. EndAfter(b, s.session, 0) => InFlight(n, End(s.session))
    BY <1>1, InFlightIs DEF EndAfter, EndIn
  <2>2. Connected => o.up
    BY <1>1, PeerIn DEF Connected
  <2> QED
    BY <1>1, <1>4, <2>1, <2>2 DEF Driven, Sends
<1>6. ASSUME b # <<>> PROVE Head(b).type # "Begin"
  <2>1. /\ 1 \in DOMAIN b /\ b[1] = Head(b)
        /\ \A i \in DOMAIN b : i \in Nat /\ i >= 1
    BY <1>2, <1>6, ShrinksIs, WireFields DEF Shrinks
  <2> QED
    BY <1>4, <2>1
<1> QED
  BY <1>1, <1>5, <1>6

\* A receiver is never left behind, as long as its own sessions have not reached
\* the number of the one it receives.
THEOREM ReceiversAreDrivenUnlessReused == Spec => []DrivenUnlessReused
<1>1. Duplex => DrivenUnlessReused
  <2>1. \A n \in Nodes : Duplex => node[n].session \in Nat /\ node[n].next \in Nat
    BY DEF Duplex, IInv, Records
  <2> QED
    BY <2>1, ReceiverKnows DEF DrivenUnlessReused
<1> QED
  BY <1>1, DuplexInvariance, PTL

\* ... and no second session reaches it until then.
THEOREM SessionsDoNotOverlap == Spec => []NoOverlap
<1>1. Duplex => NoOverlap
  <2>1. \A n \in Nodes : Duplex => node[n].session \in Nat /\ node[n].next \in Nat
    BY DEF Duplex, IInv, Records
  <2> QED
    BY <2>1, ReceiverKnows DEF NoOverlap
<1> QED
  BY <1>1, DuplexInvariance, PTL

-----------------------------------------------------------------------------
(* One computer that sends *)

\* A node whose pointer never crosses has not numbered a session.
Unused == \A n \in Nodes \ Senders : node[n].next = 1

LEMMA UnusedKept ==
  ASSUME IInv, Unused, [Next]_vars
  PROVE  Unused'
<1>1. CASE UNCHANGED vars
  BY <1>1 DEF vars, Unused
<1>2. CASE Connect
  BY <1>2 DEF Connect, Unused, Fresh
<1>3. ASSUME NEW n \in Nodes, Moved(n) PROVE Unused'
  <2>1. node'[Peer(n)] = node[Peer(n)]
    BY <1>3 DEF Moved
  <2>2. ASSUME n \notin Senders PROVE node'[n].next = node[n].next
    <3>1. \A s, t, b, c, out : Moves(s, t, b, c, out) => t.next = s.next
      BY DEF Moves, Gone, Idles, Stays, Quits, Forwards, SenderForwards, Accepts,
             Refuses, Injects, Stops
    <3> QED
      BY <1>3, <2>2, <3>1 DEF Moved
  <2> QED
    BY <2>1, <2>2, PeersAre DEF Unused
<1> QED
  BY <1>1, <1>2, <1>3, StepMoved

\* When only one of the computers ever sends, a receiver is never left behind.
THEOREM ReceiversAreDriven ==
  ASSUME NEW m, Senders \subseteq {m}
  PROVE  Spec => []ReceiverIsDriven
<1>1. Init => Unused
  <2>1. Fresh(TRUE, TRUE) \in Records /\ Fresh(TRUE, TRUE).next = 1
    BY FreshSound DEF Sound, Weak, Bounded, Fresh
  <2> QED
    BY <2>1, ClosedFields DEF Init, Unused
<1>2. IInv /\ Unused /\ [Next]_vars => Unused'
  BY UnusedKept
<1>3. Duplex /\ Unused => ReceiverIsDriven
  <2> SUFFICES ASSUME Duplex, Unused, Connected, NEW n \in Nodes, node[n].role = "Receiving"
               PROVE  Driven(n)
    BY DEF ReceiverIsDriven
  <2>1. /\ node[n].session \in Nat /\ node[n].session # 0
        /\ node[n].session < node[Peer(n)].next
    BY DEF Duplex, IInv, Sound, Weak, Receives, NoSession, Records, Paired, Stream, Numbered
  <2>2. n \notin Senders
    <3> SUFFICES ASSUME n \in Senders PROVE FALSE
      OBVIOUS
    <3>1. Peer(n) \in Nodes \ Senders
      BY PeerIn
    <3> QED
      BY <2>1, <3>1 DEF Unused
  <2> QED
    BY <2>1, <2>2, ReceiverKnows DEF Unused
<1> QED
  BY <1>1, <1>2, <1>3, Invariance, DuplexInvariance, PTL DEF Spec

=============================================================================
