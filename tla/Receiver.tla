------------------------------- MODULE Receiver -------------------------------
(***************************************************************************)
(* The receiver of one authenticated connection (src/src/receiver.rs) with *)
(* the control state it owns (ControlState and HeldInputs of               *)
(* src/src/input.rs), on top of an input sink that can fail.  Every public *)
(* operation of Receiver is one action.  A failing emission may or may not *)
(* have reached the desktop, and a release that failed is retried by the   *)
(* next cleanup.  The sink itself (virtual keyboard, pointer, touchpads)   *)
(* is kept as what it holds down on the desktop: down and contact.         *)
(***************************************************************************)
EXTENDS Naturals

CONSTANTS Codes,         \* key and button codes (u16)
          Sessions,      \* session identifiers a peer can name (u64)
          LastSequence,  \* u64::MAX, the last sequence number of a session
          None           \* Option::None of a session

ASSUME SessionAssumption == Sessions \subseteq Nat /\ None \notin Sessions
ASSUME SequenceAssumption == LastSequence \in Nat

VARIABLES
  mode,         \* ControlState.mode
  localLocked,  \* ControlState.local_locked
  peerLocked,   \* ControlState.peer_locked
  held,         \* ControlState.held
  session,      \* Receiver.session
  expected,     \* Receiver.expected_sequence
  pending,      \* Receiver.pending_releases
  down,         \* codes the sink's devices hold down on the desktop
  contact,      \* a finger is down on some virtual touchpad
  errored       \* some operation has returned an error

vars == <<mode, localLocked, peerLocked, held, session, expected, pending,
          down, contact, errored>>
locks == <<localLocked, peerLocked>>
sink == <<down, contact>>

\* What the peer can ask to inject.  The code of an event that is neither a
\* press nor a release carries nothing.
Events == [kind : {"press", "release", "touch", "lift", "motion", "invalid"},
           code : Codes]
-----------------------------------------------------------------------------
TypeOK ==
  /\ mode \in {"Local", "Receiving", "Paused"}
  /\ localLocked \in BOOLEAN /\ peerLocked \in BOOLEAN
  /\ held \subseteq Codes
  /\ session \in Sessions \cup {None}
  /\ expected \in 0..LastSequence
  /\ pending \subseteq Codes
  /\ down \subseteq Codes
  /\ contact \in BOOLEAN
  /\ errored \in BOOLEAN

\* Receiver::new
Init ==
  /\ mode = "Local"
  /\ localLocked = FALSE /\ peerLocked = FALSE
  /\ held = {} /\ pending = {}
  /\ session = None /\ expected = 0
  /\ down = {} /\ contact = FALSE /\ errored = FALSE
-----------------------------------------------------------------------------
\* The mode ControlState::stop leaves behind.
StoppedMode(local, peer) == IF local \/ peer THEN "Paused" ELSE "Local"

\* Receiver::release, with codes d down when it starts.  Every outstanding code
\* is tried once; those that fail stay outstanding, and a failed release may
\* nevertheless have brought its code up.
Release(codes, d, failed) ==
  /\ pending' = failed
  /\ \E stuck \in SUBSET failed : down' = d \ ((pending \cup codes) \ stuck)

\* release_with_touchpads, and the tail of stop: release the codes, then lift
\* all contacts (on: there is one), then report the first failure.
ReleaseWithTouchpads(codes, d, on, error) ==
  \E failed \in SUBSET (pending \cup codes), padsFailed \in BOOLEAN :
    /\ Release(codes, d, failed)
    /\ contact' \in IF padsFailed THEN {on, FALSE} ELSE {FALSE}
    /\ errored' = (errored \/ error \/ failed # {} \/ padsFailed)

\* Receiver::stop with h held, d down and a contact on: the session is
\* forgotten and ControlState::stop hands over everything held.
Stopped(h, d, on, error) ==
  /\ session' = None
  /\ mode' = StoppedMode(localLocked', peerLocked')
  /\ held' = {}
  /\ ReleaseWithTouchpads(h, d, on, error)
  /\ UNCHANGED expected

\* ControlState::start(Mode::Receiving) would succeed.
MayStart == mode = "Local" /\ ~localLocked /\ ~peerLocked
-----------------------------------------------------------------------------
\* Receiver::begin
Begin(s) ==
  /\ IF s = 0 \/ pending # {}
       THEN errored' = TRUE /\ UNCHANGED <<mode, session, expected>>
       ELSE /\ UNCHANGED errored
            /\ IF MayStart
                 THEN mode' = "Receiving" /\ session' = s /\ expected' = 0
                 ELSE UNCHANGED <<mode, session, expected>>
  /\ UNCHANGED <<held, pending, locks, sink>>

\* The early return of Receiver::input: a stale or inactive session.
Stale(s) == session # s \/ mode # "Receiving"

\* The effect of one successful emission on what is down.
DownAfter(e) == CASE e.kind = "press"   -> down \cup {e.code}
                  [] e.kind = "release" -> down \ {e.code}
                  [] OTHER              -> down
ContactAfter(e) == CASE e.kind = "touch" -> TRUE
                     [] e.kind = "lift"  -> FALSE
                     [] OTHER            -> contact

\* What is held once the press of e is recorded, before anything is emitted.
Recorded(e) == IF e.kind = "press" THEN held \cup {e.code} ELSE held

\* Receiver::input for a session that is not the current one: no effect.
InputStale(s) == Stale(s) /\ UNCHANGED vars

\* A wrong sequence number, an invalid event or an exhausted sequence ends the
\* session before anything is injected.
InputRejected(s, q, e) ==
  /\ ~Stale(s)
  /\ q # expected \/ e.kind = "invalid" \/ expected = LastSequence
  /\ UNCHANGED locks
  /\ Stopped(held, down, contact, TRUE)

\* The event is recorded, emitted and counted.
InputInjected_Exhausted(s, q, e) ==
  /\ ~Stale(s)
  /\ q = expected /\ e.kind # "invalid"
  /\ down' = DownAfter(e) /\ contact' = ContactAfter(e)
  /\ held' = IF e.kind = "release" THEN held \ {e.code} ELSE Recorded(e)
  /\ expected' = expected + 1
  /\ UNCHANGED <<mode, locks, session, pending, errored>>
InputInjected(s, q, e) ==
  /\ ~Stale(s)
  /\ q = expected /\ e.kind # "invalid" /\ expected < LastSequence
  /\ down' = DownAfter(e) /\ contact' = ContactAfter(e)
  /\ held' = IF e.kind = "release" THEN held \ {e.code} ELSE Recorded(e)
  /\ expected' = expected + 1
  /\ UNCHANGED <<mode, locks, session, pending, errored>>

\* The event is recorded but its emission fails, having reached the desktop or
\* not: everything recorded is released.
InputFailed_Unrecorded(s, q, e) ==
  /\ ~Stale(s)
  /\ q = expected /\ e.kind # "invalid" /\ expected < LastSequence
  /\ UNCHANGED locks
  /\ Stopped(held, DownAfter(e), ContactAfter(e), TRUE)
InputFailed(s, q, e) ==
  /\ ~Stale(s)
  /\ q = expected /\ e.kind # "invalid" /\ expected < LastSequence
  /\ UNCHANGED locks
  /\ \/ Stopped(Recorded(e), down, contact, TRUE)
     \/ Stopped(Recorded(e), DownAfter(e), ContactAfter(e), TRUE)

\* Receiver::end: a session that is not the current one is left alone.
End(s) ==
  IF session = s
    THEN UNCHANGED locks /\ Stopped(held, down, contact, FALSE)
    ELSE UNCHANGED vars

\* Receiver::stop, also what dropping the receiver runs.
Stop == UNCHANGED locks /\ Stopped(held, down, contact, FALSE)

\* Receiver::physical_activity
PhysicalActivity ==
  /\ mode = "Receiving"
  /\ UNCHANGED locks
  /\ Stopped(held, down, contact, FALSE)

\* The common tail of local_lock and peer_lock.  ControlState stops only when
\* the flag changed; the receiver drops its session and cleans up unless it is
\* (still) receiving.
LockChanged_KeepsSession(changed) ==
  UNCHANGED <<mode, held, session, expected, pending, sink, errored>>
LockChanged(changed) ==
  IF changed
    THEN Stopped(held, down, contact, FALSE)
    ELSE /\ UNCHANGED <<mode, held, expected>>
         /\ IF mode = "Receiving"
              THEN /\ \E failed \in SUBSET pending :
                        /\ Release({}, down, failed)
                        /\ errored' = (errored \/ failed # {})
                   /\ UNCHANGED <<session, contact>>
              ELSE /\ session' = None
                   /\ ReleaseWithTouchpads({}, down, contact, FALSE)

LocalLock(locked) ==
  /\ localLocked' = locked
  /\ UNCHANGED peerLocked
  /\ LockChanged(localLocked # locked)

PeerLock(locked) ==
  /\ peerLocked' = locked
  /\ UNCHANGED localLocked
  /\ LockChanged(peerLocked # locked)

\* Receiver::position_on: refused while input is active or being cleaned up,
\* otherwise the sink moves the pointer or fails; nothing is pressed.
PositionOn ==
  /\ errored' \in IF pending = {} /\ (session = None \/ expected = 0)
                    THEN {errored, TRUE} ELSE {TRUE}
  /\ UNCHANGED <<mode, locks, held, session, expected, pending, sink>>

Next ==
  \/ \E s \in Sessions : Begin(s) \/ InputStale(s) \/ End(s)
  \/ \E s \in Sessions, q \in 0..LastSequence, e \in Events :
       InputRejected(s, q, e) \/ InputInjected(s, q, e) \/ InputFailed(s, q, e)
  \/ Stop
  \/ PhysicalActivity
  \/ \E locked \in BOOLEAN : LocalLock(locked) \/ PeerLock(locked)
  \/ PositionOn

Spec == Init /\ [][Next]_vars
-----------------------------------------------------------------------------
(* Properties *)

\* A code that is down on the desktop is always one the receiver knows it must
\* release: it is recorded as held, or its release is still outstanding.  The
\* order "record, emit, forget" of input and the retry set of release are what
\* it depends on.
NothingForgotten == down \subseteq held \cup pending

\* The session, the mode and the lock flags never disagree: the receiver has a
\* session exactly while it is receiving, holds codes only then, and never on
\* a locked desktop or with a cleanup outstanding.
SessionMatchesMode ==
  /\ session # None <=> mode = "Receiving"
  /\ mode = "Receiving" => ~localLocked /\ ~peerLocked /\ pending = {}
  /\ mode = "Local" => ~localLocked /\ ~peerLocked
  /\ mode # "Receiving" => held = {}

\* As long as no operation has reported an error (the coordinator drops the
\* receiver at the first one), a desktop without a session has no key, button
\* or finger of the peer down: ending, locking and taking over leave it neutral.
NeutralWhenIdle ==
  ~errored /\ session = None => down = {} /\ pending = {} /\ ~contact

\* A new session starts with nothing down, whatever failed before: a code that
\* an earlier session left stuck keeps Receiver::begin from granting a new one.
CleanStart == [][session = None /\ session' # None => down = {}]_vars

\* A code goes down only in a step of the session that was receiving when the
\* step began, never in a cleanup, an end, a lock change or a new session.
PressesNeedSession ==
  [][~(down' \subseteq down) => session # None /\ mode = "Receiving"]_vars

\* The receiver implements the lease the desktop is promised.
Lease == INSTANCE InputLease WITH owner <- session, pressed <- down,
                                  locked <- (localLocked \/ peerLocked)
LeaseSpec == Lease!Spec
=============================================================================
