---------------------------- MODULE ReceiverProofs ----------------------------
(***************************************************************************)
(* Proofs about Receiver, for every set of codes and sessions and every    *)
(* last sequence number.  The inductive invariant is the conjunction of    *)
(* the three state properties with the type invariant: NothingForgotten    *)
(* needs SessionMatchesMode (a session starts with nothing outstanding and *)
(* nothing held), and the theorems about steps need both.                  *)
(***************************************************************************)
EXTENDS Receiver, TLAPS

IInv == TypeOK /\ NothingForgotten /\ SessionMatchesMode /\ NeutralWhenIdle

USE SessionAssumption, SequenceAssumption

\* One pass over the outstanding releases: what fails stays outstanding, what
\* was down and outstanding is down only if its release failed, and when
\* nothing failed nothing that was outstanding is down.
LEMMA ReleaseEffect ==
  ASSUME NEW codes \in SUBSET Codes, NEW d \in SUBSET Codes,
         NEW failed \in SUBSET (pending \cup codes), pending \subseteq Codes,
         d \subseteq pending \cup codes,
         Release(codes, d, failed)
  PROVE  /\ pending' = failed /\ pending' \subseteq Codes
         /\ down' \subseteq d /\ down' \subseteq pending'
BY DEF Release

\* A stop leaves a receiver without a session, holding nothing, with every
\* code still down among the outstanding releases; without an error everything
\* is up.
LEMMA StoppedEffect ==
  ASSUME TypeOK, NEW h \in SUBSET Codes, NEW d \in SUBSET Codes,
         NEW on \in BOOLEAN, NEW error \in BOOLEAN,
         d \subseteq h \cup pending,
         localLocked' \in BOOLEAN, peerLocked' \in BOOLEAN,
         Stopped(h, d, on, error)
  PROVE  IInv' /\ session' = None /\ down' \subseteq d
<1>1. PICK failed \in SUBSET (pending \cup h), padsFailed \in BOOLEAN :
        /\ Release(h, d, failed)
        /\ contact' \in IF padsFailed THEN {on, FALSE} ELSE {FALSE}
        /\ errored' = (errored \/ error \/ failed # {} \/ padsFailed)
  BY Zenon DEF Stopped, ReleaseWithTouchpads
<1>2. /\ pending' = failed /\ pending' \subseteq Codes
      /\ down' \subseteq d /\ down' \subseteq pending'
  BY <1>1, ReleaseEffect DEF TypeOK
<1>3. TypeOK'
  BY <1>1, <1>2 DEF TypeOK, Stopped, StoppedMode
<1>4. NothingForgotten'
  BY <1>2 DEF NothingForgotten
<1>5. SessionMatchesMode'
  BY DEF Stopped, StoppedMode, SessionMatchesMode
<1>6. NeutralWhenIdle'
  <2>1. ASSUME ~errored' PROVE failed = {} /\ ~padsFailed
    BY <1>1, <2>1
  <2>2. ASSUME ~errored' PROVE down' = {} /\ pending' = {} /\ ~contact'
    BY <1>1, <1>2, <2>1, <2>2
  <2>. QED  BY <2>2 DEF NeutralWhenIdle
<1>. QED  BY <1>2, <1>3, <1>4, <1>5, <1>6 DEF IInv, Stopped

LEMMA InitIInv == Init => IInv
<1>. SUFFICES ASSUME Init PROVE IInv
  OBVIOUS
<1>1. TypeOK
  <2>1. expected \in 0..LastSequence
    BY DEF Init
  <2>. QED  BY <2>1 DEF Init, TypeOK
<1>2. NothingForgotten /\ SessionMatchesMode /\ NeutralWhenIdle
  BY DEF Init, NothingForgotten, SessionMatchesMode, NeutralWhenIdle
<1>. QED  BY <1>1, <1>2 DEF IInv

\* The invariant says enough for every cleanup that starts from the current
\* state: all that is down is held or outstanding.
LEMMA CleanupEffect ==
  ASSUME IInv, localLocked' \in BOOLEAN, peerLocked' \in BOOLEAN,
         Stopped(held, down, contact, FALSE)
  PROVE  IInv' /\ session' = None /\ down' \subseteq down
<1>1. TypeOK /\ held \in SUBSET Codes /\ down \in SUBSET Codes
      /\ contact \in BOOLEAN /\ down \subseteq held \cup pending
  BY DEF IInv, TypeOK, NothingForgotten
<1>. QED  BY <1>1, StoppedEffect

\* What one step does that matters to the lease: it keeps the invariant, and
\* relates the session, the locks and the codes down before and after.
LockFree == ~localLocked /\ ~peerLocked
StepEffect ==
  \/ \* a session is granted
     /\ session = None /\ session' \in Sessions /\ LockFree
     /\ down = {} /\ UNCHANGED <<down, locks>>
  \/ \* the receiving session injects
     /\ session # None /\ mode = "Receiving" /\ UNCHANGED <<session, locks>>
     /\ \E c \in Codes : down' \in {down \cup {c}, down \ {c}, down}
  \/ \* the receiving session ends at a failed emission
     /\ session # None /\ mode = "Receiving" /\ session' = None
     /\ UNCHANGED locks
     /\ \E c \in Codes : down' \subseteq down \cup {c}
  \/ \* the receiver settles without a session
     /\ session' = None /\ down' \subseteq down
     /\ localLocked' \in BOOLEAN /\ peerLocked' \in BOOLEAN
  \/ \* nothing the lease speaks of changes
     UNCHANGED <<session, down, locks>>

LEMMA BeginStep ==
  ASSUME IInv, NEW s \in Sessions, Begin(s)
  PROVE  IInv' /\ StepEffect
<1>1. CASE s # 0 /\ pending = {} /\ MayStart
  <2>1. held = {} /\ session = None /\ down = {}
    BY <1>1 DEF MayStart, IInv, SessionMatchesMode, NothingForgotten
  <2>2. IInv'
    BY <1>1, <2>1 DEF Begin, MayStart, locks, sink, IInv, TypeOK,
       NothingForgotten, SessionMatchesMode, NeutralWhenIdle
  <2>3. StepEffect
    BY <1>1, <2>1 DEF Begin, MayStart, locks, sink, StepEffect, LockFree
  <2>. QED  BY <2>2, <2>3
<1>2. CASE ~(s # 0 /\ pending = {} /\ MayStart)
  <2>1. UNCHANGED <<mode, locks, held, session, expected, pending, sink>>
        /\ errored' \in {errored, TRUE}
    BY <1>2 DEF Begin
  <2>2. IInv'
    BY <2>1 DEF locks, sink, IInv, TypeOK, NothingForgotten,
       SessionMatchesMode, NeutralWhenIdle
  <2>3. StepEffect
    BY <2>1 DEF sink, StepEffect
  <2>. QED  BY <2>2, <2>3
<1>. QED  BY <1>1, <1>2

LEMMA InputRejectedStep ==
  ASSUME IInv, NEW s \in Sessions, NEW q \in 0..LastSequence, NEW e \in Events,
         InputRejected(s, q, e)
  PROVE  IInv' /\ StepEffect
<1>1. /\ TypeOK /\ held \in SUBSET Codes /\ down \in SUBSET Codes
      /\ contact \in BOOLEAN /\ down \subseteq held \cup pending
      /\ localLocked' \in BOOLEAN /\ peerLocked' \in BOOLEAN
      /\ Stopped(held, down, contact, TRUE)
  BY DEF IInv, TypeOK, NothingForgotten, InputRejected, locks
<1>2. IInv' /\ session' = None /\ down' \subseteq down
  BY <1>1, StoppedEffect
<1>. QED  BY <1>1, <1>2 DEF StepEffect

LEMMA InputInjectedStep ==
  ASSUME IInv, NEW s \in Sessions, NEW q \in 0..LastSequence, NEW e \in Events,
         InputInjected(s, q, e)
  PROVE  IInv' /\ StepEffect
<1>1. /\ session # None /\ mode = "Receiving" /\ pending = {}
      /\ UNCHANGED <<mode, locks, session, pending, errored>>
      /\ e.code \in Codes
      /\ expected' = expected + 1 /\ expected < LastSequence
  BY DEF InputInjected, Stale, IInv, SessionMatchesMode, Events
<1>2. \/ e.kind = "press" /\ down' = down \cup {e.code}
                          /\ held' = held \cup {e.code}
      \/ e.kind = "release" /\ down' = down \ {e.code}
                            /\ held' = held \ {e.code}
      \/ down' = down /\ held' = held
  <2>1. e.kind \in {"press", "release", "touch", "lift", "motion", "invalid"}
    BY DEF Events
  <2>. QED  BY <2>1 DEF InputInjected, DownAfter, Recorded
<1>3. contact' \in BOOLEAN
  BY DEF InputInjected, ContactAfter, IInv, TypeOK
<1>4. expected' \in 0..LastSequence
  BY <1>1 DEF IInv, TypeOK
<1>5. TypeOK'
  BY <1>1, <1>2, <1>3, <1>4 DEF IInv, TypeOK, locks
<1>6. NothingForgotten' /\ SessionMatchesMode' /\ NeutralWhenIdle'
  BY <1>1, <1>2 DEF locks, IInv, NothingForgotten, SessionMatchesMode,
     NeutralWhenIdle
<1>7. StepEffect
  BY <1>1, <1>2 DEF StepEffect
<1>. QED  BY <1>5, <1>6, <1>7 DEF IInv

LEMMA InputFailedStep ==
  ASSUME IInv, NEW s \in Sessions, NEW q \in 0..LastSequence, NEW e \in Events,
         InputFailed(s, q, e)
  PROVE  IInv' /\ StepEffect
<1>1. /\ TypeOK /\ e.code \in Codes /\ Recorded(e) \in SUBSET Codes
      /\ localLocked' \in BOOLEAN /\ peerLocked' \in BOOLEAN
      /\ session # None /\ mode = "Receiving" /\ UNCHANGED locks
      /\ contact \in BOOLEAN /\ ContactAfter(e) \in BOOLEAN
  BY DEF IInv, TypeOK, InputFailed, Stale, SessionMatchesMode, locks, Events,
     Recorded, ContactAfter
<1>2. PICK d \in {down, DownAfter(e)}, on \in BOOLEAN :
        Stopped(Recorded(e), d, on, TRUE)
  BY <1>1 DEF InputFailed
<1>3. /\ d \in SUBSET Codes /\ d \subseteq down \cup {e.code}
      /\ d \subseteq Recorded(e) \cup pending
  <2>1. pending = {}
    BY <1>1 DEF IInv, SessionMatchesMode
  <2>2. down \subseteq held
    BY <2>1 DEF IInv, NothingForgotten
  <2>3. d \subseteq down \/ (e.kind = "press" /\ d = down \cup {e.code})
    BY <1>2 DEF DownAfter
  <2>. QED  BY <1>1, <2>2, <2>3 DEF Recorded, IInv, TypeOK
<1>4. IInv' /\ session' = None /\ down' \subseteq d
  BY <1>1, <1>2, <1>3, StoppedEffect
<1>5. StepEffect
  BY <1>1, <1>3, <1>4 DEF StepEffect
<1>. QED  BY <1>4, <1>5

\* The operations that only clean up.
LEMMA CleanupStep ==
  ASSUME IInv, UNCHANGED locks, Stopped(held, down, contact, FALSE)
  PROVE  IInv' /\ StepEffect
<1>1. localLocked' \in BOOLEAN /\ peerLocked' \in BOOLEAN
  BY DEF IInv, TypeOK, locks
<1>. QED  BY <1>1, CleanupEffect DEF StepEffect

\* An unchanged lock flag: a receiver that is receiving has nothing to retry,
\* any other retries its outstanding releases.
LEMMA LockUnchanged ==
  ASSUME IInv, UNCHANGED locks, LockChanged(FALSE)
  PROVE  IInv' /\ StepEffect
<1>1. CASE mode = "Receiving"
  <2>1. pending = {} /\ session # None
    BY <1>1 DEF IInv, SessionMatchesMode
  <2>2. PICK failed \in SUBSET pending :
          Release({}, down, failed) /\ errored' = (errored \/ failed # {})
    BY <1>1 DEF LockChanged
  <2>3. failed = {} /\ pending' = pending /\ down' = down
    BY <2>1, <2>2 DEF Release
  <2>4. errored' = errored
    BY <2>2, <2>3 DEF IInv, TypeOK
  <2>5. UNCHANGED vars
    BY <1>1, <2>3, <2>4 DEF LockChanged, vars, locks
  <2>6. IInv'
    BY <2>5 DEF vars, IInv, TypeOK, NothingForgotten, SessionMatchesMode,
       NeutralWhenIdle
  <2>. QED  BY <2>5, <2>6 DEF vars, StepEffect, locks
<1>2. CASE mode # "Receiving"
  <2>1. PICK failed \in SUBSET (pending \cup {}), padsFailed \in BOOLEAN :
          /\ Release({}, down, failed)
          /\ contact' \in IF padsFailed THEN {contact, FALSE} ELSE {FALSE}
          /\ errored' = (errored \/ FALSE \/ failed # {} \/ padsFailed)
    BY <1>2 DEF LockChanged, ReleaseWithTouchpads
  <2>2. /\ UNCHANGED <<mode, held, expected>> /\ session' = None
        /\ session = None /\ held = {} /\ down \subseteq pending
    BY <1>2 DEF LockChanged, IInv, SessionMatchesMode, NothingForgotten
  <2>3. /\ pending' = failed /\ pending' \subseteq Codes
        /\ down' \subseteq down /\ down' \subseteq pending'
    BY <2>1, <2>2, ReleaseEffect DEF IInv, TypeOK
  <2>4. TypeOK'
    BY <2>1, <2>2, <2>3 DEF IInv, TypeOK, locks
  <2>5. NothingForgotten' /\ SessionMatchesMode'
    BY <1>2, <2>2, <2>3 DEF IInv, NothingForgotten, SessionMatchesMode, locks
  <2>6. NeutralWhenIdle'
    <3>1. ASSUME ~errored' PROVE failed = {} /\ ~padsFailed
      BY <2>1, <3>1
    <3>2. ASSUME ~errored' PROVE down' = {} /\ pending' = {} /\ ~contact'
      BY <2>1, <2>3, <3>1, <3>2
    <3>. QED  BY <3>2 DEF NeutralWhenIdle
  <2>7. StepEffect
    BY <2>2, <2>3 DEF StepEffect, IInv, TypeOK, locks
  <2>. QED  BY <2>4, <2>5, <2>6, <2>7 DEF IInv
<1>. QED  BY <1>1, <1>2

LEMMA LocalLockStep ==
  ASSUME IInv, NEW locked \in BOOLEAN, LocalLock(locked)
  PROVE  IInv' /\ StepEffect
<1>1. localLocked' \in BOOLEAN /\ peerLocked' \in BOOLEAN
  BY DEF LocalLock, IInv, TypeOK
<1>2. CASE localLocked # locked
  <2>1. Stopped(held, down, contact, FALSE)
    BY <1>2 DEF LocalLock, LockChanged
  <2>. QED  BY <1>1, <2>1, CleanupEffect DEF StepEffect
<1>3. CASE localLocked = locked
  <2>1. UNCHANGED locks /\ LockChanged(FALSE)
    BY <1>3 DEF LocalLock, locks
  <2>. QED  BY <2>1, LockUnchanged
<1>. QED  BY <1>2, <1>3

LEMMA PeerLockStep ==
  ASSUME IInv, NEW locked \in BOOLEAN, PeerLock(locked)
  PROVE  IInv' /\ StepEffect
<1>1. localLocked' \in BOOLEAN /\ peerLocked' \in BOOLEAN
  BY DEF PeerLock, IInv, TypeOK
<1>2. CASE peerLocked # locked
  <2>1. Stopped(held, down, contact, FALSE)
    BY <1>2 DEF PeerLock, LockChanged
  <2>. QED  BY <1>1, <2>1, CleanupEffect DEF StepEffect
<1>3. CASE peerLocked = locked
  <2>1. UNCHANGED locks /\ LockChanged(FALSE)
    BY <1>3 DEF PeerLock, locks
  <2>. QED  BY <2>1, LockUnchanged
<1>. QED  BY <1>2, <1>3

LEMMA PositionStep == ASSUME IInv, PositionOn PROVE IInv' /\ StepEffect
<1>1. /\ UNCHANGED <<mode, locks, held, session, expected, pending, sink>>
      /\ errored' \in {errored, TRUE}
  BY DEF PositionOn
<1>. QED  BY <1>1 DEF locks, sink, IInv, TypeOK, NothingForgotten,
          SessionMatchesMode, NeutralWhenIdle, StepEffect

LEMMA UnchangedStep == ASSUME IInv, UNCHANGED vars PROVE IInv' /\ StepEffect
BY DEF vars, locks, IInv, TypeOK, NothingForgotten, SessionMatchesMode,
   NeutralWhenIdle, StepEffect

\* Every step keeps the invariant and has one of the effects listed.
LEMMA NextStep == ASSUME IInv, [Next]_vars PROVE IInv' /\ StepEffect
<1>1. ASSUME NEW s \in Sessions, Begin(s) PROVE IInv' /\ StepEffect
  BY <1>1, BeginStep
<1>2. ASSUME NEW s \in Sessions, InputStale(s) PROVE IInv' /\ StepEffect
  BY <1>2, UnchangedStep DEF InputStale
<1>3. ASSUME NEW s \in Sessions, End(s) PROVE IInv' /\ StepEffect
  BY <1>3, CleanupStep, UnchangedStep DEF End
<1>4. ASSUME NEW s \in Sessions, NEW q \in 0..LastSequence, NEW e \in Events,
             InputRejected(s, q, e) \/ InputInjected(s, q, e)
               \/ InputFailed(s, q, e)
      PROVE  IInv' /\ StepEffect
  BY <1>4, InputRejectedStep, InputInjectedStep, InputFailedStep
<1>5. ASSUME Stop \/ PhysicalActivity PROVE IInv' /\ StepEffect
  BY <1>5, CleanupStep DEF Stop, PhysicalActivity
<1>6. ASSUME NEW locked \in BOOLEAN, LocalLock(locked) \/ PeerLock(locked)
      PROVE  IInv' /\ StepEffect
  BY <1>6, LocalLockStep, PeerLockStep
<1>7. ASSUME PositionOn PROVE IInv' /\ StepEffect
  BY <1>7, PositionStep
<1>8. ASSUME UNCHANGED vars PROVE IInv' /\ StepEffect
  BY <1>8, UnchangedStep
<1>. QED  BY <1>1, <1>2, <1>3, <1>4, <1>5, <1>6, <1>7, <1>8 DEF Next
-----------------------------------------------------------------------------
\* The invariant holds in every reachable state.
THEOREM Invariance == Spec => []IInv
BY InitIInv, NextStep, PTL DEF Spec

\* Every variable keeps its type (Receiver and ControlState as a whole).
THEOREM TypeCorrect == Spec => []TypeOK
BY Invariance, PTL DEF IInv

\* No code the peer pressed is ever forgotten (Receiver::input, release).
THEOREM NothingIsForgotten == Spec => []NothingForgotten
BY Invariance, PTL DEF IInv

\* Session, mode, locks and held codes never disagree.
THEOREM SessionFollowsMode == Spec => []SessionMatchesMode
BY Invariance, PTL DEF IInv

\* Without an error, a desktop without a session has nothing down.
THEOREM NeutralIdle == Spec => []NeutralWhenIdle
BY Invariance, PTL DEF IInv

\* A session is only ever granted with nothing down (Receiver::begin).
THEOREM SessionsStartClean == Spec => CleanStart
<1>1. ASSUME StepEffect, session = None, session' # None PROVE down = {}
  BY <1>1 DEF StepEffect
<1>2. IInv /\ [Next]_vars
        => [session = None /\ session' # None => down = {}]_vars
  BY <1>1, NextStep
<1>. QED  BY <1>2, Invariance, PTL DEF Spec, CleanStart

\* Codes go down only on behalf of the session that is receiving.
THEOREM NoPressWithoutSession == Spec => PressesNeedSession
<1>1. ASSUME StepEffect, ~(down' \subseteq down)
      PROVE  session # None /\ mode = "Receiving"
  BY <1>1 DEF StepEffect
<1>2. IInv /\ [Next]_vars
        => [~(down' \subseteq down) => session # None /\ mode = "Receiving"]_vars
  BY <1>1, NextStep
<1>. QED  BY <1>2, Invariance, PTL DEF Spec, PressesNeedSession

\* The receiver implements the input lease: under the mapping of Receiver every
\* behaviour of the receiver is one the lease allows.
THEOREM ImplementsLease == Spec => LeaseSpec
<1>1. Init => Lease!Init
  BY DEF Init, Lease!Init
<1>2. ASSUME IInv, StepEffect PROVE [Lease!Next]_(Lease!vars)
  <2>1. CASE session = None /\ session' \in Sessions /\ LockFree
             /\ down = {} /\ UNCHANGED <<down, locks>>
    <3>1. Lease!Grant(session')
      BY <2>1 DEF Lease!Grant, LockFree, locks
    <3>. QED  BY <2>1, <3>1 DEF Lease!Next
  <2>2. CASE session # None /\ mode = "Receiving"
             /\ UNCHANGED <<session, locks>>
             /\ \E c \in Codes : down' \in {down \cup {c}, down \ {c}, down}
    <3>1. PICK c \in Codes : down' \in {down \cup {c}, down \ {c}, down}
      BY <2>2
    <3>2. CASE down' = down
      BY <2>2, <3>2 DEF Lease!vars, locks
    <3>3. CASE down' \in {down \cup {c}, down \ {c}}
      <4>1. Lease!Inject(c)
        BY <2>2, <3>3 DEF Lease!Inject, locks
      <4>. QED  BY <4>1 DEF Lease!Next
    <3>. QED  BY <3>1, <3>2, <3>3
  <2>3. CASE session # None /\ mode = "Receiving" /\ session' = None
             /\ UNCHANGED locks
             /\ \E c \in Codes : down' \subseteq down \cup {c}
    <3>1. PICK c \in Codes : Lease!Revoke(c)
      BY <2>3 DEF Lease!Revoke, locks
    <3>. QED  BY <3>1 DEF Lease!Next
  <2>4. CASE session' = None /\ down' \subseteq down
             /\ localLocked' \in BOOLEAN /\ peerLocked' \in BOOLEAN
    <3>1. Lease!Settle
      BY <2>4 DEF Lease!Settle
    <3>. QED  BY <3>1 DEF Lease!Next
  <2>5. CASE UNCHANGED <<session, down, locks>>
    BY <2>5 DEF Lease!vars, locks
  <2>. QED  BY <1>2, <2>1, <2>2, <2>3, <2>4, <2>5 DEF StepEffect
<1>3. IInv /\ [Next]_vars => [Lease!Next]_(Lease!vars)
  BY <1>2, NextStep
<1>. QED  BY <1>1, <1>3, Invariance, PTL DEF Spec, LeaseSpec, Lease!Spec
=============================================================================
