------------------------------- MODULE Keyboards -------------------------------
(***************************************************************************)
(* The physical keyboards of a computer and the keys its peer is told of:  *)
(* ActivityMonitor (src/src/activity.rs) over PhysicalKeys                 *)
(* (src/src/input.rs), and forward_keyboard with the branches of           *)
(* coordinate_with_control that sample the keyboards (src/src/bridge.rs).  *)
(*                                                                         *)
(* The user, who types, plugs and unplugs, and the kernel, which keeps the *)
(* events of an open device until they are read, are the environment: they *)
(* act between any two steps of a sample.  What makes sessions start and   *)
(* end is Bridge's subject: here they may.                                 *)
(***************************************************************************)
EXTENDS Naturals, Sequences, SequencesExt

CONSTANTS Slots,           \* how many keyboards are configured
          Keys,            \* key codes, in 1..255
          ModifierGroups,  \* codes of Ctrl, of Alt and of Shift, left and right
          PendingLimit,    \* key events kept until they are taken (512)
          MaxUnread        \* bound on the events that are not in devices yet

ASSUME KeysAssumption == Keys \subseteq 1..255 /\ ModifierGroups \subseteq SUBSET Keys
ASSUME BoundsAssumption ==
  Slots \in Nat \ {0} /\ PendingLimit \in Nat /\ MaxUnread \in Nat

VARIABLES
  down,       \* keys held on each keyboard
  plugged,    \* keyboards that are there
  unread,     \* events of each open device that the kernel keeps
  fd,         \* Slot.device: closed, open, or open on a device that is gone
  devices,    \* PhysicalKeys.devices
  pending,    \* PhysicalKeys.pending, or what the tick took of it
  ready,      \* local_ready and peer_ready, of a connection that exists
  role,
  sourceKeys, \* source_keys; empty outside a session, where nothing reads them
  at,         \* where the coordinator is: in its select, or in a branch of it
  branch,     \* the branch that samples
  slot,       \* the slot that sample is at
  initial,    \* keys of get_key_state that are not yet in devices
  batch,      \* events of fetch_events that are not yet in devices
  active      \* what sample is going to return

hardware == <<down, plugged>>
monitor  == <<devices, pending>>
session  == <<role, sourceKeys>>
sample   == <<at, branch, slot, initial, batch, active>>
vars == <<hardware, unread, fd, monitor, ready, session, sample>>

Keyboards == 1..Slots
Escape == 1
Events == [code : Keys, pressed : BOOLEAN]

TypeOK ==
  /\ down \in [Keyboards -> SUBSET Keys]
  /\ plugged \in [Keyboards -> BOOLEAN]
  /\ unread \in [Keyboards -> Seq(Events)]
  /\ fd \in [Keyboards -> {"closed", "open", "gone"}]
  /\ devices \in [Keyboards -> SUBSET Keys]
  /\ pending \in Seq(Events) /\ Len(pending) <= PendingLimit
  /\ ready \in BOOLEAN
  /\ role \in {"Local", "Sending", "Receiving"}
  /\ sourceKeys \subseteq Keys
  /\ at \in {"select", "slot", "events", "leave", "sampled", "forward"}
  /\ branch \in {"none", "Tick", "Started", "Begin", "Input"}
  /\ slot \in Keyboards /\ initial \subseteq Keys /\ batch \in Seq(Events)
  /\ active \in BOOLEAN

Init ==
  /\ down = [d \in Keyboards |-> {}]
  /\ plugged = [d \in Keyboards |-> TRUE]
  /\ unread = [d \in Keyboards |-> <<>>]
  /\ fd = [d \in Keyboards |-> "closed"]
  /\ devices = [d \in Keyboards |-> {}]
  /\ pending = <<>> /\ ready = FALSE
  /\ role = "Local" /\ sourceKeys = {}
  /\ at = "select" /\ branch = "none"
  /\ slot = 1 /\ initial = {} /\ batch = <<>> /\ active = FALSE

Apply(keys, e) == IF e.pressed THEN keys \cup {e.code} ELSE keys \ {e.code}
-----------------------------------------------------------------------------
(* The user and the kernel *)

\* A key goes down or up; its event waits if the device is open.
Type(d, e) ==
  /\ plugged[d] /\ e.pressed = (e.code \notin down[d])
  /\ Len(FlattenSeq(unread)) + Len(batch) < MaxUnread
  /\ down' = [down EXCEPT ![d] = Apply(@, e)]
  /\ unread' = IF fd[d] = "open" THEN [unread EXCEPT ![d] = Append(@, e)] ELSE unread
  /\ UNCHANGED <<plugged, fd, monitor, ready, session, sample>>

\* What was not read of a device that is gone cannot be read any more.
Unplug(d) ==
  /\ plugged[d]
  /\ plugged' = [plugged EXCEPT ![d] = FALSE]
  /\ down' = [down EXCEPT ![d] = {}]
  /\ unread' = [unread EXCEPT ![d] = <<>>]
  /\ fd' = [fd EXCEPT ![d] = IF @ = "open" THEN "gone" ELSE @]
  /\ UNCHANGED <<monitor, ready, session, sample>>

Plug(d) ==
  /\ ~plugged[d]
  /\ plugged' = [plugged EXCEPT ![d] = TRUE]
  /\ UNCHANGED <<down, unread, fd, monitor, ready, session, sample>>
-----------------------------------------------------------------------------
(* PhysicalKeys *)

Held(devs) == UNION {devs[d] : d \in Keyboards}

After(e) == [devices EXCEPT ![slot] = Apply(@, e)]
Changes(e) == (e.code \in Held(devices)) # (e.code \in Held(After(e)))

\* PhysicalKeys::update: an event for the peer only when a key goes down on its
\* first keyboard or up on its last one.
Update_EachKeyboard(e) ==
  /\ devices' = After(e)
  /\ pending' = IF After(e) # devices THEN Append(pending, e) ELSE pending
Update(e) ==
  /\ devices' = After(e)
  /\ pending' = IF Changes(e) THEN Append(pending, e) ELSE pending

\* ActivityMonitor::suspend
Suspend ==
  /\ fd' = [d \in Keyboards |-> "closed"]
  /\ unread' = [d \in Keyboards |-> <<>>]
  /\ devices' = [d \in Keyboards |-> {}]
  /\ pending' = <<>>

\* Back to the select.
Select ==
  /\ at' = "select" /\ branch' = "none"
  /\ slot' = 1 /\ initial' = {} /\ batch' = <<>> /\ active' = FALSE

\* The end of the connection, by an error or not, up to the next one.
TearDown ==
  /\ Suspend /\ Select
  /\ ready' = FALSE /\ role' = "Local" /\ sourceKeys' = {}
  /\ UNCHANGED hardware
-----------------------------------------------------------------------------
(* ActivityMonitor::sample: slot after slot *)

NextSlot ==
  IF slot < Slots THEN at' = "slot" /\ slot' = slot + 1
                  ELSE at' = "sampled" /\ slot' = 1

\* The device file is not there.
Absent ==
  /\ at = "slot" /\ fd[slot] = "closed" /\ ~plugged[slot]
  /\ NextSlot
  /\ UNCHANGED <<hardware, unread, fd, monitor, ready, session, branch, initial, batch, active>>

\* The device is opened and asked for its key state.  The kernel drops the key
\* events that it kept for the reader before it answers.
Open ==
  /\ at = "slot" /\ fd[slot] = "closed" /\ plugged[slot]
  /\ fd' = [fd EXCEPT ![slot] = "open"]
  /\ initial' = down[slot]
  /\ UNCHANGED <<hardware, unread, monitor, ready, session, at, branch, slot, batch, active>>

\* fetch_events: as many events as one read returns.
Fetch ==
  /\ at = "slot" /\ initial = {} /\ fd[slot] = "open"
  /\ \E n \in 1..Len(unread[slot]) :
       /\ batch' = SubSeq(unread[slot], 1, n)
       /\ unread' = [unread EXCEPT ![slot] = SubSeq(@, n + 1, Len(@))]
  /\ at' = "events" /\ active' = TRUE
  /\ UNCHANGED <<hardware, fd, monitor, ready, session, branch, slot, initial>>

\* There is nothing to read.
WouldBlock ==
  /\ at = "slot" /\ initial = {} /\ fd[slot] = "open" /\ unread[slot] = <<>>
  /\ NextSlot
  /\ UNCHANGED <<hardware, unread, fd, monitor, ready, session, branch, initial, batch, active>>

\* fetch_events of a device that is gone: ENODEV.
Gone_KeysStay ==
  /\ at = "slot" /\ initial = {} /\ fd[slot] = "gone"
  /\ fd' = [fd EXCEPT ![slot] = "closed"]
  /\ at' = "leave"
  /\ devices' = [devices EXCEPT ![slot] = {}]
  /\ UNCHANGED <<hardware, unread, pending, ready, session, branch, slot, initial, batch, active>>
Gone ==
  /\ at = "slot" /\ initial = {} /\ fd[slot] = "gone"
  /\ fd' = [fd EXCEPT ![slot] = "closed"]
  /\ at' = "leave"
  /\ UNCHANGED <<hardware, unread, monitor, ready, session, branch, slot, initial, batch, active>>

Least(k, keys) == k \in keys /\ \A l \in keys : k <= l

\* The event that update is called with next: for a key that was held when the
\* device was opened, one that was read, or (PhysicalKeys::disconnect) the
\* release of a key that was held on the device that is gone.
Updating(e) ==
  \/ at = "slot" /\ Least(e.code, initial) /\ e.pressed
  \/ at = "events" /\ batch # <<>> /\ e = Head(batch)
  \/ at = "leave" /\ Least(e.code, devices[slot]) /\ ~e.pressed

\* A full queue of events for the peer is an error.
UpdateKeys(e) ==
  /\ Updating(e)
  /\ IF Changes(e) /\ Len(pending) >= PendingLimit THEN TearDown
     ELSE /\ Update(e)
          /\ initial' = initial \ {e.code}
          /\ batch' = IF at = "events" THEN Tail(batch) ELSE batch
          /\ UNCHANGED <<hardware, unread, fd, ready, session, at, branch, slot, active>>

SlotDone ==
  /\ \/ at = "events" /\ batch = <<>>
     \/ at = "leave" /\ devices[slot] = {}
  /\ NextSlot
  /\ UNCHANGED <<hardware, unread, fd, monitor, ready, session, branch, initial, batch, active>>
-----------------------------------------------------------------------------
(* The coordinator *)

EmergencyModifiers(keys) == \A group \in ModifierGroups : group \cap keys # {}

\* A branch of the select samples.
Sample(b) ==
  /\ ready /\ at = "select"
  /\ at' = "slot" /\ branch' = b
  /\ UNCHANGED <<hardware, unread, fd, monitor, ready, session, slot, initial, batch, active>>

Tick        == Sample("Tick")
Started     == Sample("Started") /\ role = "Local"
HandleBegin == Sample("Begin") /\ role = "Local"
HandleInput == Sample("Input") /\ role = "Receiving"

\* Physical input takes back control.  Then the tick forwards the events that
\* it takes, which does nothing outside a session of this side.
TickSampled ==
  /\ at = "sampled" /\ branch = "Tick"
  /\ IF role = "Sending"
       THEN /\ at' = "forward"
            /\ UNCHANGED <<pending, role, branch, slot, initial, batch, active>>
       ELSE /\ pending' = <<>> /\ role' = IF active THEN "Local" ELSE role
            /\ Select
  /\ UNCHANGED <<hardware, unread, fd, devices, ready, sourceKeys>>

EscapePressed == [code |-> Escape, pressed |-> TRUE]

\* forward_keyboard, and what the tick does when it finds the emergency chord:
\* the rest of the events is dropped.
Forward ==
  /\ at = "forward" /\ pending # <<>>
  /\ LET keys == Apply(sourceKeys, Head(pending)) IN
     IF Head(pending) = EscapePressed /\ EmergencyModifiers(keys)
       THEN pending' = <<>> /\ role' = "Local" /\ sourceKeys' = {}
       ELSE pending' = Tail(pending) /\ sourceKeys' = keys /\ UNCHANGED role
  /\ UNCHANGED <<hardware, unread, fd, devices, ready, sample>>

TickEnds ==
  /\ at = "forward" /\ pending = <<>>
  /\ Select
  /\ UNCHANGED <<hardware, unread, fd, monitor, ready, session>>

\* Started begins a session with the keys that are held, and not while they
\* are the emergency chord.  The events of these keys are taken and dropped.
StartedSampled_Neutral ==
  /\ at = "sampled" /\ branch = "Started"
  /\ pending' = <<>>
  /\ IF Escape \in Held(devices) /\ EmergencyModifiers(Held(devices))
       THEN UNCHANGED session
       ELSE role' = "Sending" /\ sourceKeys' = {}
  /\ Select
  /\ UNCHANGED <<hardware, unread, fd, devices, ready>>
StartedSampled ==
  /\ at = "sampled" /\ branch = "Started"
  /\ pending' = <<>>
  /\ IF Escape \in Held(devices) /\ EmergencyModifiers(Held(devices))
       THEN UNCHANGED session
       ELSE role' = "Sending" /\ sourceKeys' = Held(devices)
  /\ Select
  /\ UNCHANGED <<hardware, unread, fd, devices, ready>>

\* Begin and Input of the peer are refused or end the session if somebody is
\* using this computer.  The key events that this finds are left for the tick.
PeerSampled ==
  /\ at = "sampled" /\ branch \in {"Begin", "Input"}
  /\ role' = IF active THEN "Local" ELSE "Receiving"
  /\ Select
  /\ UNCHANGED <<hardware, unread, fd, monitor, ready, sourceKeys>>

\* A session ends for any other reason.
SessionEnds ==
  /\ at = "select" /\ role # "Local"
  /\ role' = "Local" /\ sourceKeys' = {}
  /\ UNCHANGED <<hardware, unread, fd, monitor, ready, sample>>

\* Either session is locked, or both are unlocked.
Lock ==
  /\ at = "select" /\ ready /\ ready' = FALSE
  /\ Suspend /\ role' = "Local" /\ sourceKeys' = {}
  /\ UNCHANGED <<hardware, sample>>

Unlock ==
  /\ at = "select" /\ ~ready /\ ready' = TRUE
  /\ UNCHANGED <<hardware, unread, fd, monitor, session, sample>>

\* Any call may fail, and the peer may leave.
Disconnect == TearDown
-----------------------------------------------------------------------------
User ==
  \E d \in Keyboards : Plug(d) \/ Unplug(d) \/ \E e \in Events : Type(d, e)

\* What the loop does until it is back in its select.
Step ==
  \/ Absent \/ Open \/ Fetch \/ WouldBlock \/ Gone \/ SlotDone
  \/ \E e \in Events : UpdateKeys(e)
  \/ TickSampled \/ Forward \/ TickEnds \/ StartedSampled \/ PeerSampled

Next ==
  \/ User \/ Step
  \/ Tick \/ Started \/ HandleBegin \/ HandleInput
  \/ SessionEnds \/ Lock \/ Unlock \/ Disconnect

Spec == Init /\ [][Next]_vars

\* The interval of 16 ms ticks as long as the loop runs, and a branch that was
\* entered goes on.  Nothing is assumed of the user and of the rest of the
\* coordinator.
FairSpec == Spec /\ WF_vars(Tick \/ Step)
-----------------------------------------------------------------------------
(* Properties *)

PhysicallyHeld == Held(down)

\* Once everything that happened has been read, the peer has been told of
\* exactly the keys that are held on some keyboard: whatever was typed on two
\* keyboards at a time, plugged, unplugged while a key was held, typed in the
\* middle of a sample or while the monitor was suspended, nothing stays down
\* and nothing is missing.
AllRead ==
  /\ at = "select"
  /\ \A d \in Keyboards :
       unread[d] = <<>> /\ fd[d] # "gone" /\ (plugged[d] => fd[d] = "open")
PeerHoldsWhatIsHeld == role = "Sending" /\ AllRead => sourceKeys = PhysicallyHeld

\* The keys that are held after some events, from those held before them: what
\* the last event of each key says.
Replay(keys, events) ==
  {k \in Keys :
     \/ k \in keys /\ \A i \in DOMAIN events : events[i].code # k
     \/ \E i \in DOMAIN events :
          /\ events[i] = [code |-> k, pressed |-> TRUE]
          /\ \A j \in DOMAIN events : j > i => events[j].code # k}

\* Escape goes down on this computer while the modifiers are held on any of its
\* keyboards, as far as the monitor has read.
ChordRead ==
  /\ Escape \notin Held(devices) /\ Escape \in Held(devices')
  /\ EmergencyModifiers(Held(devices'))

\* An event on its way that forward_keyboard takes for the emergency chord.
ChordWaits ==
  /\ at # "select"
  /\ \E i \in DOMAIN pending :
       /\ pending[i] = EscapePressed
       /\ EmergencyModifiers(Replay(sourceKeys, SubSeq(pending, 1, i)))

\* Pressing Escape with the modifiers held ends remote control before the loop
\* is back in its select, although the modifiers may have been held on another
\* keyboard, or since before the session.
ChordEndsSession ==
  role = "Sending" /\ (ChordRead \/ ChordWaits) => role' # "Sending" \/ ChordWaits'
EmergencyReturns == [][ChordEndsSession]_vars

\* A key that nobody holds any more, because it was released or its keyboard
\* is gone, does not stay down on the peer: again and again, each key is up
\* there or held here.
ReleasesReachPeer ==
  \A k \in Keys : []<>(k \notin sourceKeys \/ k \in PhysicallyHeld)
===============================================================================
