----------------------------- MODULE TouchState -----------------------------
(***************************************************************************)
(* What a touchpad of NiriBridge remembers of its contacts                 *)
(* (src/src/touchpad.rs, TouchState) and the frames it writes from that    *)
(* memory: the snapshot that hands a stroke over, and the releases that    *)
(* end it.  Every frame passes the same checks before it is emitted, those *)
(* of the memory too, so a snapshot that fails them ends the connection in *)
(* the middle of a handover.  What the memory takes over from the kernel   *)
(* is not checked: raw follows it.                                         *)
(*                                                                         *)
(* The order of events in a frame is left out, except that each contact    *)
(* event belongs to a slot: a written frame is a function from places to   *)
(* events.  Axis fuzz, flatness and resolution are left out.               *)
(***************************************************************************)
EXTENDS Integers, FiniteSets

CONSTANT Descriptors   \* what a device or the peer may describe

VARIABLES
  descriptor,
  state,
  raw   \* the places whose values the kernel reported, and no frame since then

vars == <<descriptor, state, raw>>

-----------------------------------------------------------------------------
TouchKeys == (272..274) \cup {325, 328, 330} \cup (333..335)
TouchAxes == {0, 1, 24, 28} \cup (47..61)
TOUCH     == 330
SLOT      == 47
TRACKING  == 57
Extent    == 1000000
FrameMax  == 512

\* Descriptor::validate.
Valid(d) ==
    /\ d.keys \subseteq TouchKeys /\ {TOUCH, 325} \subseteq d.keys
    /\ {0} \subseteq d.properties /\ d.properties \subseteq {0, 2, 3, 4, 6}
    /\ d.axes \subseteq TouchAxes
    /\ {0, 1, SLOT, 53, 54, TRACKING} \subseteq d.axes
    /\ \A a \in d.axes : /\ d.low[a] \in Int /\ d.high[a] \in Int
                         /\ -Extent <= d.low[a] /\ d.low[a] <= d.high[a]
                         /\ d.high[a] <= Extent
    /\ d.low[SLOT] = 0 /\ d.high[SLOT] \in 0..31

SlotsOf(d)     == 0..d.high[SLOT]
PlainAxes(d)   == {a \in d.axes : a < SLOT}
ContactAxes(d) == {a \in d.axes : a > SLOT}

Key(code, value) == [kind |-> "key", code |-> code, value |-> value]
Abs(code, value) == [kind |-> "absolute", code |-> code, value |-> value]

InRange(d, a, v) == v \in d.low[a]..d.high[a] \/ (a = TRACKING /\ v = -1)

\* One event of validate_frame and Descriptor::validate_frame.
Fits(d, e) ==
    \/ e.kind = "key" /\ e.code \in d.keys /\ e.value \in 0..1
    \/ e.kind = "absolute" /\ e.code \in d.axes /\ InRange(d, e.code, e.value)

Sized(frame) ==
    /\ IsFiniteSet(DOMAIN frame)
    /\ Cardinality(DOMAIN frame) \in 1..FrameMax

Emittable(d, frame) ==
    /\ Sized(frame)
    /\ \A place \in DOMAIN frame : Fits(d, frame[place])

-----------------------------------------------------------------------------
NewContact(d) == [present |-> {TRACKING},
                  value   |-> [a \in ContactAxes(d) |-> -1]]

New(d) == [slot     |-> 0,
           keys     |-> {},
           axes     |-> [a \in PlainAxes(d) |-> d.low[a]],
           contacts |-> [i \in SlotsOf(d) |-> NewContact(d)]]

\* apply, for one event: a contact's value goes to the slot chosen last.
Applied(s, e) ==
    IF e.kind = "key"
    THEN [s EXCEPT !.keys = IF e.value = 0 THEN @ \ {e.code} ELSE @ \cup {e.code}]
    ELSE IF e.code = SLOT THEN [s EXCEPT !.slot = e.value]
    ELSE IF e.code > SLOT
    THEN [s EXCEPT !.contacts[s.slot] =
             [present |-> @.present \cup {e.code},
              value   |-> [@.value EXCEPT ![e.code] = e.value]]]
    ELSE [s EXCEPT !.axes[e.code] = e.value]

\* The frame's value replaces one that the kernel reported.
Place(s, e) == <<IF e.code > SLOT THEN s.slot ELSE -1, e.code>>
Replaced(s, places, e) ==
    IF e.kind = "key" THEN places ELSE places \ {Place(s, e)}

\* snapshot: the shared events, and those of every contact that is down.
Touching(s) == {i \in DOMAIN s.contacts : s.contacts[i].value[TRACKING] >= 0}

SnapshotPlaces(s) ==
    ({-1} \X ({TOUCH, SLOT} \cup DOMAIN s.axes \cup s.keys))
    \cup UNION {{i} \X ({SLOT} \cup s.contacts[i].present) : i \in Touching(s)}

SharedEvent(s, code) ==
    IF code = SLOT THEN Abs(SLOT, s.slot)
    ELSE IF code \in s.keys THEN Key(code, 1)
    ELSE IF code = TOUCH THEN Key(TOUCH, 0)
    ELSE Abs(code, s.axes[code])

ContactEvent(s, i, code) ==
    IF code = SLOT THEN Abs(SLOT, i) ELSE Abs(code, s.contacts[i].value[code])

Snapshot(s) ==
    [p \in SnapshotPlaces(s) |-> IF p[1] = -1 THEN SharedEvent(s, p[2])
                                 ELSE ContactEvent(s, p[1], p[2])]

\* releases: every key that is held and every slot, down or not.
ReleasePlaces(s) ==
    ({-1} \X ({TOUCH} \cup s.keys)) \cup ((DOMAIN s.contacts) \X {SLOT, TRACKING})

Releases(s) ==
    [p \in ReleasePlaces(s) |-> IF p[1] = -1 THEN Key(p[2], 0)
                                ELSE IF p[2] = SLOT THEN Abs(SLOT, p[1])
                                ELSE Abs(TRACKING, -1)]

-----------------------------------------------------------------------------
\* A virtual touchpad is created from a valid description, and a physical one
\* is opened with one.
Init ==
    /\ descriptor \in {d \in Descriptors : Valid(d)}
    /\ state = New(descriptor) /\ raw = {}

\* One event of a frame that was accepted.
Event(e) ==
    /\ Fits(descriptor, e)
    /\ state' = Applied(state, e) /\ raw' = Replaced(state, raw, e)
    /\ UNCHANGED descriptor

\* The virtual touchpad is released.
Reset == state' = New(descriptor) /\ raw' = {} /\ UNCHANGED descriptor

\* read, when a pad is taken, and kept if it is idle: every axis of every slot.
\* Only the slot is checked; an axis that was never touched may be out of range.
Read(kernel) ==
    /\ kernel.slot \in SlotsOf(descriptor)
    /\ kernel.axes \in [PlainAxes(descriptor) -> Int]
    /\ kernel.value \in [SlotsOf(descriptor) -> [ContactAxes(descriptor) -> Int]]
    /\ \A i \in SlotsOf(descriptor) : kernel.value[i][TRACKING] < 0
    /\ state' = [slot     |-> kernel.slot,
                 keys     |-> {},
                 axes     |-> kernel.axes,
                 contacts |-> [i \in SlotsOf(descriptor) |->
                                 [present |-> ContactAxes(descriptor),
                                  value   |-> kernel.value[i]]]]
    /\ raw' = ({-1} \X PlainAxes(descriptor))
                  \cup (SlotsOf(descriptor) \X ContactAxes(descriptor))
    /\ UNCHANGED descriptor

\* What an event or the kernel may say.
Events  == [kind : {"key", "absolute"}, code : Int, value : Int]
Kernels == [slot : Int,
            axes : UNION {[A -> Int] : A \in SUBSET TouchAxes},
            value : UNION {[I -> UNION {[A -> Int] : A \in SUBSET TouchAxes}]
                               : I \in SUBSET Int}]

Next == (\E e \in Events : Event(e)) \/ Reset \/ (\E k \in Kernels : Read(k))

Spec == Init /\ [][Next]_vars

-----------------------------------------------------------------------------
\* A memory within a description: the current slot is one of its slots, and
\* every remembered value is one the description allows, or the kernel's.
Contacts(d) == [present : SUBSET ContactAxes(d), value : [ContactAxes(d) -> Int]]

WithinOf(d, s, places) ==
    /\ Valid(d)
    /\ s = [slot |-> s.slot, keys |-> s.keys, axes |-> s.axes,
            contacts |-> s.contacts]
    /\ s.slot \in SlotsOf(d)
    /\ s.keys \subseteq d.keys
    /\ s.axes \in [PlainAxes(d) -> Int]
    /\ \A a \in PlainAxes(d) : InRange(d, a, s.axes[a]) \/ <<-1, a>> \in places
    /\ s.contacts \in [SlotsOf(d) -> Contacts(d)]
    /\ \A i \in SlotsOf(d) : \A a \in s.contacts[i].present :
          InRange(d, a, s.contacts[i].value[a]) \/ <<i, a>> \in places
    /\ \A i \in SlotsOf(d) : TRACKING \in s.contacts[i].present

\* The memory stays within its description: a frame, the peer's included, never
\* reaches past the contacts and never leaves a value that is not allowed.
Within == WithinOf(descriptor, state, raw)

\* Whatever was touched, the releases that end a stroke are a frame that will be
\* accepted, and the snapshot that hands it over has the size of one.  The
\* snapshot is refused for one reason only, which a virtual touchpad does not
\* have: a value that the kernel reported when the pad was taken, that is out of
\* its range and that no frame has replaced.
HandoverAccepted ==
    /\ Emittable(descriptor, Releases(state))
    /\ Sized(Snapshot(state))
    /\ \A place \in DOMAIN Snapshot(state) :
          Fits(descriptor, Snapshot(state)[place]) \/ place \in raw

=============================================================================
