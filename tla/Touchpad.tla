------------------------------ MODULE Touchpad ------------------------------
(***************************************************************************)
(* One native touchpad of the computer that controls, from the fingers to  *)
(* the two desktops (src/src/touchpad.rs, with its callers in activity.rs, *)
(* bridge.rs and pointer.rs).                                              *)
(*                                                                         *)
(*   fingers -> kernel device -> seat    (the compositor's own reader)     *)
(*                            -> router  (exclusive once grabbed)          *)
(*                router -> mirror       (local virtual touchpad)          *)
(*                       -> wire -> twin (peer's virtual touchpad)         *)
(*                                                                         *)
(* A touchpad state gives every item (a contact slot, or the button) 0     *)
(* when it is up and otherwise what it shows: a contact's identity and     *)
(* position are one number.  A frame gives the items that changed.  A      *)
(* hardware report is atomic (the kernel hands a reader whole frames).     *)
(* Time is left out: a frame that is too old is one way to Fail.           *)
(***************************************************************************)
EXTENDS Naturals, Sequences

CONSTANTS Slots,        \* contact slots of the touchpad
          Places,       \* what a contact in a slot can show, without 0
          QueueMax,     \* frames the kernel keeps for the router
          MaxReports,   \* changes made by the user
          MaxSessions,  \* control sessions begun
          MaxOpens,     \* times a Router is created
          MaxCrashes    \* times the process is killed

ASSUME TouchpadAssumption ==
    /\ 0 \notin Places /\ "click" \notin Slots
    /\ QueueMax \in Nat \ {0}
    /\ {MaxReports, MaxSessions, MaxOpens, MaxCrashes} \subseteq Nat

VARIABLES
    real,      \* the user's fingers and button
    kernel,    \* what the kernel believes of the physical device
    seat,      \* what the compositor's reader of that device believes
    grab,      \* the router (or the repair) holds the device exclusively
    unread,    \* frames the kernel keeps for the router, or Lost
    pc,        \* where the process is
    then,      \* what follows the sample or the release in progress
    router,    \* the Router, when router.open
    mirror,    \* what the local virtual touchpad shows
    role,      \* the session this computer sends in, 0 when local
    ready,     \* both sessions are unlocked
    begun,     \* sessions begun so far
    up,        \* the ends that still hold the connection
    wire,      \* messages to the peer
    twin,      \* what the peer's virtual touchpad shows
    hosting,   \* the session the peer receives in, 0 when none
    ended,     \* sessions the peer has ended
    tally,     \* counters of the bounds
    raced,     \* a report reached the compositor while the device was acquired
    quiet      \* no report came since the repair began

device  == <<real, kernel, seat, grab, unread>>
process == <<pc, then, router, mirror, role, ready, begun, up>>
peer    == <<wire, twin, hosting, ended>>
history == <<tally, raced, quiet>>
vars    == <<device, process, peer, history>>

-----------------------------------------------------------------------------
Items    == Slots \cup {"click"}
States   == {s \in [Items -> {0, 1} \cup Places] : s["click"] \in {0, 1}}
Neutral  == [i \in Items |-> 0]
Lost     == << >>   \* SYN_DROPPED in place of frames; a frame is never empty

\* TouchState.apply.
Apply(s, frame) == [i \in Items |-> IF i \in DOMAIN frame THEN frame[i] ELSE s[i]]

\* The frames that have an item, and the last of them.
Having(frames, i) == {n \in DOMAIN frames : i \in DOMAIN frames[n]}
Last(ns)          == CHOOSE n \in ns : \A m \in ns : m <= n

\* One frame after the other: what came last is shown.
Replay(s, frames) ==
    [i \in Items |-> IF Having(frames, i) = {} THEN s[i]
                     ELSE frames[Last(Having(frames, i))][i]]

\* The kernel drops what does not change the device (input_get_disposition).
Changes(s, new) ==
    LET moved == {i \in Items : new[i] # s[i]} IN [i \in moved |-> new[i]]

\* TouchState.idle; a touch key is down exactly when something is down.
Idle(s) == s = Neutral

\* Mutant of Snapshot: contacts are left out.
SnapshotWithoutContacts(s) == [i \in Items |-> IF i \in Slots THEN 0 ELSE s[i]]

\* TouchState.snapshot, emitted to a device that shows nothing.
Snapshot(s) == s

\* Mutant of Releases: the button is left as it is.
ReleasesContacts(s) == [i \in Items |-> IF i \in Slots THEN 0 ELSE s[i]]

\* TouchState.releases.
Releases(s) == Neutral

-----------------------------------------------------------------------------
(* External: the kernel's input core and the readers of the device.        *)

\* Mutant of Queued: the kernel's queue never overflows.
QueuedAlways(frame) == Append(unread, frame)

\* A frame that changes the device goes to the holder of the grab, or to
\* every reader; the compositor reads at once, the router's queue is bounded.
Queued(frame) ==
    IF unread # <<Lost>> /\ Len(unread) < QueueMax THEN Append(unread, frame)
    ELSE <<Lost>>

Deliver(new) ==
    LET frame == Changes(kernel, new) IN
    /\ kernel' = new
    /\ seat'   = IF grab THEN seat ELSE Apply(seat, frame)
    /\ unread' = IF new # kernel /\ router.open THEN Queued(frame) ELSE unread

Noticed ==
    /\ raced' = (raced \/ pc \in {"checked", "look"})
    /\ quiet' = (quiet /\ pc \notin {"look", "taken", "started", "repair"})

\* The user moves, and the driver reports every item it knows.
Report ==
    /\ tally.reports < MaxReports
    /\ tally' = [tally EXCEPT !.reports = @ + 1]
    /\ \E now \in States, i \in Items :
          /\ now[i] # real[i] /\ \A j \in Items \ {i} : now[j] = real[j]
          /\ real' = now
          /\ Deliver(now)
    /\ Noticed
    /\ UNCHANGED <<grab, process, peer>>

\* What stays down is reported again and again.
ReportAgain ==
    /\ real # Neutral /\ kernel # real
    /\ Deliver(real)
    /\ Noticed
    /\ UNCHANGED <<real, grab, process, peer, tally>>

-----------------------------------------------------------------------------
(* The connection: nothing reaches a peer that has left.                   *)

Begin(s)        == [kind |-> "begin", session |-> s, frame |-> << >>]
Input(s, frame) == [kind |-> "input", session |-> s, frame |-> frame]
End(s)          == [kind |-> "end",   session |-> s, frame |-> << >>]

Send(messages) == IF "peer" \in up THEN wire \o messages ELSE wire
SendEnd        == IF role = 0 THEN wire ELSE Send(<<End(role)>>)

-----------------------------------------------------------------------------
(* Router: sample, route, drain and Drop.                                  *)

Closed == [open |-> FALSE, grabbed |-> FALSE, remote |-> FALSE,
           pad |-> Neutral, pending |-> << >>]

Init ==
    /\ real = Neutral /\ kernel = Neutral /\ seat = Neutral
    /\ grab = FALSE /\ unread = << >>
    /\ pc = "stopped" /\ then = "none"
    /\ router = Closed /\ mirror = Neutral
    /\ role = 0 /\ ready = FALSE /\ begun = 0 /\ up = {}
    /\ wire = << >> /\ twin = Neutral /\ hosting = 0 /\ ended = {}
    /\ tally = [reports |-> 0, opens |-> 0, crashes |-> 0]
    /\ raced = FALSE /\ quiet = TRUE

\* Router::new: the device is opened and its mirror created, nothing grabbed.
NewRouter == [Closed EXCEPT !.open = TRUE]

\* coordinate_with_control prepares the touchpads; the peer creates its twin.
Open ==
    /\ pc \in {"closed", "stopped"} /\ up = {}
    /\ tally.opens < MaxOpens
    /\ tally' = [tally EXCEPT !.opens = @ + 1]
    /\ up' = {"here", "peer"} /\ router' = NewRouter /\ unread' = << >>
    /\ ready' = TRUE /\ pc' = "top"
    /\ UNCHANGED <<real, kernel, seat, grab, then, mirror, role, begun,
                   peer, raced, quiet>>

\* route, at the head of every turn of the loop.
Route ==
    /\ pc = "top" /\ pc' = "select"
    /\ LET remote == role # 0
           turns  == router.open /\ router.remote # remote
           held   == turns /\ router.grabbed IN
       /\ router' = IF turns THEN [router EXCEPT !.remote = remote,
                                                 !.pending = << >>]
                    ELSE router
       /\ mirror' = CASE held /\ remote  -> Releases(router.pad)
                      [] held /\ ~remote -> Snapshot(router.pad)
                      [] OTHER           -> mirror
       /\ wire' = IF held /\ remote
                  THEN Send(<<Input(role, Snapshot(router.pad))>>)
                  ELSE wire
    /\ UNCHANGED <<device, then, role, ready, begun, up, twin, hosting, ended,
                   history>>

\* Mutant of Shown: one frame per wake-up.
ShownFirst(r) ==
    IF r.remote \/ unread = << >> THEN mirror ELSE Apply(mirror, Head(unread))

\* The frames a grabbed pad has waiting: applied, then shown or kept to send.
Consume(r) ==
    [r EXCEPT !.pad = Replay(@, unread),
              !.pending = IF r.remote THEN @ \o unread ELSE @]

Shown(r) == IF r.remote THEN mirror ELSE Replay(mirror, unread)

\* Mutant of Free: a pad is acquired whatever is down.
FreeAlways(s) == TRUE

\* No touch key is down.  Only the keys are looked at; a driver holds one of them
\* while any finger is on the pad.
Free(s) == s = Neutral

\* sample, called by a tick or before a session begins.  A suspended Router
\* is created again.  A grabbed pad is read; another one is acquired when no
\* touch key is down.  Lost input is an error.
Sample(next) ==
    /\ pc = "select" /\ ready
    /\ \/ next = "tick"
       \/ next = "begin" /\ role = 0 /\ begun < MaxSessions
    /\ then' = next
    /\ LET r == IF router.open THEN router ELSE NewRouter IN
       \/ /\ r.grabbed /\ unread # <<Lost>>
          /\ router' = Consume(r) /\ mirror' = Shown(r) /\ pc' = "sampled"
       \/ /\ ~r.grabbed /\ router' = r /\ mirror' = mirror
          /\ pc' = IF Free(kernel) THEN "checked" ELSE "sampled"
    /\ unread' = << >>
    /\ UNCHANGED <<real, kernel, seat, grab, role, ready, begun, up,
                   peer, history>>

Acquire ==
    /\ pc = "checked" /\ pc' = "owned" /\ grab' = TRUE
    /\ UNCHANGED <<real, kernel, seat, unread, then, router, mirror, role,
                   ready, begun, up, peer, history>>

\* Earlier frames were already delivered to the compositor.
Flush ==
    /\ pc = "owned" /\ pc' = "flushed" /\ unread' = << >>
    /\ UNCHANGED <<real, kernel, seat, grab, then, router, mirror, role,
                   ready, begun, up, peer, history>>

Inspect ==
    /\ pc = "flushed"
    /\ IF Idle(kernel)
       THEN /\ router' = [router EXCEPT !.grabbed = TRUE, !.pad = kernel]
            /\ pc' = "sampled"
       ELSE pc' = "release" /\ UNCHANGED router
    /\ UNCHANGED <<device, then, mirror, role, ready, begun, up, peer, history>>

-----------------------------------------------------------------------------
(* release_physical: contacts end while the device is still private, and   *)
(* the neutral frame is written once every reader has it again.            *)

EndPrivately ==
    /\ pc = "release" /\ grab
    /\ Deliver(Neutral)
    /\ pc' = "hidden"
    /\ UNCHANGED <<real, grab, then, router, mirror, role, ready, begun, up,
                   peer, history>>

Ungrab ==
    /\ pc = "hidden" /\ pc' = "freed" /\ grab' = FALSE
    /\ UNCHANGED <<real, kernel, seat, unread, then, router, mirror, role,
                   ready, begun, up, peer, history>>

\* No release of a mouse button is written: it would need an invented press.
NeutralContacts == [i \in Items |-> IF i \in Slots THEN 0 ELSE kernel[i]]

EndPublicly ==
    /\ pc = "freed"
    /\ Deliver(NeutralContacts)
    /\ pc' = IF then \in {"tick", "begin"} THEN "sampled" ELSE "dropped"
    /\ UNCHANGED <<real, grab, then, router, mirror, role, ready, begun, up,
                   peer, history>>

-----------------------------------------------------------------------------
(* The coordinator's turns around the Router.                              *)

\* The end of a tick: keys come first, and an emergency return among them
\* leaves the touches unsent; what is left to send is taken either way.
Tick ==
    /\ pc = "sampled" /\ then = "tick" /\ pc' = "top" /\ then' = "none"
    /\ router' = [router EXCEPT !.pending = << >>]
    /\ \/ /\ wire' = IF role = 0 THEN wire
                     ELSE Send([n \in DOMAIN router.pending |->
                                    Input(role, router.pending[n])])
          /\ UNCHANGED role
       \/ role # 0 /\ role' = 0 /\ wire' = SendEnd
    /\ UNCHANGED <<device, mirror, ready, begun, up, twin, hosting, ended,
                   history>>

\* The pointer crosses the boundary: a session begins, unless the emergency
\* keys are held.
Cross ==
    /\ pc = "sampled" /\ then = "begin" /\ pc' = "top" /\ then' = "none"
    /\ \/ /\ begun' = begun + 1 /\ role' = begun'
          /\ wire' = Send(<<Begin(begun')>>)
       \/ UNCHANGED <<begun, role, wire>>
    /\ UNCHANGED <<device, router, mirror, ready, up, twin, hosting, ended,
                   history>>

\* Control comes back: released here, or ended by the peer.
Return ==
    /\ pc = "select" /\ role # 0 /\ role' = 0 /\ pc' = "top"
    /\ \/ wire' = SendEnd
       \/ role \in ended /\ wire' = wire
    /\ UNCHANGED <<device, then, router, mirror, ready, begun, up, twin,
                   hosting, ended, history>>

\* Router::drop, for `next`: the mirror is reset and removed, a grabbed pad
\* is released; closing the device of another one gives up the grab.
Drop(next) ==
    /\ then' = next /\ router' = Closed /\ mirror' = Neutral /\ unread' = << >>
    /\ IF router.grabbed THEN pc' = "release" /\ UNCHANGED grab
                         ELSE pc' = "dropped" /\ grab' = FALSE
    /\ UNCHANGED <<real, kernel, seat, role, begun, up, peer, history>>

\* Either session is locked.
Suspend == pc = "select" /\ ready /\ ready' = FALSE /\ Drop("suspend")

\* sample finds that the kernel has dropped input of a grabbed pad.
Overrun ==
    /\ pc = "select" /\ ready /\ router.grabbed /\ unread = <<Lost>>
    /\ ready' = FALSE /\ Drop("close")

\* Any other error ends the connection: late input, a device that fails, the
\* peer gone.
Fail ==
    /\ pc \in {"select", "checked", "owned", "flushed", "sampled"}
    /\ ready' = FALSE /\ Drop("close")

\* The process is asked to stop.
Stop == pc = "select" /\ ready' = FALSE /\ Drop("stop")

Dropped ==
    /\ pc = "dropped" /\ role' = 0 /\ then' = "none"
    /\ \/ /\ then = "suspend" /\ pc' = "top"
          /\ wire' = SendEnd /\ UNCHANGED up
       \/ /\ then \in {"close", "stop"}
          /\ pc' = IF then = "close" THEN "closed" ELSE "stopped"
          /\ up' = up \ {"here"} /\ UNCHANGED wire
    /\ UNCHANGED <<device, router, mirror, ready, begun, twin, hosting, ended,
                   history>>

Unlock ==
    /\ pc = "select" /\ ~ready /\ ready' = TRUE /\ pc' = "top"
    /\ UNCHANGED <<device, then, router, mirror, role, begun, up, peer, history>>

\* The process is killed: the kernel takes back the grab and the mirror.
Crash ==
    /\ pc # "stopped" /\ tally.crashes < MaxCrashes
    /\ tally' = [tally EXCEPT !.crashes = @ + 1]
    /\ pc' = "stopped" /\ then' = "none" /\ role' = 0 /\ ready' = FALSE
    /\ router' = Closed /\ mirror' = Neutral
    /\ grab' = FALSE /\ unread' = << >> /\ up' = up \ {"here"}
    /\ quiet' = TRUE
    /\ UNCHANGED <<real, kernel, seat, begun, peer, raced>>

-----------------------------------------------------------------------------
(* restore_local_inputs, run while sharing is stopped.                     *)

Look ==
    /\ pc = "stopped" /\ Idle(kernel) /\ pc' = "look"
    /\ UNCHANGED <<device, then, router, mirror, role, ready, begun, up, peer,
                   history>>

Take ==
    /\ pc = "look" /\ pc' = "taken" /\ grab' = TRUE
    /\ UNCHANGED <<real, kernel, seat, unread, then, router, mirror, role,
                   ready, begun, up, peer, history>>

\* A contact is started in every slot, so that its ending will be seen.
StartPrivately ==
    /\ pc = "taken"
    /\ IF Idle(kernel)
       THEN /\ Deliver([i \in Items |-> IF i \in Slots THEN 1 ELSE 0])
            /\ pc' = "started" /\ UNCHANGED grab
            /\ UNCHANGED quiet
       ELSE /\ grab' = FALSE /\ pc' = "stopped" /\ quiet' = TRUE
            /\ UNCHANGED <<kernel, seat, unread>>
    /\ UNCHANGED <<real, then, router, mirror, role, ready, begun, up, peer,
                   tally, raced>>

GiveBack ==
    /\ pc = "started" /\ pc' = "repair" /\ grab' = FALSE
    /\ UNCHANGED <<real, kernel, seat, unread, then, router, mirror, role,
                   ready, begun, up, peer, history>>

Repair ==
    /\ pc = "repair" /\ pc' = "stopped"
    /\ Deliver(NeutralContacts)
    /\ raced' = (raced /\ (~quiet \/ seat["click"] # 0))
    /\ quiet' = TRUE
    /\ UNCHANGED <<real, grab, then, router, mirror, role, ready, begun, up,
                   peer, tally>>

-----------------------------------------------------------------------------
(* The peer's side: Receiver and Hybrid with one VirtualTouchpad.          *)

Receive ==
    /\ "peer" \in up /\ wire # << >> /\ wire' = Tail(wire)
    /\ LET m == Head(wire) IN
       \/ /\ m.kind = "begin" /\ UNCHANGED twin
          /\ \/ hosting' = m.session /\ UNCHANGED ended
             \/ ended' = ended \cup {m.session} /\ UNCHANGED hosting
       \/ /\ m.kind = "input" /\ UNCHANGED <<hosting, ended>>
          /\ twin' = IF hosting = m.session THEN Apply(twin, m.frame) ELSE twin
       \/ /\ m.kind = "end" /\ UNCHANGED ended
          /\ IF hosting = m.session
             THEN hosting' = 0 /\ twin' = Releases(twin)
             ELSE UNCHANGED <<hosting, twin>>
    /\ UNCHANGED <<device, process, history>>

\* Its user takes over, its session is locked, or input failed to apply.
PeerEnds ==
    /\ hosting # 0 /\ hosting' = 0 /\ twin' = Releases(twin)
    /\ ended' = ended \cup {hosting}
    /\ UNCHANGED <<device, process, wire, history>>

\* The connection is lost there, an error there included.
PeerLeaves ==
    /\ "peer" \in up /\ up' = up \ {"peer"}
    /\ wire' = << >> /\ hosting' = 0 /\ twin' = Neutral
    /\ UNCHANGED <<device, pc, then, router, mirror, role, ready, begun, ended,
                   history>>

-----------------------------------------------------------------------------
Handoff == EndPrivately \/ Ungrab \/ EndPublicly
Acquiring == Acquire \/ Flush \/ Inspect
Restore == Look \/ Take \/ StartPrivately \/ GiveBack \/ Repair

Next ==
    \/ Report \/ ReportAgain
    \/ Open \/ Route \/ (\E next \in {"tick", "begin"} : Sample(next))
    \/ Acquiring \/ Handoff
    \/ Tick \/ Cross \/ Return \/ Suspend \/ Overrun \/ Fail \/ Stop \/ Dropped
    \/ Unlock \/ Crash \/ Restore
    \/ Receive \/ PeerEnds \/ PeerLeaves

Spec == Init /\ [][Next]_vars

\* The loop of the coordinator goes on, up to its next wait and with the next
\* tick; the driver repeats what stays down; the peer reads what it receives.
\* Users, locks and failures are not fair.
Loop ==
    \/ Route \/ Sample("tick") \/ Acquiring \/ Handoff \/ Tick \/ Cross
    \/ Overrun \/ Dropped

Fairness == WF_vars(ReportAgain) /\ WF_vars(Loop) /\ WF_vars(Receive)

FairSpec == Spec /\ Fairness

-----------------------------------------------------------------------------
TypeOK ==
    /\ {real, kernel, seat, mirror, twin, router.pad} \subseteq States
    /\ grab \in BOOLEAN /\ ready \in BOOLEAN /\ raced \in BOOLEAN
    /\ Len(unread) <= QueueMax
    /\ pc \in {"stopped", "closed", "top", "select", "sampled", "checked",
               "owned", "flushed", "release", "hidden", "freed", "dropped",
               "look", "taken", "started", "repair"}
    /\ then \in {"none", "tick", "begin", "suspend", "close", "stop"}
    /\ {role, hosting} \cup ended \subseteq 0..begun
    /\ up \subseteq {"here", "peer"}

\* A touch is shown once: while the router holds the pad the compositor's own
\* reader shows nothing, so a finger is never both there and on the mirror;
\* and what that reader shows is down in the kernel too, so that lifting it is
\* reported (a contact the kernel has already ended would stay down for ever).
\* Except after a report in the moment between the check and the grab.
ShownOnce ==
    ~raced =>
        /\ grab => seat = Neutral
        /\ seat = Neutral \/ mirror = Neutral
        /\ \A i \in Items : seat[i] # 0 => kernel[i] # 0

\* The router's copy of the fingers is the kernel's, up to what is unread; the
\* mirror shows it when control is local and nothing when it is not.
MirrorInStep ==
    /\ router.grabbed /\ unread # <<Lost>> => Replay(router.pad, unread) = kernel
    /\ mirror = IF router.grabbed /\ ~router.remote THEN router.pad ELSE Neutral

\* The peer's twin with everything on its way shows the same fingers, from the
\* first frame of a session to its end, and nothing without a session.
OnItsWay ==
    [n \in DOMAIN wire |->
        IF wire[n].kind = "input" /\ wire[n].session = role THEN wire[n].frame
        ELSE << >>] \o router.pending

TwinInStep ==
    /\ hosting = 0 => twin = Neutral
    /\ role # 0 /\ router.open /\ pc # "top" /\ "peer" \in up
          /\ (hosting = role \/ \E n \in DOMAIN wire : wire[n] = Begin(role))
       => Replay(IF hosting = role THEN twin ELSE Neutral, OnItsWay)
              = IF router.grabbed THEN router.pad ELSE Neutral

\* While sharing stays possible: once the user's fingers rest as they are, the
\* desktop that has control comes to show exactly them, and a pad that nobody
\* touches, and the kernel holds to be idle, comes to be the router's.
InView ==
    router.grabbed /\ pc = "select" =>
        /\ role = 0 => mirror = real
        /\ role # 0 /\ hosting = role => wire # << >> \/ twin = real

Settles ==
    <>[]ready =>
        /\ <>[]InView
        /\ <>[](real = Neutral /\ kernel = Neutral) => <>(router.grabbed)

=============================================================================
