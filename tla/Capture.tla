-------------------------------- MODULE Capture --------------------------------
(***************************************************************************)
(* The capture of local input at a screen edge: the worker thread of       *)
(* src/src/capture_probe.rs, the bounded queue of its events, and the      *)
(* coordinator's side of it (CaptureTask, stop_capture and the capture     *)
(* events of coordinate_with_control in src/src/bridge.rs).                *)
(*                                                                         *)
(* All captures of a connection share one queue; a capture is told from    *)
(* an earlier one by its generation.  The compositor (what it grants, what *)
(* it takes away, what it reports) and the reasons for which a coordinator *)
(* stops a capture are the environment.  Of the inputs, keys and buttons   *)
(* are kept; motion and scrolling go the same way and leave no trace.      *)
(***************************************************************************)
EXTENDS Naturals, Sequences, FiniteSets, Functions

CONSTANTS Keys, Buttons,     \* codes of keyboard and pointer
          PhysicalKeyboard,  \* keys are read from the device, not from the capture
          QueueLimit,        \* capacity of the event queue (512)
          PendingLimit,      \* inputs kept until the capture is ready (128)
          MaxGeneration      \* bound on the captures of a connection

ASSUME CodesAssumption ==
  IsFiniteSet(Keys) /\ Keys \cap Buttons = {} /\ PhysicalKeyboard \in BOOLEAN
ASSUME BoundsAssumption == {QueueLimit, PendingLimit, MaxGeneration} \subseteq Nat

VARIABLES
  worker,      \* the worker thread started last
  queue,       \* capture_tx .. capture_events
  generation,  \* of the capture started last
  capture,     \* the coordinator's capture is Some
  stopping,    \* the coordinator waits in CaptureTask::stop
  ending,      \* ... in the teardown of its connection
  role,        \* Local also stands for Receiving
  sent         \* codes that the peer was told are down in this session

coordinator == <<generation, capture, stopping, ending, role, sent>>
vars == <<worker, queue, coordinator>>

Codes == Keys \cup Buttons

\* What a capture needs from the compositor: pointer lock, keyboard focus,
\* inhibition of shortcuts.
Grants == {"pointer", "keyboard", "shortcuts"}

Inputs == [code : Codes, pressed : BOOLEAN]

Workers ==
  [ gen       : 0..MaxGeneration,
    phase     : {"binding", "watching", "reporting", "done"},
    failed    : BOOLEAN,          \* its result is an error
    cancel    : BOOLEAN,
    inside    : BOOLEAN,          \* the pointer is on the strip
    armed     : BOOLEAN,          \* Strip.armed
    requested : BOOLEAN,
    observed  : SUBSET Grants,    \* Counts.*_observed
    granted   : SUBSET Grants,    \* what the compositor grants
    ready     : BOOLEAN,          \* ready_reported
    finished  : BOOLEAN,
    pending   : UNION {[1..k -> Inputs] : k \in 0..PendingLimit},
    pressed   : SUBSET Codes ]    \* pressed_keys, and the buttons reported

TypeOK ==
  /\ worker \in Workers
  /\ Len(queue) <= QueueLimit
  /\ generation \in 0..MaxGeneration
  /\ {capture, stopping, ending} \subseteq BOOLEAN
  /\ role \in {"Local", "Sending"}
  /\ sent \subseteq Codes

\* A worker as it starts.
Spawned(g) ==
  [ gen |-> g, phase |-> "binding", failed |-> FALSE, cancel |-> FALSE,
    inside |-> FALSE, armed |-> FALSE, requested |-> FALSE, observed |-> {},
    granted |-> {}, ready |-> FALSE, finished |-> FALSE, pending |-> <<>>,
    pressed |-> {} ]

\* No worker: what is left of one is what the compositor still grants it.
Gone(granted) == [Spawned(0) EXCEPT !.phase = "done", !.granted = granted]

Init ==
  /\ worker = Gone({})
  /\ queue = <<>> /\ generation = 0
  /\ capture = FALSE /\ stopping = FALSE /\ ending = FALSE
  /\ role = "Local" /\ sent = {}
-----------------------------------------------------------------------------
(* The worker *)

Finish(w) == [w EXCEPT !.finished = TRUE]

Event(w, type)  == [gen |-> w.gen, type |-> type]
InputOf(w, i)   == [gen |-> w.gen, type |-> "Input", input |-> i]
InputsOf(w, is) == [k \in DOMAIN is |-> InputOf(w, is[k])]

\* State::publish, of one event after the other: a full queue finishes the
\* capture, and nothing more is published then.  At is the worker with the queue.
At == [w |-> worker, q |-> queue]
Room(at) == QueueLimit - Len(at.q)
Publish_Lossy(at, events) ==
  IF at.w.finished THEN at
  ELSE IF Len(events) <= Room(at) THEN [at EXCEPT !.q = @ \o events]
  ELSE [at EXCEPT !.q = @ \o SubSeq(events, 1, Room(at))]
Publish(at, events) ==
  IF at.w.finished THEN at
  ELSE IF Len(events) <= Room(at) THEN [at EXCEPT !.q = @ \o events]
  ELSE [w |-> Finish(at.w), q |-> at.q \o SubSeq(events, 1, Room(at))]

\* State::input, likewise: held back until the capture is ready.
TakeInputs(at, is) ==
  LET room == PendingLimit - Len(at.w.pending) IN
  IF at.w.ready THEN Publish(at, InputsOf(at.w, is))
  ELSE IF Len(is) <= room THEN [at EXCEPT !.w.pending = @ \o is]
  ELSE [at EXCEPT !.w.pending = @ \o SubSeq(is, 1, room), !.w.finished = TRUE]

\* State::report_ready
ReportReady(at) ==
  IF at.w.ready \/ at.w.observed # Grants THEN at
  ELSE Publish([at EXCEPT !.w = [at.w EXCEPT !.ready = TRUE, !.pending = <<>>]],
               <<Event(at.w, "Started")>> \o InputsOf(at.w, at.w.pending)
                                          \o <<Event(at.w, "Ready")>>)

Becomes(at) == worker' = at.w /\ queue' = at.q
Worker(w) == worker' = w /\ UNCHANGED queue

\* Events of the compositor are dispatched between the checks of finished.
Listening == worker.phase \in {"binding", "watching"} /\ ~worker.finished

\* The surfaces are made; a pointer that is on the strip must leave it first.
Watch ==
  /\ worker.phase = "binding"
  /\ LET w == [worker EXCEPT !.phase = "watching", !.armed = ~worker.inside]
     IN  Becomes(Publish([At EXCEPT !.w = w], <<Event(w, "Armed")>>))
  /\ UNCHANGED coordinator

\* Binding fails: an error, and no Finished event.
FailToBind ==
  /\ worker.phase = "binding"
  /\ Worker([worker EXCEPT !.phase = "done", !.failed = TRUE, !.granted = {}])
  /\ UNCHANGED coordinator

\* wl_pointer Enter, with request_capture, and Leave.
PointerEnters ==
  /\ Listening /\ ~worker.inside
  /\ LET w == [worker EXCEPT !.inside = TRUE] IN
     Worker(IF ~w.armed \/ w.requested THEN w
            ELSE IF w.cancel THEN Finish(w)
            ELSE [w EXCEPT !.requested = TRUE])
  /\ UNCHANGED coordinator

PointerLeaves ==
  /\ Listening /\ worker.inside
  /\ Worker([worker EXCEPT !.inside = FALSE, !.armed = TRUE])
  /\ UNCHANGED coordinator

\* Locked, Active, and keyboard Enter with the keys that are held, in any order.
Presses(keys) == {[code |-> k, pressed |-> TRUE] : k \in keys}
Granted(g) ==
  /\ Listening /\ worker.requested /\ g \in Grants \ worker.granted
  /\ \E held \in IF g = "keyboard" THEN SUBSET Keys ELSE {{}} :
       LET w    == [worker EXCEPT !.observed = @ \cup {g}, !.granted = @ \cup {g},
                                  !.pressed = @ \cup held]
           news == held \ worker.pressed
       IN \E is \in Bijection(1..Cardinality(news), Presses(news)) :
            Becomes(ReportReady(TakeInputs([At EXCEPT !.w = w], is)))
  /\ UNCHANGED coordinator

\* Unlocked, Inactive, and keyboard Leave.
Lost_BeforeReady(g) ==
  /\ Listening /\ g \in worker.granted
  /\ LET w == [worker EXCEPT !.granted = @ \ {g}]
     IN  Worker(IF w.ready THEN Finish(w) ELSE w)
  /\ UNCHANGED coordinator
Lost(g) ==
  /\ Listening /\ g \in worker.granted
  /\ Worker(Finish([worker EXCEPT !.granted = @ \ {g}]))
  /\ UNCHANGED coordinator

\* A key or a button of the captured seat; a key that did not change is not
\* reported.  The pointer is on the strip, and keys need the focus.
Reported(i) ==
  /\ Listening /\ worker.requested
  /\ IF i.code \in Keys THEN "keyboard" \in worker.granted
                        ELSE i.pressed = (i.code \notin worker.pressed)
  /\ LET w == [worker EXCEPT !.pressed = IF i.pressed THEN @ \cup {i.code}
                                                      ELSE @ \ {i.code}]
     IN Becomes(IF w.pressed # worker.pressed THEN TakeInputs([At EXCEPT !.w = w], <<i>>)
                                              ELSE At)
  /\ UNCHANGED coordinator

\* The emergency chord, an input that is not supported, a closed surface, a
\* changed output, a removed seat; or an error of the connection.
GiveUp(failed) ==
  /\ Listening /\ (failed => worker.phase = "watching")
  /\ Worker(Finish([worker EXCEPT !.failed = failed]))
  /\ UNCHANGED coordinator

\* The loop ends, because it is cancelled or finished: the compositor is asked to
\* release everything.
Cleanup ==
  /\ worker.phase = "watching" /\ (worker.cancel \/ worker.finished)
  /\ Worker([Finish(worker) EXCEPT !.phase = "reporting"])
  /\ UNCHANGED coordinator

\* It has: the round trip is over.  The last event of the worker, if there is
\* room for it.
Report ==
  /\ worker.phase = "reporting"
  /\ worker' = [worker EXCEPT !.phase = "done", !.granted = {}]
  /\ queue' = IF Len(queue) < QueueLimit THEN Append(queue, Event(worker, "Finished"))
                                         ELSE queue
  /\ UNCHANGED coordinator
-----------------------------------------------------------------------------
(* The coordinator *)

Running == ~stopping /\ ~ending

\* The coordinator returns to local control (r) and waits for the capture, if
\* there is one.
Stop_NotJoined(r) ==
  /\ role' = r /\ sent' = {}
  /\ worker' = [worker EXCEPT !.cancel = capture]
  /\ capture' = FALSE
  /\ UNCHANGED <<generation, stopping, ending>>
Stop(r) ==
  /\ role' = r /\ sent' = {}
  /\ worker' = [worker EXCEPT !.cancel = capture]
  /\ capture' = FALSE /\ stopping' = capture
  /\ UNCHANGED <<generation, ending>>

\* The top of the loop starts a capture.
Start ==
  /\ Running /\ ~capture /\ generation < MaxGeneration
  /\ generation' = generation + 1
  /\ capture' = TRUE
  /\ worker' = Spawned(generation + 1)
  /\ UNCHANGED <<queue, stopping, ending, role, sent>>

\* Any reason to return to local control: a release, a lock, an end, a
\* takeover, the emergency chord of a physical keyboard, a layout save.
Interrupt == Running /\ Stop("Local") /\ UNCHANGED queue

\* The connection ends; the teardown stops the capture.  A new one has its own
\* queue.
Disconnect ==
  /\ Running
  /\ ending' = TRUE
  /\ role' = "Local" /\ sent' = {}
  /\ worker' = [worker EXCEPT !.cancel = capture]
  /\ capture' = FALSE /\ stopping' = capture
  /\ UNCHANGED <<queue, generation>>

Reconnect ==
  /\ ending /\ ~stopping
  /\ ending' = FALSE /\ queue' = <<>> /\ generation' = 0
  /\ UNCHANGED <<worker, capture, stopping, role, sent>>

\* CaptureTask::stop has joined the worker; if that failed, the connection ends.
Joined ==
  /\ stopping /\ worker.phase = "done"
  /\ stopping' = FALSE
  /\ ending' = (ending \/ worker.failed)
  /\ worker' = Gone(worker.granted)
  /\ UNCHANGED <<queue, generation, capture, role, sent>>

\* The worker does not end within two seconds: the process gives up and ends,
\* and is started again.
StopTimesOut ==
  /\ stopping /\ worker.phase # "done"
  /\ worker' = Gone({})
  /\ queue' = <<>> /\ generation' = 0
  /\ stopping' = FALSE /\ ending' = FALSE
  /\ UNCHANGED <<capture, role, sent>>

\* An event is of the running capture.
Current_AnyGeneration(e) == capture
Current(e) == capture /\ e.gen = generation

Taken(type) ==
  /\ Running /\ queue # <<>> /\ Head(queue).type = type /\ Current(Head(queue))
  /\ queue' = Tail(queue)

TakeStale ==
  /\ Running /\ queue # <<>> /\ ~Current(Head(queue))
  /\ queue' = Tail(queue)
  /\ UNCHANGED <<worker, coordinator>>

\* Started begins a session, or (receiving, or with the emergency chord held)
\* stops the capture.
TakeStarted ==
  /\ Taken("Started")
  /\ \/ /\ role = "Local"
        /\ role' = "Sending" /\ sent' = {}
        /\ UNCHANGED <<worker, generation, capture, stopping, ending>>
     \/ Stop(role)

TakeInputEvent ==
  /\ Taken("Input")
  /\ LET i == Head(queue).input IN
     sent' = IF role # "Sending" \/ (PhysicalKeyboard /\ i.code \in Keys) THEN sent
             ELSE IF i.pressed THEN sent \cup {i.code} ELSE sent \ {i.code}
  /\ UNCHANGED <<worker, generation, capture, stopping, ending, role>>

TakeFinished == Taken("Finished") /\ Stop("Local")

TakeOther ==
  /\ Taken("Armed") \/ Taken("Ready")
  /\ UNCHANGED <<worker, coordinator>>

\* The tick finds the worker gone and no event of it left.
WorkerGone_OnlySending ==
  /\ Running /\ capture /\ worker.phase = "done" /\ queue = <<>> /\ role = "Sending"
  /\ Stop("Local") /\ UNCHANGED queue
WorkerGone ==
  /\ Running /\ capture /\ worker.phase = "done" /\ queue = <<>>
  /\ Stop("Local") /\ UNCHANGED queue
-----------------------------------------------------------------------------
\* These steps end a round trip of the worker, which waits for the compositor
\* without a timeout; its loop polls.
RoundTrip == Watch \/ FailToBind \/ Report

Compositor ==
  \/ PointerEnters \/ PointerLeaves
  \/ \E g \in Grants : Granted(g) \/ Lost(g)
  \/ \E i \in Inputs : Reported(i)
  \/ \E failed \in BOOLEAN : GiveUp(failed)

Take == TakeStale \/ TakeStarted \/ TakeInputEvent \/ TakeFinished \/ TakeOther

Next ==
  \/ RoundTrip \/ Cleanup \/ Compositor
  \/ Start \/ Interrupt \/ Disconnect \/ Reconnect \/ Joined \/ StopTimesOut
  \/ Take \/ WorkerGone

Spec == Init /\ [][Next]_vars

\* The worker's loop polls its flags every 50 ms, and the coordinator's loop runs;
\* when it stops a capture it waits for the worker, but no longer than two seconds.
\* Nothing is assumed of the compositor, the users and the connection.
FairSpec == /\ Spec
            /\ WF_vars(Cleanup) /\ WF_vars(Take)
            /\ WF_vars(WorkerGone) /\ WF_vars(Joined \/ StopTimesOut)
-----------------------------------------------------------------------------
(* Properties *)

\* Local control is real: once the coordinator is done stopping a capture, the
\* worker has ended and the compositor grants it nothing, whatever the worker
\* was in the middle of.
InputReturned == ~capture /\ ~stopping => worker.phase = "done" /\ worker.granted = {}

\* Remote control begins and goes on only while the capture owns pointer,
\* keyboard and shortcuts: the flags that say so are never cleared, so losing
\* one of the three must finish the capture, even before it is ready.
OwnedWhileReady ==
  worker.ready /\ ~worker.finished /\ worker.phase # "done" => worker.granted = Grants

\* A session is driven by the capture that is running, never by what an earlier
\* one has left in the queue.
SessionIsCurrent ==
  role = "Sending" => capture /\ worker.gen = generation /\ worker.ready

\* No input is lost, repeated or reordered between the compositor and the peer:
\* what was sent, with what is queued and held back, amounts to what is held.  The
\* last input about a code decides.
Forwarded == IF PhysicalKeyboard THEN Buttons ELSE Codes
About(e, g, c) == e.type = "Input" /\ e.gen = g /\ e.input.code = c
Replay(held, q, g) ==
  {c \in Codes :
     \/ \E i \in DOMAIN q : /\ About(q[i], g, c) /\ q[i].input.pressed
                            /\ \A j \in DOMAIN q : About(q[j], g, c) => j <= i
     \/ c \in held /\ \A j \in DOMAIN q : ~About(q[j], g, c)}
Coming(w, q) == q \o InputsOf(w, w.pending)
MirrorsCapture ==
  capture /\ ~worker.finished =>
    Replay(sent, Coming(worker, queue), worker.gen) \cap Forwarded
      = worker.pressed \cap Forwarded

\* A capture that is cancelled or whose worker has ended, by itself or by an error
\* while it set up, always comes to an end that the coordinator has noticed, even
\* if the compositor never answers and although its last event may find the queue
\* full.  One that gives up does so if the compositor answers its round trips.
Over == ~capture /\ ~stopping
CompositorAnswers == WF_vars(RoundTrip)
CaptureEnds ==
  /\ worker.cancel \/ worker.phase = "done" ~> Over
  /\ CompositorAnswers => (worker.finished ~> Over)
=============================================================================
