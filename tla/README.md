# NiriBridge: verification development

NiriBridge lets one keyboard, mouse and touchpad control two Linux computers: when the
pointer crosses a configured screen edge, input is captured on one computer, sent over
mutually authenticated TLS, and injected on the other. This directory holds TLA+ models of
its Rust service (`src/src/*.rs`, called *the code* below), TLC configurations that check
them on small instances, and TLAPS proofs. `PROJECT.json` maps every definition to the
lines it models, lists the hazards the properties are for, and names for each property a
plausible bug (a *mutant* operator in the module) that the property detects.

## 1. The system

| Part (source) | State it keeps | Operations | Interacts with |
| --- | --- | --- | --- |
| Receiver and control state (`receiver.rs`, `input.rs`) | mode, lock flags, session, expected sequence, codes held, releases outstanding | begin, input, end, stop, local/peer lock, physical activity, position | called by the coordinator; writes to an `InputSink` |
| Coordinator (`bridge.rs`, `coordinate_with_control`) | role, session numbers, readiness of both sides, desktops of both sides, the running capture, a pending layout save | one `select!` loop: control commands, session status, a 16 ms tick, capture events, messages of the peer | everything below; its twin on the other computer |
| Edge capture (`capture_probe.rs`) | Wayland surfaces, pointer lock, keyboard focus, inputs before it is ready | a thread that publishes Armed, Started, Input, Ready, Finished into a queue of 512 | coordinator: queue, cancel flag, join |
| Physical activity (`activity.rs`, `PhysicalKeys`) | devices, keys held on each keyboard | sample, hotplug, suspend | coordinator polls it |
| Native touchpads (`touchpad.rs`) | the exclusive grab, contacts, a virtual mirror here and a virtual twin at the peer, the peer's clock | sample, route, handoff, reset, repair (`restore-input`) | kernel and compositor; activity, coordinator, sink |
| Configuration edits (`manager.rs`, `Prepared`) | the file, its backup, the edit lock | prepare, commit, finish, undo | service, interface, pairing commands |
| Paired layout save (`bridge.rs`, `control.rs`) | one `PendingLayout` on each side | Prepare, Prepared, Commit, Result, Abort, deadline | edits of both files, control client |
| Control socket and locks (`control.rs`) | instance lock, configuration lock, queue of four commands | status, release, apply layout | interface; coordinator |
| Pairing (`pairing.rs`, `identity.rs`, parts of `manager.rs`) | saved computers, the selected one, certificate files | import, select, migrate the older kind of configuration | edits, service |
| Service loop (`bridge.rs`, `run_async`; `main.rs`) | the certificate and the listener it was started with, the configuration it last read | locks, connect, accept, reconnect after 2 s | all; started again by systemd |
| Session monitor (`session.rs`) | lock state of the graphical session | publish | service loop, coordinator |
| Geometry (`geometry.rs`, layout checks of `bridge.rs`, strips of `capture_probe.rs`) | none | validate, find active edges, place a strip, map a position | coordinator, capture, interface |
| Desktop metadata (`desktop.rs`, `niri.rs`) | outputs | read | coordinator, interface |
| Injection backends (`pointer.rs`, `ei.rs`, `portal.rs`, `uinput.rs`) | virtual devices | emit, poll | receiver |
| Transport and protocol (`transport.rs`, `protocol.rs`) | TLS stream | frames, validation | coordinator |
| Interface (`ui/`), installation and device access (`scripts/`) | drafts, files | start/stop/quit, install, update | control socket, systemd |

What is hard about it: two coordinators run concurrently and talk over a channel in which
several messages are always in flight, so sessions start, end, are refused and taken over
in crossing order; each loop iteration awaits other threads; an error in any branch tears
everything down, with keys held on another computer's desktop; and a configuration is
replaced on two computers by processes that can die.

What makes each part correct:

* receiver: whatever was pressed for the peer is released, a session starts neutral, and
  only the session in force presses;
* coordinators: both ends agree who controls whom, a sender is heard, a receiver is driven,
  inputs arrive complete and in order, and locks, outputs, layout saves and disconnections
  end what relied on them;
* edits: saved edits survive, refused ones leave nothing, conflicting ones are rejected;
* layout save: success means both files, a refusal means neither, anything else is
  reported as unconfirmed, and every request is answered;
* touchpads: a finger is shown on one desktop, once; the desktop that has control comes to
  show exactly the fingers that are down, whatever was down when control changed;
* service and pairing: only the selected computer is trusted and saved ones are kept,
  whatever is started, selected, imported or killed meanwhile; clients of the control socket
  are told the truth; a service that is wanted keeps connecting;
* geometry: both computers mean the same edge, strips do not overlap, and the pointer enters
  at a valid place where it does not bounce.

## 2. The modules

### InputLease

The promise to the desktop that is injected into: a session takes the lease on an unlocked
desktop with nothing pressed, presses go down only for the holder, everybody else only
releases. It has no code of its own; `Receiver` and each side of `Bridge` implement it.

### Receiver (`receiver.rs`, `ControlState` in `input.rs`)

One action per public operation. `mode`, `localLocked`, `peerLocked`, `held` are
`ControlState`; `session`, `expected`, `pending` are the receiver's fields. `down` and
`contact` are what the sink's devices hold down on the desktop, which the code cannot see:
an emission succeeds, or fails having taken effect or not. `errored` records that an
operation has returned an error (the coordinator drops the receiver at the first one, but
the properties that do not mention `errored` hold even if it went on). `Release` is the
loop over `pending_releases`; `Stopped` is `stop`, with `ControlState::stop` in it; what
`Drop` runs is `Stop`. `configure_touchpads` and plain `position` change no modelled state.
An event is one of a press, a release, a touch, a lift, a motion, or invalid (what
`InputEvent::validate` rejects).

### Bridge (`coordinate_with_control` in `bridge.rs`)

Two coordinators, `node[n]`, and a FIFO `inbox[n]` per direction. Since the loop handles
one event at a time, each branch of `select!`, with the top of the next iteration where it
reacts to the new state (`AfterEpoch`), is one action:

| Branch | Actions |
| --- | --- |
| outputs, commands | `OutputsChanged`, `Release`, `Configure` / `Configured` |
| session status | `StatusChanged` |
| tick | `PhysicalActivity`, `Emergency`, `Forward` (physical keys), `CaptureLost` |
| capture events | `StartSession`, `ReturnControl`, `Forward`, `CaptureFinished` |
| messages | `HandleDesktop`, `HandleLockState`, `HandleBegin`, `HandleInput`, `HandleEnd` |
| top of the loop | `CaptureStart` |
| end of the loop | `Disconnect` (any error), `PeerClosed` |

The receiver inside a coordinator is reduced to what it does on a working sink. An error
of a sink, a late input (200 ms), a send that times out (250 ms), an exhausted counter, a
placement that fails: each ends the loop with an error, which is `Disconnect`. Messages
that are in flight when the connection ends are lost, from any point on. A reconnection
starts both sides afresh (`Connect`). Held keys at crossing are sent one by one after
`Begin` as the code does. Physical input that refuses a `Begin` or takes over while
inputs arrive is a nondeterministic choice.

Abstracted: one edge (`LayoutReady` is "some edge is active"); placement of the pointer;
touchpad negotiation and pings, which do not touch the modelled state; `rearm_at` and the
time a capture needs to be armed, which only restrict when `CaptureStart` happens
(`Prompt` restores that restriction where it matters, see the findings). Two branches do
not appear: `_ => stop_capture` of `Started` needs a crossed capture to start again, and
`source_keys` outside a session is never read.

### Capture (`capture_probe.rs`, `CaptureTask` and the capture branches of `bridge.rs`)

The worker thread (`worker`), the bounded queue of its events (`queue`) and the part of the
coordinator that starts, hears and stops it. `Bridge` treats a capture as a source of events
that may stop at any time; this module is about what is behind it.

| Code | Actions |
| --- | --- |
| `run` of the worker | `Watch`, `FailToBind`, `Cleanup` (what it asks the compositor to release), `Report` (when the compositor has done so) |
| its Wayland handlers | `PointerEnters`, `PointerLeaves`, `Granted`, `Lost`, `Reported`, `GiveUp` |
| top of the coordinator's loop | `Start` |
| capture events | `TakeStale`, `TakeStarted`, `TakeInputEvent`, `TakeFinished`, `TakeOther` |
| the tick | `WorkerGone` |
| `stop_capture`, `CaptureTask::stop` | `Stop` (in the actions that return to local control, `Interrupt` for those whose reason lies elsewhere), then `Joined` or `StopTimesOut` |
| end and restart of the connection | `Disconnect`, `Reconnect` |

`publish`, `input` and `report_ready` are the operators `Publish`, `TakeInputs` and
`ReportReady` on a worker and its queue. Since the coordinator awaits the worker while it
stops it, `stopping` blocks all its other actions. Abstracted: motion and scrolling, which
take a place in the queue like any other input and leave no state behind; several strips are
one; with `PhysicalKeyboard` the capture's keys are ignored by the coordinator as the code
does (`Bridge!Forward` sends the physical ones). A stop that takes more than two seconds is
an error that ends the process: its memory and its Wayland connection go with it. `Local`
stands for `Receiving` too, the two being treated alike by what is modelled.

### Keyboards (`activity.rs`, `PhysicalKeys` in `input.rs`, `forward_keyboard`)

The keyboards (`down`, `plugged`), what the kernel keeps of an open one (`unread`), the monitor
(`fd`, `devices`, `pending`) and the keys the peer was told of (`sourceKeys`). `at` is where the
coordinator is. `Tick`, `Started`, `HandleBegin` and `HandleInput` enter the branches of its
select that sample; `sample` goes from slot to slot (`Absent`, `Open`, `Fetch`, `WouldBlock`,
`Gone`, `SlotDone`), with one `UpdateKeys` for each call of `PhysicalKeys::update`, which ends the
connection when the queue is full. What the branch does with the result follows (`TickSampled`,
`StartedSampled`, `PeerSampled`), in the tick one event after the other (`Forward`, `TickEnds`).
The user and the kernel act between any two of these steps, and `Disconnect` too: any call may
fail. `Lock` is the two branches that suspend, `SessionEnds` every other end of a session.
A device that is unplugged answers ENODEV, whatever was not read, and stays so until its file is
opened again. Opening a device and asking for its key state is one step, since the kernel drops
the key events that it kept for a reader before it answers (EVIOCGKEY). Codes are real (Escape
is 1): the keys of a slot are taken in the order of their codes.
`sourceKeys` is cleared outside a session, where the code neither clears nor reads it. Left out:
mice, which are only activity, and the touchpads' part of `sample`. The kernel's own drops
(`SYN_DROPPED`) are resolved by the evdev library.

### Settings (`Prepared` in `manager.rs`)

Edits of one configuration file by different processes. The content of the file is the
set of edits applied to it, and a revision (a SHA-256) is the content. `step[p]` follows an
edit through `view`, `Prepared::edit`, `commit` (comparison, backup, rename), `finish` or
`Drop`; `Crash` is the death of the process, upon which the kernel drops the `flock`.
`HandEdit` is a person, who takes no lock. An edit always changes the content and a hand
edit only adds to it, so a content never comes back by itself.

Two windows of the code are in the model. What a user is shown is read before the revision
that goes with it (`View`, `ViewRevision`: `manager.rs:116` and 127, with openssl running in
between). Most edits change what they find, but a form (`Forms`) writes all of its fields, so
that a form shown before a save and given the revision of after it passes both comparisons and
takes the saved fields back. `SavedEditsSurvive` and `RefusedEditsLeaveNoTrace` name this as
the one way in which they do not hold (`Loses`, `Revives`). The other window is the one
between the comparison of revisions and the rename (`Check`, `Replace`; `CheckUndo`, `Undo`): an
edit by hand that falls into it is overwritten. The properties of this module are about edits
made through the program; `Layout!EditsSurvive` is about those by hand.

### Layout (`ApplyLayout`, `LayoutMessage`, `PendingLayout`)

The two-sided save on top of `Settings`: other edits under the lock count as edits by hand.
A commit and an undo are two steps each: the comparison of revisions (`CheckCommit` within
`HandlePrepared` and `HandleCommit`, `CheckUndo` of what `Drop` took over into `dropped`) and the
rename (`Writes`, `Undo`); `phase` says where a node is, whose thread handles nothing else
meanwhile. `late` holds the edits by hand that fall between the two, which the rename takes
back: `EditsSurvive` promises the others. `pending[n].asked` is
`reply.is_some()`: it tells the side that coordinates the save from its peer. `reply[t]`
is what the interface of the asking side hears, including `layout_unconfirmed` from
`serve` when the connection drops the command, or after its own ten seconds. Layouts are
named by their transaction. `stuck` remembers that a side gave up what it had written and
could not undo it: the file had been edited since, the write failed, or the process died.

### Touchpad (`touchpad.rs`, its callers in `activity.rs`, `bridge.rs`, `pointer.rs`)

One touchpad (the code allows four, which do not interact) from the fingers, `real`, through
the kernel (`kernel`, `grab`, `unread`) to the compositor's own reader (`seat`), to the local
virtual mirror (`mirror`) and over `wire` to the peer's virtual touchpad (`twin`). A hardware
report may fall between any two system calls.

| Code | Actions |
| --- | --- |
| user, driver, kernel | `Report`, `ReportAgain` (both through `Deliver`) |
| `Router::new`, `Drop` | `Open`, `Drop` in `Suspend`, `Overrun`, `Fail`, `Stop`; then `Dropped` |
| `route` | `Route` |
| `sample` | `Sample`, then `Acquire`, `Flush`, `Inspect` for a pad that is not grabbed yet |
| `release_physical` | `EndPrivately`, `Ungrab`, `EndPublicly` |
| coordinator: tick, crossing, return | `Tick`, `Cross`, `Return` |
| `restore_local_inputs` | `Look`, `Take`, `StartPrivately`, `GiveBack`, `Repair` |
| receiver and `Hybrid` of the peer | `Receive`, `PeerEnds`, `PeerLeaves` |
| death of the process | `Crash` |

Identity and position of a contact are one number. Frames that are late, the limit of 128
frames not sent yet, and errors of system calls are `Fail`. Two ghost variables mark where
the code cannot do better. `raced`: a report came between the check that nothing touches and
the grab, so the compositor has seen a contact whose end the kernel then keeps to itself. The
comments in `touchpad.rs` (264-266, 664-665) and `docs/design.md:40` describe a handover in
which the compositor's reader ends up neutral; in this window of microseconds it does not,
until the next report of that slot or a repair. `quiet`: no report came during a repair, which then undoes
it. A repair that is killed between its private contacts and the neutral frame leaves
invented contacts behind.

### TouchState and TouchpadClock (`TouchState`, `Descriptor`, `RemoteClock` in `touchpad.rs`)

`Touchpad` treats a frame as what changed and leaves time out; these two modules are the rest.
`TouchState` is the memory of a pad with slots, keys and axes as the evdev protocol has them,
the checks a frame passes, and the frames that hand over and end a stroke. The values that are
read from the kernel at the start may be any, as the code does not check them
(`touchpad.rs:376-398`); `raw` follows which of them no frame has replaced since. `TouchpadClock` maps
the peer's times to this computer's. Their data is unbounded (any descriptor, any time), so
they are proved about and not run.

### Pairing (`pairing.rs`)

The operations of `pairing.rs` as operators on a configuration `c`, with its current profile
and its saved ones, and on the certificate files. A computer stands for its certificate and
for its fingerprint; two computers may have one name.

### Service (`run_async`, `control.rs`, `select_peer` and `import_peer` in `manager.rs`, `session.rs`)

The life of services beside the commands that share their configuration file. Each
`pc[i]` is a place in `main` and `run_async`:

| Code | Actions |
| --- | --- |
| systemd, `main` | `Start`, `Restart` (both `Launch`), `Guard` |
| `Server::start`, start of `run_async` | `StartServer`, `Reread`, `Bind` |
| connection loop | `Loop`, `Paused`, `Unlocked`, `Connect`, `Refused`, `Disconnect`, `Sleep` |
| a role changed under a service (`bridge.rs:336`) | `Panic` |
| end of the process | `Stop`, `Fail` (both `Exit`) |
| `serve`, commands of the coordinator | `Ask`, `TimeOut`; `Command`, `CommandBreaks`, `Saves`, `SaveRefused` |
| `select_peer` | `ChooserGuards`, `ChooserStops`, `Select`, `ChooserEnds` |
| `import_peer`, `save`, an editor, a damaged file | `Import`, `Save`, `HandEdit`, `Damage` |
| session monitor | `WatchUnlocked`, `WatchLocked` |

What the model makes visible: the first read of the configuration, before the locks, is never
relied on; a role saved while the service runs makes the `unwrap` of a missing listener panic,
and systemd starts the service with the new role; commands that are queued when a connection
ends are executed by the next one (a layout is then protected by its revision, and the client
has been told `unconfirmed`); after a layout is saved the state stays `connected` for about
two seconds without a connection, and commands are accepted meanwhile. "Cut off" and "not
confirmed" are one answer. `Init` is a configuration of the older kind, or one with all
computers saved. Left out: a changed listening address (it takes effect at the next start),
the consent dialog of the KDE portal, edits by hand of the selection and deletion of
`peer.pem` under a running service (nothing in the code guards against either), and
`restore-input`, which only asks the socket whether a service runs (`main.rs:107`).

### Boundaries (`geometry.rs`, layout checks of `bridge.rs`, strips of `capture_probe.rs`)

Pure definitions: which layouts are valid and active, which pixels a strip covers, where a
position enters. Spans are rational (`part/whole`). What the code makes of a product of
binary64 numbers before it rounds it to a pixel is any function in `Roundings`: off by at most
1/`Precision` of a pixel, and never smaller for a larger product; an output has at most 2^15
logical pixels, so 2^35 is such a `Precision` (the theorems need 4, or four times the 256 steps
of `wl_fixed`). `fraction_at` and `Layout` are used by tests and the layout probe only.

## 3. The runs

| Run | Module | Size | What it shows |
| --- | --- | --- | --- |
| `Receiver` (`MCReceiver.cfg`) | `MCReceiver` | 320 states | One receiver on a sink that may fail at every emission, with every session, order and input a peer can send: nothing it pressed is forgotten, and it implements the input lease. Checks `TypeOK`, `NothingForgotten`, `LeaseSpec`. |
| `BridgeSessions` (`BridgeSessions.cfg`) | `MCBridge` | 542,728 | Two coordinators that cross, return, take over, refuse and end sessions in every order of messages in flight: both ends agree on who controls whom and inputs are neither lost nor reordered. Checks `InputsInOrder`, `MirrorsSource`, `SenderIsHeard`, `DrivenUnlessReused`, `NoOverlap`. |
| `BridgeFaults` (`BridgeFaults.cfg`) | `MCBridge` | 874,532 | The same pair when either session locks, outputs vanish, a layout is being saved and the connection is lost and made again at any moment: no state of the old situation survives, and each desktop stays leased to one session. Checks `TypeOK`, `Coherent`, `DesktopsLeased`. |
| `BridgeReturn` (`BridgeReturn.cfg`) | `MCBridge` | 82,000 | With one controlling side: a receiver is never left without a sender, control always returns, and a lost peer's keys are released, given only that messages are handled and a closed connection is noticed. Checks `ReceiverIsDriven`, `ControlReturns`, `LostPeerReleases`. |
| `BridgeStaleEnd` (`BridgeStaleEnd.cfg`) | `MCBridge` | violation | Both sides cross at about the same time: the late End of a session ends the peer's session of the same number, and a receiver stays behind that nobody drives. Checks `ReceiverIsDriven`. |
| `Capture` (`Capture.cfg`) | `Capture` | 851,707 | A capture that the compositor may grant, refuse or take away piece by piece, that is cancelled, fails, overflows its queue or is followed by another one: input goes back to the user, a session relies on a running capture only, and a capture that is stopped or whose worker ends comes to a noticed end, as does one that gives up if the compositor answers. Checks `InputReturned`, `OwnedWhileReady`, `SessionIsCurrent`, `MirrorsCapture`, `CaptureEnds`. |
| `Keyboards` (`Keyboards.cfg`) | `Keyboards` | 1,245,524 | Two keyboards on which the same keys are typed, that come and go with keys held, between and in the middle of the samples, before and during sessions of either direction: the peer holds exactly what is held, the emergency chord ends a session, no key stays down. Checks `PeerHoldsWhatIsHeld`, `EmergencyReturns`, `ReleasesReachPeer`. |
| `Touchpad` (`Touchpad.cfg`) | `Touchpad` | 580,000 | A finger and a button that move at every step of acquiring, handing over, losing, killing and repairing a touchpad: contacts are shown once, mirror and twin follow the fingers, and both settle on what is down. Checks `TypeOK`, `ShownOnce`, `MirrorInStep`, `TwinInStep`, `Settles`. |
| `Service` (`Service.cfg`) | `MCService` | 1,668,806 | A service started by systemd and one by hand beside a choice of the computer, imports, saves, edits by hand, requests on the control socket, locks, lost connections and crashes: one service trusts the selected computer, saved computers are kept, clients are told the truth, and sharing goes on until the services are stopped or the unit has failed too often in an interval. Checks `TrustsSelected`, `AnswersTrue`, `SavedKept`, `Serves`. |
| `Settings` (`MCSettings.cfg`) | `MCSettings` | 122,952 | Three concurrent edits of one configuration file, forms among them that are shown before their revision is read, an edit by hand, and a process that can die at each step: saved edits survive and refused ones leave nothing, but for what such a form overwrites. Checks `TypeOK`, `SavedEditsSurvive`, `RefusedEditsLeaveNoTrace`. |
| `SettingsBackup` (`SettingsBackup.cfg`) | `MCSettings` | violation | A backup whose writing failed or was interrupted counts as the initial backup for ever: the file is then replaced without one. Checks `BackupPreserved`. |
| `Layout` (`Layout.cfg`) | `Layout` | 962,345 | Layouts saved on both computers, asked for on both sides, with hand edits also between a comparison and its rename, lost connections, crashes, failing undo and timeouts: success means both, refusal means neither, and the client always hears when the two may differ. Checks `TypeOK`, `RefusedMeansNeither`, `DivergenceIsKnown`, `SavedMeansBoth`, `EditsSurvive`, `RequestAnswered`. |

`BridgeSessions` has no environment, so that sessions of both sides can cross in every
order with two sessions and two inputs each. `BridgeFaults` has all of it, with one session
per side and connection. Bounds: sessions and inputs are numbered from 1 and 0; two of each are what it takes
for a stale message to meet a later session and for an order of inputs to be wrong.
`MaxInbox` bounds the messages in flight when a *local event* starts; messages are always
handled. Three is the number that a Begin, a synchronised key and an End need, four lets a
second session start behind the first. One code suffices where codes do not interact
(each is pressed and released on its own); the receiver is checked with three because its
release loop handles sets. `Layout` is run with two transactions (one on each side, or one
after the other); three were also checked and gave no new behaviour. In `Capture` a queue of three holds
`Started`, an input and `Ready`, and is overflowed by one held-back input more; two held-back
inputs are a press and its release; a second generation is what stale events need. In
`Keyboards` two codes on two keyboards are a chord, and a code held twice; two events
that the monitor has not seen are a press and its release, or one on each keyboard; a queue of
two is what one sample fills and the next key overflows. The safety properties and the invariant
of their proof were also checked with a queue of three (2.6 million states). In `Settings` three
edits let one edit be prepared while another is undone and a third one waits. In `Layout` two
edits by hand of each file let one fall before a comparison and one after it. Symmetry is
used for codes, for edits, and for the two nodes where both may send (safety runs only).

In `Touchpad` one slot and the button are a contact and an item without a release of its own;
two unread frames overflow at the third report; three reports put a finger down, lift it and
press the button, in any order and at any of the steps; one start, one session and one kill.
The safety properties were also checked with two slots and two starts (4.5 million states),
and with a contact that moves (`Places = {2}`, 1.9 million). In
`Service` two computers of one name are what can be confused; the unit may start twice in an
interval of systemd, and any number of times over many, beside one service started by hand
(`StartLimitBurst` is 3; the run with `Burst = 3` was checked too and takes longer, 2.4 million
states); a channel for one command is full at the
second; two edits are an import and a choice, or a choice and a save; one fault. The safety
properties were also checked with two clients (11.2 million states).

The type invariants of `Capture` and `Keyboards` are not part of a run; `TypeCorrect` of
`CaptureProofs` and of `KeyboardsProofs` proves them.

Deadlock is checked except in `Settings`, where the edits come to an end, in `Touchpad`,
where a process that was killed may stay dead, and in `Service`, where the starts, edits and
faults are used up and all services may be stopped.

## 4. Fairness

`Bridge!FairSpec` assumes weak fairness of handling the messages that arrive and of
noticing that the peer is gone: the reader task and the `select!` of a running loop. It assumes nothing
of users, lock screens, captures or the network. `Capture!FairSpec` assumes that the worker's loop looks at its flags every 50 ms (`Cleanup`),
that the coordinator takes events from the queue and ticks, and that it waits no longer than two
seconds for a worker it stops (`Joined \/ StopTimesOut`). Nothing is assumed of the compositor,
which may fall silent: the worker's round trips (`capture_probe.rs:420`, 494-495, 544) have no
timeout, so the actions that end one (`RoundTrip`) are not fair. A capture that is cancelled or
whose worker has ended is over all the same. One that gives up waits in its last round trip
before it says so, and is over only if the compositor answers; if it does not, and nothing else
stops the capture, the session stays with a worker that captures no more. The second part of
`CaptureEnds` has that condition in its formula (`CompositorAnswers`).
`Keyboards!FairSpec` assumes the same timer as `Layout` and that a branch that was entered goes
on (`Tick \/ Step`); the error that a full queue is counts as going on. Since in a session of
this side nothing but the tick samples, one weak fairness of both is enough.
`Touchpad!FairSpec` assumes that the coordinator's loop goes on through its waits, that the
driver repeats what stays down, and that the peer reads; nothing of users, locks and failures. `Settles` speaks of
runs in which sharing stays possible. `Service!FairSpec` assumes that a service goes on, that
systemd starts what failed or gives it up after `Burst` starts in one interval (`GiveUp`, and an
interval may be over before any start), that a choice of a computer comes to its end, that the user unlocks the session in the end and the selected
computer is there; `MaxFaults` bounds how often a connection, a process or the monitor fails.
`Layout!FairSpec` assumes only the
timer: `interval(16 ms)` ticks as long as the loop runs. `RequestAnswered` therefore holds
even if the peer never answers.

## 5. What is proved

`ReceiverProofs` proves for every set of codes and sessions and every sequence bound that
`Receiver` keeps its type, `NothingForgotten`, `SessionMatchesMode`, `NeutralWhenIdle`, the
action properties `CleanStart` and `PressesNeedSession`, and that it implements
`InputLease` (`ImplementsLease`). The inductive invariant is the conjunction of the type and
these three state properties: `down` stays within what is recorded or outstanding only
because a session, and so a recorded press, exists in mode `Receiving` alone, which in turn
is `SessionMatchesMode`. The cleanup operators are handled by lemmas about `Release` and
`Stopped`, which most actions end in. Assumptions: sessions are numbers, `None` is not one,
the sequence bound is a number.

`SettingsProofs` proves `SavedEditsSurvive`, `RefusedEditsLeaveNoTrace` (both with the window
of a form that is described in section 2) and `ConflictsRejected` for any sets of edits, forms
and hand edits. They are not inductive; `IInv`
adds that the edit between preparation and end is the one that holds the lock (`Owner`),
that what it was prepared from is what it saw (`Faithful`), that an edit that was not
applied appears nowhere (`Traceless`), that applied ones stay in the file and in every
base that is going to replace it (`Kept`), and that an edit whose base was seen has not been
overtaken (`Ordered`).

Its run leaves `ConflictsRejected` out, as the run of `Receiver` leaves out four of the properties
that `ReceiverProofs` proves: they follow from the same invariant.

`ServiceProofs` proves for any sets of services, computers, layouts and clients and any
bounds that at most one service trusts a computer, the selected one (`OnlySelectedTrusted`),
that saved computers are kept (`SavedComputersKept`), and that clients are told the truth
(`AnswersAreTrue`). The first rests on `IInv`: a service past its first lock holds it
(`Locked`), trust exists only there and agrees with the selection (`Trusting`), and what a
service read under the lock cannot be outdated by an edit that does not choose (`Current`).
Each edit is `Steady`: it does not change who is chosen. The answers need `Answering`: a
command is in one place, the channel or pending, and its client has heard nothing final while
it is there.

Of `Boundaries` `LayoutProofs` proves, for all sizes and rational spans, that both computers hold the same
edges to be active (`SameEdgesActive`), that a saved layout is active as a whole
(`SavedLayoutActive`), that strips lie within their output (`StripsWithin`) and two of one side
share at most one pixel of it (`StripsApart`), and adjacent ones leave at most two free
(`StripsMeet`), that what a preparation
accepts the capture accepts (`AcceptedStrips`), and that the pointer enters at a valid place
(`EntryValid`), in order (`EntryInOrder`), within two pixels of where it left
(`EntryKeepsPlace`, for a position in fractions of a pixel), and off the strips (`EntryClear`). The last has an exception the code shares: an entry in the last two
pixels before a corner can lie on the strip of the side across the corner, where a capture
that was armed before still runs, which ends the session at once.

`BridgeProofs` proves for any codes and bounds, and whatever the environment does, that
`Bridge` keeps its type (`TypeCorrect`), that no coordinator holds state of a situation that
is over (`AlwaysCoherent`), and that each desktop implements `InputLease`
(`ImplementsLeases`). The inductive invariant is local: each node is `Sound` by itself, which
adds to its type that its flags follow the locks (`Locks`), that its receiver serves the
coordinator's session (`Receives`) and that it captures and is in a session only while both
sides are ready with a layout (`Supported`), and only messages that a coordinator sends are in
flight (`Wire`). Then each step `Eases` the lease of
a desktop: it presses only for the session that holds it, and changes the session only with
nothing pressed.

`LayoutProofs` proves for any number of layouts and edits, and under every fault, that success
is reported only when both files hold the layout (`SuccessIsTrue`), that a refused layout is in
neither file unless it is still being undone or its undo failed (`RefusalsAreTrue`), that the
files never come apart unnoticed (`DivergenceIsTold`), and that edits by hand survive, but for
those between a comparison and its rename (`HandEditsKept`). The
inductive invariant rests on `OneToken`: of all messages about a layout except `Abort`, at
most one is in flight. `Means` says what the token on its way tells of both sides: no file
knows a layout that is still being prepared, a `Commit` in flight means that the sender still
holds its own commit or that the client was told `layout_unconfirmed`, and a `Result` means
that its sender has written and left, or never wrote. `Saving` ties a file to what is pending
for it, and `Together` compares what the files are when pending commits are undone (`Base`).

The second part of `BridgeProofs` relates the two ends of a connection. `Paired` says of two
records and the two queues between them what is true of a session wherever its messages are:
session numbers are below the next one, and a session has one `Begin`, ahead of its inputs
(`Numbered`); from a `Begin` that is in flight or accepted, the inputs in flight count on from
what the receiver expects to what the sender sends next (`Sequenced`) and lead from what the
receiver holds to what is held at the source (`Mirrored`); and a session that only one end is
in has a message on the way that ends it (`Answered`: an `End` in the one direction, an
unanswered `Begin` or an `End` in the other). A step of one node is one of a few `Steps` as
far as its peer can tell (it starts, forwards, accepts, injects, refuses, quits, idles,
...), each with a lemma that it keeps `Paired` both ways, and one lemma per action shows
which it is. From the invariant (`DuplexInvariance`) follow `InputsAreInOrder`,
`KeysAreMirrored`, `SendersAreHeard`, `ReceiversAreDrivenUnlessReused` and
`SessionsDoNotOverlap` (a `Begin` that arrives during a received session carries a newer
number; it says no more than that), for any codes and bounds, with or without a prompt network, and
`ReceiversAreDriven` for computers of which only one ever sends, the case of the run
`BridgeReturn`; without that hypothesis it is false (`BridgeStaleEnd`).

`CaptureProofs` proves for any codes, any limits of the queue and of the inputs held back, and
any number of generations that input is returned (`InputIsReturned`), that a ready capture
owns what it took (`CaptureIsOwned`), that a session belongs to the running capture
(`SessionsAreCurrent`), that the coordinator knows what is pressed (`InputsAreMirrored`), and
the types of the state (`TypeCorrect`). The inductive invariant has a part about the worker
(`Owned`: what was granted, observed and reported), one about the coordinator and its worker
(`Situation`: which generation it waits for, and that a worker that ended has said so), and
one about the queue (`Follows`): an announcement in it is true and unique, inputs lie behind
`Started` (`Ordered`), and what was sent, queued and held back amounts to what is pressed
(`Mirrored`), unless the capture is finished. What inputs amount to is defined by the last
input about each code (`Replay`), without recursion, so that the replay of two parts is
composed of their replays (`ReplayParts`), the one lemma every step of the queue needs. The
assumptions are those of the module: finitely many keys, none of them a button, and bounds that
are numbers.

`TouchpadProofs` proves for any slots, places and reports, a queue of at least one frame, and
any number of sessions, starts and kills that a touch is shown once (`TouchesAreShownOnce`), that
the mirror follows the fingers (`MirrorFollows`) and so does the peer's twin
(`TwinFollows`), besides the types (`TypeCorrect`). `Phases` and `Turned` say for each place
in the code who holds the device, whether there is a router, and whether it knows who has
control; `Looked` says how long what a look at an idle device found stays true; `Recent` that the
frames the kernel keeps end with its own state. `Wire` orders the messages on their way:
sessions follow each other from a `Begin` to an `End`, the one the peer is in ends before the
next begins, and every session but the one in force has its `End` on the way. `Routed` is
`TwinInStep` made inductive: until the pad is routed to a session the peer has seen nothing
in it, and from then on the frames on their way lead from the twin to the router's copy.
Frames are replayed by the last one that has an item (`Replay`); that a finite set of
positions has a last one is shown by well-founded induction (`Greatest`), and `ReplayConcat`
composes.

Its last two parts are about two smaller modules. Of `TouchState` it proves that a pad's memory
stays within its descriptor, or holds what the kernel reported (`StaysWithin`), that the releases
of a handover pass the peer's validation, and that its snapshot does but for a value that was
read from the kernel out of range and that no frame has replaced (`HandoversAccepted`): of at
most 32 contacts with 15 codes each and the shared ones, at most 495 events of the 512 allowed.
Of `TouchpadClock` it proves that a mapped time is never in the future and positive and that
the offset never grows and is at most each frame's delay (`ClockSound`), that written times never go back (`ClockNeverBack`),
and that frames keep their intervals (`ClockIntervals`).

`KeyboardsProofs` proves for any number of keyboards, any keys and modifiers, a queue of any
length and any number of events on their way that the peer holds what is held (`HeldIsTold`),
that the emergency chord ends the session (`EmergencyEnds`), and the types (`TypeCorrect`). Two
chains make the inductive invariant: `Tracks` says of each keyboard that what was not read of
it, after what the sample at work is about to apply (`Known`), leads from what the monitor has
for it to the keys that are down; `Told` says that in a session of this side the events that
wait lead from the keys the peer was told of to those the monitor holds. `Situated` ties the
monitor to where the coordinator is. Both chains use `Replay`, what the last event of each key
says, without recursion. That a key held on several keyboards is one key for the peer is the
lemma about `Update`: the union changes exactly when an event is queued. `EmergencyReturns` is
an action property whose proof uses `Told` twice: when Escape goes down for the monitor, its
event is queued behind events that lead to the modifiers held, so that it is the chord when
`Forward` reaches it; and a chord that waits stays one when other events are queued behind it or
forwarded before it.

Every invariant and every action property that a passing run checks is stated by one of these
theorems. Only model-checked are the liveness properties (`ControlReturns`, `LostPeerReleases`,
`CaptureEnds`, `ReleasesReachPeer`, `Settles`, `Serves` and `RequestAnswered`): the prover handles
neither fairness nor `ENABLED`.

## 6. Findings

* `BridgeStaleEnd`: an `End` is matched by session number in either role, and both sides
  number from 1. If both cross at about the same time, the late `End` of one side's session
  can end the other side's session of the same number without a message back; the first
  side then stays `Receiving` although nobody drives it, until a lock, physical input or a
  crossing back. The run has `Prompt = TRUE`: it needs no slow network.
  `DrivenUnlessReused` and `NoOverlap` say what does hold: it takes an equal number.
* `SettingsBackup`: the initial backup is created, then written; if that is interrupted or
  fails, the incomplete file counts as the backup for ever.

Three more things the models make visible have no run of their own; the properties state them
as their exceptions:

* `docs/setup.md:163` says that external edits "are detected by configuration revisions and are
  not silently overwritten". They are if they fall between a comparison and the rename that
  follows it (`manager.rs:229` and 243, 253 and 257; `EditsSurvive`), and a form may overwrite an
  edit saved between its two reads (`manager.rs:116` and 127; `SavedEditsSurvive`).
* An axis that nothing has moved yet reads 0, also where its minimum is above 0
  (`touchpad.rs:376-398`): the first snapshot of such a pad is refused, and the crossing ends the
  connection (`HandoverAccepted`).
* The product of a fraction and a size in binary64 can lie below the whole number it should be
  (1600 * 0.29): the strips of adjacent edges may share a pixel (`StripsApart`).

## 7. Not modelled, and the plan

The order of the remaining work, most important first:

1. `Lifecycle`: stop, backup, replace, recover of an installation or update (shell scripts).
2. The interface's model of the managed service: start, stop, quit.
3. Framing and validation of messages (`protocol.rs`), which so far is one `invalid` event.

Left out for good: rendering and translation of the interface, release tooling, the
cryptography of TLS and certificates, and the kernel and compositor interfaces themselves,
which the models meet as an environment that may do anything the code has to cope with.
Injection backends are such an environment too: each emission succeeds, or fails having taken
effect or not.
