------------------------------- MODULE Service -------------------------------
(***************************************************************************)
(* The life of the sharing service (run_async in src/src/bridge.rs) beside *)
(* the commands that share its configuration: the choice of a computer     *)
(* (manager::select_peer), imports and saves, the control socket           *)
(* (src/src/control.rs), the session monitor (src/src/session.rs) and      *)
(* systemd.  A service binds the certificate it trusts and its listening   *)
(* socket once, but reads the configuration again before each connection;  *)
(* two file locks keep it apart from a choice and from another service.    *)
(*                                                                         *)
(* An edit of the configuration is one step: see Settings.  What happens   *)
(* in a connection is in Bridge and Layout; here a connection is open and  *)
(* takes commands.  All processes use one configuration file.              *)
(***************************************************************************)
EXTENDS Pairing, Naturals, Sequences

CONSTANTS
    Unit,        \* the service started by systemd
    Instances,   \* it and the services started by hand
    Chooser,     \* the command that selects a computer
    Nobody,
    Clients,     \* requests to the control socket
    QueueMax,    \* commands the channel holds: 4 in the code
    Burst,       \* starts of the unit in an interval: StartLimitBurst, 3
    HandStarts,  \* bound on the starts of each other service
    MaxFaults,   \* failures of the network, the processes and the monitor
    MaxEdits     \* choices, imports, saves and edits by hand

ASSUME ServiceAssumption ==
    /\ Unit \in Instances /\ Chooser \notin Instances
    /\ Nobody \notin Instances \cup {Chooser} /\ "none" \notin Clients
    /\ {Burst, HandStarts, QueueMax, MaxFaults, MaxEdits} \subseteq Nat

VARIABLES
    cfg, files,         \* the configuration and the certificate files
    running, instance,  \* holders of running.lock and instance.lock
    pc, conf,           \* each service: where it is, the configuration it read
    trust,              \* ... the certificate in its TLS configuration
    bound,              \* ... has it a listening socket
    starts,             \* ... how often it was started, the unit in an interval
    choosing,           \* the command that selects a computer
    status,             \* what the session monitor knows of the session
    connected,          \* the state shown on the control socket is "connected"
    queue, pending,     \* commands in the channel; a layout being saved
    client, ran,        \* what each client was told; commands that had effect
    faults, edits

vars == <<cfg, files, running, instance, pc, conf, trust, bound, starts, choosing,
          status, connected, queue, pending, client, ran, faults, edits>>

service  == <<running, instance, pc, conf, trust, bound, starts>>
commands == <<connected, queue, pending, client, ran>>
counters == <<faults, edits>>

Fault == faults < MaxFaults /\ faults' = faults + 1 /\ UNCHANGED edits
Edit  == edits < MaxEdits /\ edits' = edits + 1 /\ UNCHANGED faults

\* What a service that is not running knows of the configuration.
NoView == [current |-> "none"]

\* The configuration in place: of the older kind, or with all computers saved.
Init ==
    /\ \E m \in Connections, e \in Layouts :
          LET profile(n, file) == [name |-> n, path |-> file,
                                   connection |-> m, edges |-> e]
          IN  \/ \E peer \in Computers \cup {"missing"} :
                   /\ files = [path \in Paths |->
                                 IF path = Legacy THEN peer ELSE "missing"]
                   /\ cfg = [current |-> profile(IF peer = "missing" THEN "unpaired"
                                                 ELSE NameOf[peer], Legacy),
                             paired  |-> [g \in {} |-> g]]
              \/ \E f \in Computers :
                   /\ files = [path \in Paths |->
                                 IF path = Legacy THEN "missing" ELSE path]
                   /\ cfg = [current |-> profile(NameOf[f], f),
                             paired  |-> [g \in Computers |-> profile(NameOf[g], g)]]
    /\ running = Nobody /\ instance = Nobody
    /\ pc = [i \in Instances |-> "stopped"]
    /\ conf = [i \in Instances |-> NoView]
    /\ trust = [i \in Instances |-> "none"]
    /\ bound = [i \in Instances |-> FALSE]
    /\ starts = [i \in Instances |-> 0]
    /\ choosing = "idle"
    /\ status = "unknown"
    /\ connected = FALSE /\ queue = <<>> /\ pending = "none"
    /\ client = [k \in Clients |-> "idle"] /\ ran = {}
    /\ faults = 0 /\ edits = 0

-----------------------------------------------------------------------------
(* One service *)

Goto(i, place) == pc' = [pc EXCEPT ![i] = place]

Go(i, from, to) ==
    /\ pc[i] = from /\ Goto(i, to)

\* The answer of a client that still waits.
Told(answers, k, answer) ==
    IF answers[k] = "asked" THEN [answers EXCEPT ![k] = answer] ELSE answers

\* The process ends: the kernel or the guards release its locks, the commands in
\* its channel are gone with their streams, systemd will start a failed unit again.
\* Mutants: it does not; a lock stays behind.
Freed_Kept(lock, i) == lock
Freed(lock, i) == IF lock = i THEN Nobody ELSE lock
Exited_Ended(i, how) == IF how = "failure" /\ i = Unit THEN "failed" ELSE "stopped"
Exited(i, how) == IF how = "failure" /\ i = Unit THEN "restarting" ELSE "stopped"
Exit(i, how) ==
    /\ Goto(i, Exited(i, how))
    /\ running' = Freed(running, i) /\ instance' = Freed(instance, i)
    /\ conf' = [conf EXCEPT ![i] = NoView]
    /\ trust' = [trust EXCEPT ![i] = "none"]
    /\ bound' = [bound EXCEPT ![i] = FALSE]
    /\ UNCHANGED <<starts, ran>>
    /\ IF instance = i
       THEN /\ connected' = FALSE /\ queue' = <<>> /\ pending' = "none"
            /\ client' = [k \in Clients |->
                             IF client[k] = "asked" THEN "unconfirmed" ELSE client[k]]
       ELSE UNCHANGED <<connected, queue, pending, client>>

\* systemd counts the starts of the unit in an interval of a minute, which may be
\* over before any of them.
Counted(i) ==
    {n \in {starts[i] + 1} : n <= IF i = Unit THEN Burst ELSE HandStarts}
        \cup (IF i = Unit THEN {1} ELSE {})

\* main: the configuration is read before any lock is taken.
Launch(i) ==
    /\ \E n \in Counted(i) : starts' = [starts EXCEPT ![i] = n]
    /\ conf' = [conf EXCEPT ![i] = cfg]
    /\ Goto(i, "launched")
    /\ UNCHANGED <<cfg, files, running, instance, trust, bound, choosing>>
    /\ UNCHANGED <<status, commands, counters>>

Start(i)   == pc[i] \in {"stopped", "failed"} /\ Launch(i)
Restart(i) == pc[i] = "restarting" /\ Launch(i)

\* One start too many in an interval: systemd gives the unit up.
GiveUp(i) ==
    /\ starts[i] = Burst
    /\ Go(i, "restarting", "failed")
    /\ UNCHANGED <<cfg, files, running, instance, conf, trust, bound, starts, choosing>>
    /\ UNCHANGED <<status, commands, counters>>

\* configuration_guard
Guard(i) ==
    /\ pc[i] = "launched"
    /\ IF running = Nobody
       THEN /\ running' = i /\ Goto(i, "guarded")
            /\ UNCHANGED <<instance, conf, trust, bound, starts, commands>>
       ELSE Exit(i, "failure")
    /\ UNCHANGED <<cfg, files, choosing, status, counters>>

\* Server::start: the instance lock, then the socket; a socket that was left
\* behind is removed.
StartServer(i) ==
    /\ pc[i] = "guarded"
    /\ IF instance = Nobody
       THEN /\ instance' = i /\ Goto(i, "serving")
            /\ UNCHANGED <<running, conf, trust, bound, starts, commands>>
       ELSE Exit(i, "failure")
    /\ UNCHANGED <<cfg, files, choosing, status, counters>>

\* Mutant: what was read before the lock is used.
Reread_Skipped(i) ==
    /\ Go(i, "serving", "reread")
    /\ UNCHANGED <<cfg, files, running, instance, conf, trust, bound, starts, choosing>>
    /\ UNCHANGED <<status, commands, counters>>

\* The configuration is read again, now that no choice can be made.
Reread(i) ==
    /\ Go(i, "serving", "reread")
    /\ conf' = [conf EXCEPT ![i] = cfg]
    /\ UNCHANGED <<cfg, files, running, instance, trust, bound, starts, choosing>>
    /\ UNCHANGED <<status, commands, counters>>

\* The certificate and the listening socket are bound for the service's life.
Bind(i) ==
    /\ pc[i] = "reread"
    /\ IF Certificate(conf[i], files) # "none"
       THEN /\ Goto(i, "ready")
            /\ trust' = [trust EXCEPT ![i] = Certificate(conf[i], files)]
            /\ bound' = [bound EXCEPT ![i] = conf[i].current.connection = "listen"]
            /\ conf' = [conf EXCEPT ![i] = NoView]
            /\ UNCHANGED <<running, instance, starts, commands>>
       ELSE Exit(i, "failure")
    /\ UNCHANGED <<cfg, files, choosing, status, counters>>

\* The connection loop: the configuration once more, then an unlocked session.
Loop(i) ==
    /\ Go(i, "ready", "paused")
    /\ conf' = [conf EXCEPT ![i] = cfg]
    /\ UNCHANGED <<cfg, files, running, instance, trust, bound, starts, choosing>>
    /\ UNCHANGED <<status, commands, counters>>

Paused(i) ==
    /\ pc[i] = "paused" /\ status # "unlocked"
    /\ connected /\ connected' = FALSE
    /\ UNCHANGED <<cfg, files, service, choosing, status, counters>>
    /\ UNCHANGED <<queue, pending, client, ran>>

Unlocked(i) ==
    /\ status = "unlocked"
    /\ Go(i, "paused", "trying")
    /\ connected' = FALSE
    /\ UNCHANGED <<cfg, files, running, instance, conf, trust, bound, starts, choosing>>
    /\ UNCHANGED <<status, queue, pending, client, ran, counters>>

\* The settings say listen, the service was started to connect: the unwrap of
\* the listener panics.
Panic(i) ==
    /\ pc[i] = "trying" /\ conf[i].current.connection = "listen" /\ ~bound[i]
    /\ Exit(i, "failure")
    /\ UNCHANGED <<cfg, files, choosing, status, counters>>

\* accept or connect, and hello: the other side is the trusted computer, and
\* when it is called, it has the name that is expected.
Connect(i) ==
    /\ Go(i, "trying", "connected")
    /\ conf[i].current.connection = "listen" => bound[i]
    /\ conf[i].current.connection = "connect"
           => conf[i].current.name = NameOf[trust[i]]
    /\ conf' = [conf EXCEPT ![i] = NoView]
    /\ connected' = TRUE
    /\ UNCHANGED <<cfg, files, running, instance, trust, bound, starts, choosing>>
    /\ UNCHANGED <<status, queue, pending, client, ran, counters>>

\* A connection cannot be made: another computer, a timeout, another protocol.
Refused(i) ==
    /\ Go(i, "trying", "waiting")
    /\ conf[i].current.connection = "listen" => bound[i]
    /\ Fault
    /\ conf' = [conf EXCEPT ![i] = NoView]
    /\ connected' = FALSE
    /\ UNCHANGED <<cfg, files, running, instance, trust, bound, starts, choosing>>
    /\ UNCHANGED <<status, queue, pending, client, ran>>

\* A connection ends: with an error, or because a layout was saved (the state
\* then stays "connected").  Its pending layout loses its reply.
Hangup(i) ==
    /\ Go(i, "connected", "waiting")
    /\ connected' \in BOOLEAN
    /\ pending' = "none"
    /\ client' = IF pending = "none" THEN client
                 ELSE Told(client, pending, "unconfirmed")
    /\ UNCHANGED <<cfg, files, running, instance, conf, trust, bound, starts, choosing>>
    /\ UNCHANGED <<status, queue>>

Disconnect(i) == Hangup(i) /\ Fault /\ UNCHANGED ran

Sleep(i) ==
    /\ Go(i, "waiting", "ready")
    /\ UNCHANGED <<cfg, files, running, instance, conf, trust, bound, starts, choosing>>
    /\ UNCHANGED <<status, commands, counters>>

Alive(i) == pc[i] \notin {"stopped", "restarting", "failed"}

\* SIGTERM and the emergency chord end the service; CaptureReleaseFailed, any
\* other error of its start, and SIGKILL make it fail.
Stop(i) ==
    /\ Alive(i) /\ Exit(i, "success")
    /\ UNCHANGED <<cfg, files, choosing, status, counters>>

Fail(i) ==
    /\ Alive(i) /\ Exit(i, "failure") /\ Fault
    /\ UNCHANGED <<cfg, files, choosing, status>>

-----------------------------------------------------------------------------
(* The control socket *)

\* serve: refused while the state is not "connected" and when the channel is
\* full; otherwise the command is in the channel.
Ask(k) ==
    /\ client[k] = "idle" /\ instance \in Instances
    /\ IF connected /\ Len(queue) < QueueMax
       THEN /\ client' = [client EXCEPT ![k] = "asked"] /\ queue' = Append(queue, k)
       ELSE /\ client' = [client EXCEPT ![k] = "refused"] /\ UNCHANGED queue
    /\ UNCHANGED <<cfg, files, service, choosing, status, counters>>
    /\ UNCHANGED <<connected, pending, ran>>

\* Mutant: a command that was not answered in time counts as refused.
TimeOut_Refused(k) ==
    /\ client[k] = "asked"
    /\ client' = [client EXCEPT ![k] = "refused"]
    /\ UNCHANGED <<cfg, files, service, choosing, status, counters>>
    /\ UNCHANGED <<connected, queue, pending, ran>>

\* serve, after ten seconds: the command stays in the channel.
TimeOut(k) ==
    /\ client[k] = "asked"
    /\ client' = [client EXCEPT ![k] = "unconfirmed"]
    /\ UNCHANGED <<cfg, files, service, choosing, status, counters>>
    /\ UNCHANGED <<connected, queue, pending, ran>>

\* The coordinator takes a command and carries it out, refuses it, or begins to
\* save a layout.
Command(i) ==
    /\ pc[i] = "connected" /\ queue # <<>> /\ queue' = Tail(queue)
    /\ LET k == Head(queue) IN
       \/ /\ ran' = ran \cup {k} /\ client' = Told(client, k, "done")
          /\ UNCHANGED pending
       \/ client' = Told(client, k, "refused") /\ UNCHANGED <<ran, pending>>
       \/ pending = "none" /\ pending' = k /\ UNCHANGED <<ran, client>>
    /\ UNCHANGED <<cfg, files, service, choosing, status, counters, connected>>

\* A command fails after it took effect, which ends the connection: its reply
\* is dropped.
CommandBreaks(i) ==
    /\ queue # <<>> /\ Fault
    /\ Go(i, "connected", "waiting")
    /\ connected' = FALSE
    /\ queue' = Tail(queue) /\ pending' = "none" /\ ran' = ran \cup {Head(queue)}
    /\ client' = [k \in Clients |->
                     IF k \in {Head(queue), pending} /\ client[k] = "asked"
                     THEN "unconfirmed" ELSE client[k]]
    /\ UNCHANGED <<cfg, files, running, instance, conf, trust, bound, starts, choosing>>
    /\ UNCHANGED status

\* The layout is saved by both sides, which ends the connection, or by neither.
Saves(i) ==
    /\ pc[i] = "connected" /\ pending # "none"
    /\ ran' = ran \cup {pending}
    /\ client' = Told(client, pending, "done") /\ pending' = "none"
    /\ Go(i, "connected", "waiting")
    /\ UNCHANGED <<cfg, files, running, instance, conf, trust, bound, starts, choosing>>
    /\ UNCHANGED <<status, counters, connected, queue>>

SaveRefused(i) ==
    /\ pc[i] = "connected" /\ pending # "none" /\ pending' = "none"
    /\ \E answer \in {"refused", "unconfirmed"} : client' = Told(client, pending, answer)
    /\ UNCHANGED <<cfg, files, service, choosing, status, counters>>
    /\ UNCHANGED <<connected, queue, ran>>

-----------------------------------------------------------------------------
(* Edits of the configuration *)

\* Prepared::edit: the selected computer is brought up to date before and after.
Edited(c) == /\ Valid(c) /\ cfg' = Synced(c)

\* manager::select_peer takes the running lock, then the instance lock unless
\* it knows no graphical session; then it edits.  A lock it does not get is the
\* end of it.
ChooserGuards ==
    /\ choosing = "idle" /\ running = Nobody /\ Edit
    /\ running' = Chooser /\ choosing' = "guarded"
    /\ UNCHANGED <<cfg, files, instance, pc, conf, trust, bound, starts>>
    /\ UNCHANGED <<status, commands>>

ChooserStops ==
    /\ choosing = "guarded" /\ instance = Nobody
    /\ \E lock \in {Chooser, Nobody} : instance' = lock
    /\ choosing' = "alone"
    /\ UNCHANGED <<cfg, files, running, pc, conf, trust, bound, starts>>
    /\ UNCHANGED <<status, commands, counters>>

Select(f) ==
    /\ choosing = "alone" /\ choosing' = "selected"
    /\ Valid(cfg) /\ Selectable(Synced(cfg), files, f)
    /\ Edited(Activated(Synced(cfg), f))
    /\ UNCHANGED <<files, service, status, commands, counters>>

\* It reports, is refused, or dies: its locks are released.
ChooserEnds ==
    /\ choosing # "idle" /\ choosing' = "idle"
    /\ running' = Freed(running, Chooser) /\ instance' = Freed(instance, Chooser)
    /\ UNCHANGED <<cfg, files, pc, conf, trust, bound, starts>>
    /\ UNCHANGED <<status, commands, counters>>

\* manager::import_peer; a process that dies in it leaves certificate files.
Import(f) ==
    /\ Edit /\ Valid(cfg)
    /\ LET c == Synced(cfg) IN
       \/ /\ Addable(c, files, f)
          /\ files' = FilesAdded(c, files, f) /\ Edited(Added(c, files, f))
       \/ /\ Migratable(c, files, f)
          /\ files' \in {FilesMigrated(c, files), FilesAdded(c, files, f)}
          /\ UNCHANGED cfg
    /\ UNCHANGED <<service, choosing, status, commands>>

\* manager::save, and the edges of a layout.
Save(m, e) ==
    /\ Edit /\ Valid(cfg)
    /\ Edited([Synced(cfg) EXCEPT !.current.connection = m, !.current.edges = e])
    /\ UNCHANGED <<files, service, choosing, status, commands>>

\* The user edits the settings with an editor, or a certificate file is damaged.
HandEdit(m) ==
    /\ Edit
    /\ cfg' = [cfg EXCEPT !.current.connection = m]
    /\ UNCHANGED <<files, service, choosing, status, commands>>

Damage(f) ==
    /\ Fault
    /\ files[f] = f /\ files' = [files EXCEPT ![f] = "damaged"]
    /\ UNCHANGED <<cfg, service, choosing, status, commands>>

-----------------------------------------------------------------------------
(* The session and its monitor *)

\* monitor_session reads the state again at a signal, or after two seconds; a
\* locked session, an inactive one and a failed monitor are one to the service.
WatchUnlocked ==
    /\ status # "unlocked" /\ status' = "unlocked"
    /\ UNCHANGED <<cfg, files, service, choosing, commands, counters>>

WatchLocked ==
    /\ status = "unlocked" /\ status' = "unknown" /\ Fault
    /\ UNCHANGED <<cfg, files, service, choosing, commands>>

-----------------------------------------------------------------------------
Progress(i) ==
    \/ Restart(i) \/ GiveUp(i) \/ Guard(i) \/ StartServer(i) \/ Reread(i)
    \/ Bind(i) \/ Loop(i) \/ Paused(i) \/ Unlocked(i) \/ Panic(i) \/ Connect(i) \/ Sleep(i)

Commands(i) == Command(i) \/ CommandBreaks(i) \/ Saves(i) \/ SaveRefused(i)

Choosing ==
    \/ ChooserGuards \/ ChooserStops \/ ChooserEnds
    \/ \E f \in Computers : Select(f)

Next ==
    \/ \E i \in Instances :
          \/ Progress(i) \/ Start(i) \/ Refused(i) \/ Disconnect(i)
          \/ Stop(i) \/ Fail(i) \/ Commands(i)
    \/ \E k \in Clients : Ask(k) \/ TimeOut(k)
    \/ \E f \in Computers : Import(f) \/ Damage(f)
    \/ \E m \in Connections, e \in Layouts : Save(m, e)
    \/ \E m \in Connections : HandEdit(m)
    \/ Choosing \/ WatchUnlocked \/ WatchLocked

Spec == Init /\ [][Next]_vars

\* Processes go on, a command that selects comes to its end, systemd starts what
\* failed or gives it up, the user unlocks the session in the end, the monitor
\* reads it, the selected computer is there.
Fairness ==
    /\ \A i \in Instances : WF_vars(Progress(i))
    /\ WF_vars(ChooserEnds) /\ WF_vars(WatchUnlocked)

FairSpec == Spec /\ Fairness

-----------------------------------------------------------------------------
(* Properties *)

\* The one computer the configuration allows to be connected.
Chosen == IF Saved(cfg) = {} THEN files[Legacy] ELSE Selected(cfg)

\* "Only the selected certificate is trusted by the running input transport":
\* no order of a start, a choice, an import and a crash leaves a service that
\* trusts another computer than the selected one, and there is one service.
TrustsSelected ==
    \A i \in Instances :
        trust[i] # "none" =>
            trust[i] = Chosen /\ \A j \in Instances : trust[j] # "none" => i = j

KeepsSaved ==
    \A f \in Saved(cfg) :
        /\ f \in Saved(cfg')
        /\ cfg'.paired[f].path = cfg.paired[f].path
        /\ cfg'.paired[f].name = cfg.paired[f].name
        /\ cfg.current.path # f => cfg'.paired[f] = cfg.paired[f]
        /\ cfg.current.path = f /\ cfg'.current.path # f =>
              /\ cfg'.paired[f].connection = cfg.current.connection
              /\ cfg'.paired[f].edges = cfg.current.edges
              /\ running = Chooser

\* Computers are never forgotten or mixed up: a saved computer keeps its
\* certificate and name, its settings change only while it is selected, a switch
\* leaves with it the settings in force, and only a choice switches.
SavedKept == [][KeepsSaved]_cfg

\* A client is told the truth: what was refused has not happened and never
\* will, also not when the command is still in the channel at the next
\* connection; what was done has happened.
AnswersTrue ==
    \A k \in Clients :
        /\ client[k] = "refused" => k \notin ran
        /\ client[k] = "done" => k \in ran

\* A service that is wanted connects again and again, through restarts, locks left
\* behind, a changed role, choices and lost connections.  It need not once the
\* services were stopped, while no certificate can be trusted, and once systemd has
\* given the unit up.  The last takes a burst of starts in one interval, and the
\* interval may be over before any start: a unit that can fail at every start, or
\* is not started again, is not excused.
Sharing  == \E i \in Instances : pc[i] = "connected"
Unusable == Certificate(cfg, files) = "none"
GivenUp  == pc[Unit] = "failed" /\ starts[Unit] = Burst
Ended    == \A i \in Instances : pc[i] = "stopped" \/ (i = Unit /\ GivenUp)
Serves   == []<>(Sharing \/ Unusable \/ Ended)

=============================================================================
