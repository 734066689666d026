---------------------------- MODULE TouchpadClock ----------------------------
(***************************************************************************)
(* The times a virtual touchpad of NiriBridge gives its frames             *)
(* (src/src/touchpad.rs, RemoteClock, emit, emit_remote and emit_at), in   *)
(* microseconds.  A mirror replays frames of a touchpad of this computer,  *)
(* with the kernel's own times; a receiver's touchpad replays frames of    *)
(* the other computer, whose clock is mapped to this one: the offset is    *)
(* the smallest delay seen so far.  A frame is timed twice: when its time  *)
(* is mapped (the clock is now) and when it is written (the clock is       *)
(* later).                                                                 *)
(*                                                                         *)
(* The program's 64 bit casts are exact: see Sound.                        *)
(***************************************************************************)
EXTENDS Integers

VARIABLES
    now,        \* CLOCK_MONOTONIC
    role,       \* "mirror" or "receiver"
    phase,      \* "unset": remote_clock.offset is None; "mapping": it is Some;
                \* "refused": a frame was refused, which ends the touchpad
    offset,     \* remote_clock.offset, 0 when it is None
    last,       \* remote_clock.last
    lastTime,   \* last_time: the time of the last frame that was written
    source      \* the peer's time of the last frame that was mapped

vars == <<now, role, phase, offset, last, lastTime, source>>

Late == 200000

-----------------------------------------------------------------------------
Least(a, b)    == IF a < b THEN a ELSE b
Greatest(a, b) == IF a > b THEN a ELSE b

\* RemoteClock::map.
OffsetFor(s) == IF phase = "mapping" THEN Least(offset, now - s) ELSE now - s
Mapped(s)    == Least(Greatest(Greatest(s + OffsetFor(s), 1), last), now)

\* emit_at, with the clock at later: the time that is written, if any.
InTime(time, later)  == time <= later /\ later - time <= Late
Written(time, later) == Least(Greatest(time, lastTime), later)

Init ==
    /\ now \in Nat \ {0} /\ role \in {"mirror", "receiver"} /\ phase = "unset"
    /\ offset = 0 /\ last = 0 /\ lastTime = 0 /\ source = 0

Tick ==
    /\ \E later \in Nat : later > now /\ now' = later
    /\ UNCHANGED <<role, phase, offset, last, lastTime, source>>

\* emit_remote: the clock is set even when the frame then is too late.
Remote(s, later) ==
    /\ role = "receiver" /\ phase # "refused" /\ later >= now
    /\ now' = later
    /\ offset' = OffsetFor(s) /\ last' = Mapped(s) /\ source' = s
    /\ IF InTime(Mapped(s), later)
       THEN phase' = "mapping" /\ lastTime' = Written(Mapped(s), later)
       ELSE phase' = "refused" /\ UNCHANGED lastTime
    /\ UNCHANGED role

\* A mirror's frame, of the kernel or made up now by emit; a time that is not
\* accepted ends the mirror.
Local(time, later) ==
    /\ role = "mirror" /\ phase # "refused" /\ later >= now
    /\ now' = later
    /\ IF InTime(time, later)
       THEN lastTime' = Written(time, later) /\ UNCHANGED phase
       ELSE phase' = "refused" /\ UNCHANGED lastTime
    /\ UNCHANGED <<role, offset, last, source>>

\* reset: the releases are written now, then the clock of the peer is forgotten.
Reset(later) ==
    /\ later >= now /\ later - now <= Late
    /\ now' = later
    /\ lastTime' = Written(now, later)
    /\ phase' = IF phase = "refused" THEN "refused" ELSE "unset"
    /\ offset' = 0 /\ last' = 0
    /\ UNCHANGED <<role, source>>

Next ==
    \/ Tick
    \/ \E s \in Nat, later \in Nat : Remote(s, later)
    \/ \E time \in Nat, later \in Nat : Local(time, later)
    \/ \E later \in Nat : Reset(later)

Spec == Init /\ [][Next]_vars

-----------------------------------------------------------------------------
\* Nothing is timed ahead of the clock, and the time of a mapped frame is
\* positive and at most now: the casts from the wide arithmetic lose nothing.
Sound ==
    /\ lastTime \in 0..now /\ last \in 0..now
    /\ phase = "mapping" => last \in 1..now /\ source + offset <= last

\* The offset never grows while the mapping lasts, and Sound bounds it by the
\* delay of the last frame (source + offset <= now): it is at most the delay of
\* every frame since the mapping began.
OffsetShrinks == [][phase = "mapping" /\ phase' = "mapping" => offset' <= offset]_vars

\* The mapping also agrees with what was written: between two resets a
\* receiver's touchpad is never moved by the clamp on its last time.
Inv ==
    /\ now \in Nat \ {0} /\ role \in {"mirror", "receiver"}
    /\ phase \in {"unset", "mapping", "refused"} /\ offset \in Int /\ source \in Nat
    /\ Sound
    /\ role = "mirror" => phase # "mapping"
    /\ phase = "mapping" => lastTime = last

\* The time of written frames never goes back, whatever the peer says its time
\* is and across the releases.
NeverBack == [][lastTime' >= lastTime]_vars

\* Frames keep their intervals (docs/design.md:38): one that follows another is
\* never written later after it than it happened after it, and exactly as much
\* later when the frame before came at its own time and no smaller delay was
\* seen.
Keeps(s) ==
    /\ lastTime' - lastTime <= Greatest(s - source, 0)
    /\ lastTime = source + offset /\ offset' = offset /\ s >= source
          => /\ lastTime' - lastTime = s - source
             /\ lastTime' = source' + offset'

Intervals ==
    [][\A s, later \in Nat :
          Remote(s, later) /\ phase = "mapping" /\ phase' = "mapping" => Keeps(s)]_vars

=============================================================================
