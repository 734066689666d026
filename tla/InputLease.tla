------------------------------ MODULE InputLease ------------------------------
(***************************************************************************)
(* What the injecting side of a connection promises to the desktop it      *)
(* injects into: remote input is exercised under a lease.  A session takes *)
(* the lease only on an unlocked desktop on which the injector holds       *)
(* nothing down; a key or button goes down only on behalf of the holder;   *)
(* whoever ends the lease, nothing further goes down until the next one.   *)
(* The receiver of src/src/receiver.rs implements it (module Receiver).    *)
(***************************************************************************)
CONSTANTS Codes,      \* key and button codes
          Sessions,   \* identifiers a session may have
          None        \* no session holds the lease

VARIABLES owner,      \* the session that may inject, or None
          pressed,    \* codes the injected devices hold down on the desktop
          locked      \* either desktop session is locked or unavailable

vars == <<owner, pressed, locked>>

TypeOK == /\ owner \in Sessions \cup {None}
          /\ pressed \subseteq Codes
          /\ locked \in BOOLEAN

Init == owner = None /\ pressed = {} /\ locked = FALSE

\* A session obtains the lease on a clean, unlocked desktop.
Grant(s) == /\ owner = None
            /\ ~locked
            /\ pressed = {}
            /\ owner' = s
            /\ UNCHANGED <<pressed, locked>>

\* The holder presses or releases a code.
Inject(c) == /\ owner # None
             /\ pressed' \in {pressed \cup {c}, pressed \ {c}}
             /\ UNCHANGED <<owner, locked>>

\* The lease ends.  A press whose emission reported a failure may have reached
\* the desktop all the same: it is the last effect the holder has.
Revoke(c) == /\ owner # None
             /\ owner' = None
             /\ pressed' \subseteq pressed \cup {c}
             /\ UNCHANGED locked

\* Without a holder, codes only ever come up, and the lock may change; a lock
\* change always leaves the desktop without a holder.
Settle == /\ owner' = None
          /\ pressed' \subseteq pressed
          /\ locked' \in BOOLEAN

Next == \/ \E s \in Sessions : Grant(s)
        \/ \E c \in Codes : Inject(c) \/ Revoke(c)
        \/ Settle

Spec == Init /\ [][Next]_vars
=============================================================================
