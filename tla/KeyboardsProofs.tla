--------------------------- MODULE KeyboardsProofs ---------------------------
(***************************************************************************)
(* Proofs about Keyboards, for any number of keyboards, any keys, groups   *)
(* of modifiers and bounds.  What is held on an open keyboard is what the  *)
(* monitor knows of it and what it has not read yet (Tracks); what the     *)
(* peer was told of and what it will be told is what the monitor knows     *)
(* (Told).  Both compare keys with events that are on their way, by Replay.*)
(***************************************************************************)
EXTENDS Keyboards, SequenceTheorems, TLAPS

-----------------------------------------------------------------------------
(* Where the sample is, and what follows from it *)

Situated ==
  /\ at = "select" <=> branch = "none"
  /\ at # "select" => ready
  /\ at \in {"select", "sampled", "forward"} => slot = 1
  /\ initial # {} => at = "slot" /\ fd[slot] # "closed"
  /\ batch # <<>> => at = "events"
  /\ at = "events" => fd[slot] # "closed"
  /\ at = "leave" => fd[slot] = "closed"
  /\ at = "forward" => role = "Sending" \/ pending = <<>>
  /\ role = "Sending" => branch \in {"none", "Tick"}

\* The keys of a keyboard once the sample has done what it has in its hands.
Known(d) == IF d = slot THEN Replay(devices[d] \cup initial, batch) ELSE devices[d]

\* What was not read leads from there to the keys that are held.
Tracks ==
  \A d \in Keyboards :
    /\ ~plugged[d] => down[d] = {} /\ fd[d] # "open"
    /\ fd[d] # "open" => unread[d] = <<>>
    /\ fd[d] = "open" => down[d] = Replay(Known(d), unread[d])
    /\ fd[d] = "closed" => devices[d] = {} \/ (at = "leave" /\ d = slot)

\* What waits for the peer leads from the keys it was told of to those that
\* are held as far as the monitor knows.
Told ==
  role = "Sending" =>
    /\ Replay(sourceKeys, pending) = Held(devices)
    /\ at = "select" => pending = <<>>

IInv == TypeOK /\ Situated /\ Tracks /\ Told

-----------------------------------------------------------------------------
(* Events that were replayed *)

\* Events in two parts: the second is replayed upon the first.
LEMMA ReplayParts ==
  ASSUME NEW q \in Seq(Events), NEW r \in Seq(Events), NEW keys \in SUBSET Keys
  PROVE  Replay(keys, q \o r) = Replay(Replay(keys, q), r)
<1> DEFINE m == Len(q)
           n == Len(r)
           t == q \o r
<1>1. /\ m \in Nat /\ n \in Nat /\ DOMAIN q = 1..m /\ DOMAIN r = 1..n
      /\ DOMAIN t = 1..(m + n)
      /\ \A i \in 1..m : i \in 1..(m + n) /\ t[i] = q[i]
      /\ \A i \in 1..n : m + i \in 1..(m + n) /\ t[m + i] = r[i]
      /\ \A i \in 1..(m + n) : i \in 1..m \/ (i - m \in 1..n /\ t[i] = r[i - m])
  OBVIOUS
<1> HIDE DEF m, n, t
<1>2. SUFFICES ASSUME NEW k \in Keys
               PROVE  k \in Replay(keys, t) <=> k \in Replay(Replay(keys, q), r)
  BY DEF Replay, t
<1> DEFINE press == [code |-> k, pressed |-> TRUE]
<1>3. press.code = k
  OBVIOUS
<1>4. CASE \E j \in 1..n : r[j].code = k
  <2>1. PICK j \in 1..n : r[j].code = k
    BY <1>4
  <2> HIDE DEF press
  <2>2. k \in Replay(Replay(keys, q), r)
          <=> \E i \in 1..n : r[i] = press /\ \A l \in 1..n : l > i => r[l].code # k
    BY <1>1, <2>1 DEF Replay, press
  <2>3. k \in Replay(keys, t)
          <=> \E i \in 1..(m + n) : t[i] = press /\ \A l \in 1..(m + n) : l > i => t[l].code # k
    BY <1>1, <2>1 DEF Replay, press
  <2>4. ASSUME NEW i \in 1..n, r[i] = press, \A l \in 1..n : l > i => r[l].code # k
        PROVE  /\ m + i \in 1..(m + n) /\ t[m + i] = press
               /\ \A l \in 1..(m + n) : l > m + i => t[l].code # k
    <3>1. ASSUME NEW l \in 1..(m + n), l > m + i PROVE t[l].code # k
      <4>1. l - m \in 1..n /\ t[l] = r[l - m] /\ l - m > i
        BY <1>1, <3>1
      <4> QED  BY <2>4, <4>1
    <3> QED  BY <1>1, <2>4, <3>1
  <2>5. ASSUME NEW i \in 1..(m + n), t[i] = press, \A l \in 1..(m + n) : l > i => t[l].code # k
        PROVE  /\ i - m \in 1..n /\ r[i - m] = press
               /\ \A l \in 1..n : l > i - m => r[l].code # k
    <3>1. ~(m + j > i)
      BY <1>1, <2>1, <2>5
    <3>2. i - m \in 1..n /\ t[i] = r[i - m]
      BY <1>1, <3>1
    <3>3. ASSUME NEW l \in 1..n, l > i - m PROVE r[l].code # k
      <4>1. m + l \in 1..(m + n) /\ t[m + l] = r[l] /\ m + l > i
        BY <1>1, <3>3
      <4> QED  BY <2>5, <4>1
    <3> QED
      BY <2>5, <3>2, <3>3
  <2> QED
    BY <2>2, <2>3, <2>4, <2>5
<1>5. CASE \A j \in 1..n : r[j].code # k
  <2>1. k \in Replay(Replay(keys, q), r) <=> k \in Replay(keys, q)
    <3>1. \A j \in 1..n : r[j] # press
      BY <1>3, <1>5
    <3> QED  BY <1>1, <1>5, <3>1 DEF Replay
  <2>2. \A i \in 1..(m + n) : t[i].code = k => i \in 1..m
    BY <1>1, <1>5
  <2>3. k \in Replay(keys, t) <=> k \in Replay(keys, q)
    <3>1. (\A i \in 1..(m + n) : t[i].code # k) <=> (\A i \in 1..m : q[i].code # k)
      BY <1>1, <2>2
    <3>2. ASSUME NEW i \in 1..(m + n), t[i] = press,
                 \A l \in 1..(m + n) : l > i => t[l].code # k
          PROVE  i \in 1..m /\ q[i] = press /\ \A l \in 1..m : l > i => q[l].code # k
      BY <1>1, <1>3, <2>2, <3>2
    <3>3. ASSUME NEW i \in 1..m, q[i] = press, \A l \in 1..m : l > i => q[l].code # k
          PROVE  /\ i \in 1..(m + n) /\ t[i] = press
                 /\ \A l \in 1..(m + n) : l > i => t[l].code # k
      BY <1>1, <2>2, <3>3
    <3> HIDE DEF press
    <3>4. k \in Replay(keys, t)
            <=> \/ k \in keys /\ \A i \in 1..(m + n) : t[i].code # k
                \/ \E i \in 1..(m + n) : t[i] = press /\ \A l \in 1..(m + n) : l > i => t[l].code # k
      BY <1>1 DEF Replay, press
    <3>5. k \in Replay(keys, q)
            <=> \/ k \in keys /\ \A i \in 1..m : q[i].code # k
                \/ \E i \in 1..m : q[i] = press /\ \A l \in 1..m : l > i => q[l].code # k
      BY <1>1 DEF Replay, press
    <3> QED  BY <3>1, <3>2, <3>3, <3>4, <3>5
  <2> QED
    BY <2>1, <2>3
<1> QED
  BY <1>4, <1>5

LEMMA ReplayType ==
  ASSUME NEW keys, NEW q
  PROVE  Replay(keys, q) \in SUBSET Keys
BY DEF Replay

LEMMA ApplyType ==
  ASSUME NEW keys \in SUBSET Keys, NEW e \in Events
  PROVE  Apply(keys, e) \in SUBSET Keys
BY DEF Apply, Events

LEMMA ReplayEmpty ==
  ASSUME NEW keys \in SUBSET Keys
  PROVE  Replay(keys, <<>>) = keys
<1>1. DOMAIN <<>> = {}
  OBVIOUS
<1> QED  BY <1>1 DEF Replay

\* One event is replayed as it is applied.
LEMMA ReplayOne ==
  ASSUME NEW e \in Events, NEW keys \in SUBSET Keys
  PROVE  Replay(keys, <<e>>) = Apply(keys, e)
<1> DEFINE q == <<e>>
<1>1. DOMAIN q = {1} /\ q[1] = e
  OBVIOUS
<1>2. e = [code |-> e.code, pressed |-> e.pressed] /\ e.pressed \in BOOLEAN /\ e.code \in Keys
  BY DEF Events
<1> HIDE DEF q
<1>3. \A k \in Keys : k \in Replay(keys, q)
                        <=> \/ k \in keys /\ e.code # k
                            \/ e = [code |-> k, pressed |-> TRUE]
  BY <1>1 DEF Replay
<1>4. \A k \in Keys : e = [code |-> k, pressed |-> TRUE] <=> k = e.code /\ e.pressed
  BY <1>2
<1>5. \A k \in Keys : k \in Replay(keys, q) <=> k \in Apply(keys, e)
  BY <1>3, <1>4 DEF Apply
<1>6. Apply(keys, e) \in SUBSET Keys
  BY ApplyType
<1>7. Replay(keys, q) \in SUBSET Keys
  BY ReplayType
<1> QED  BY <1>5, <1>6, <1>7 DEF q

\* An event at the end is applied last.
LEMMA ReplayAppend ==
  ASSUME NEW q \in Seq(Events), NEW e \in Events, NEW keys \in SUBSET Keys
  PROVE  Replay(keys, Append(q, e)) = Apply(Replay(keys, q), e)
<1>1. Append(q, e) = q \o <<e>> /\ <<e>> \in Seq(Events)
  BY AppendIsConcat
<1>2. Replay(keys, q \o <<e>>) = Replay(Replay(keys, q), <<e>>)
  BY <1>1, ReplayParts
<1>3. Replay(Replay(keys, q), <<e>>) = Apply(Replay(keys, q), e)
  BY ReplayOne, ReplayType
<1> QED  BY <1>1, <1>2, <1>3, Zenon

\* The event at the head is applied first.
LEMMA ReplayFirst ==
  ASSUME NEW q \in Seq(Events), q # <<>>, NEW keys \in SUBSET Keys
  PROVE  Replay(keys, q) = Replay(Apply(keys, Head(q)), Tail(q))
<1>1. /\ Head(q) \in Events /\ Tail(q) \in Seq(Events) /\ <<Head(q)>> \in Seq(Events)
      /\ q = <<Head(q)>> \o Tail(q)
  OBVIOUS
<1>2. Replay(keys, <<Head(q)>> \o Tail(q)) = Replay(Replay(keys, <<Head(q)>>), Tail(q))
  BY <1>1, ReplayParts
<1>3. Replay(keys, <<Head(q)>>) = Apply(keys, Head(q))
  BY <1>1, ReplayOne
<1> QED  BY <1>1, <1>2, <1>3, Zenon

\* A prefix is read first.
LEMMA ReplayPrefix ==
  ASSUME NEW q \in Seq(Events), NEW n \in 1..Len(q), NEW keys \in SUBSET Keys
  PROVE  /\ SubSeq(q, 1, n) \in Seq(Events) /\ SubSeq(q, n + 1, Len(q)) \in Seq(Events)
         /\ SubSeq(q, 1, n) # <<>>
         /\ Replay(keys, q)
              = Replay(Replay(keys, SubSeq(q, 1, n)), SubSeq(q, n + 1, Len(q)))
<1>1. /\ SubSeq(q, 1, n) \in Seq(Events) /\ SubSeq(q, n + 1, Len(q)) \in Seq(Events)
      /\ Len(SubSeq(q, 1, n)) = n
  OBVIOUS
<1>2. q = SubSeq(q, 1, n) \o SubSeq(q, n + 1, Len(q))
  OBVIOUS
<1>3. SubSeq(q, 1, n) # <<>>
  BY <1>1
<1>4. Replay(keys, SubSeq(q, 1, n) \o SubSeq(q, n + 1, Len(q)))
        = Replay(Replay(keys, SubSeq(q, 1, n)), SubSeq(q, n + 1, Len(q)))
  BY <1>1, ReplayParts, Zenon
<1> QED  BY <1>1, <1>2, <1>3, <1>4, Zenon

-----------------------------------------------------------------------------
(* What PhysicalKeys::update does to what is held *)

\* The keys that are held follow the events that are made for the peer.
LEMMA UpdateHeld ==
  ASSUME TypeOK, NEW e \in Events
  PROVE  /\ After(e) \in [Keyboards -> SUBSET Keys]
         /\ Held(devices) \in SUBSET Keys
         /\ Changes(e) => Held(After(e)) = Apply(Held(devices), e)
         /\ ~Changes(e) => Held(After(e)) = Held(devices)
<1>1. slot \in Keyboards /\ devices \in [Keyboards -> SUBSET Keys]
  BY DEF TypeOK
<1>2. /\ After(e) \in [Keyboards -> SUBSET Keys]
      /\ \A d \in Keyboards \ {slot} : After(e)[d] = devices[d]
      /\ After(e)[slot] = Apply(devices[slot], e)
  BY <1>1, ApplyType DEF After
<1>3. \A k : k # e.code => (k \in Held(After(e)) <=> k \in Held(devices))
  BY <1>1, <1>2 DEF Held, Apply
<1>4. e.pressed => e.code \in Held(After(e))
  BY <1>1, <1>2 DEF Held, Apply
<1>5. ~e.pressed /\ e.code \in Held(After(e)) => e.code \in Held(devices)
  BY <1>1, <1>2 DEF Held, Apply
<1>6. Held(devices) \in SUBSET Keys
  BY <1>1 DEF Held
<1>7. CASE Changes(e)
  <2>1. e.pressed <=> e.code \in Held(After(e))
    BY <1>4, <1>5, <1>7 DEF Changes
  <2>2. \A k : k \in Held(After(e)) <=> k \in Apply(Held(devices), e)
    BY <1>3, <1>7, <2>1 DEF Apply, Changes
  <2> QED  BY <1>2, <1>6, <1>7, <2>2
<1>8. CASE ~Changes(e)
  <2>1. \A k : k \in Held(After(e)) <=> k \in Held(devices)
    BY <1>3, <1>8 DEF Changes
  <2> QED  BY <1>2, <1>6, <1>8, <2>1
<1> QED  BY <1>7, <1>8

LEMMA KnownType ==
  ASSUME TypeOK, NEW d \in Keyboards
  PROVE  Known(d) \in SUBSET Keys
BY ReplayType DEF Known, TypeOK

\* Between two slots the monitor knows what devices says.
LEMMA KnownAtRest ==
  ASSUME TypeOK, initial = {}, batch = <<>>, NEW d \in Keyboards
  PROVE  Known(d) = devices[d]
BY ReplayEmpty DEF Known, TypeOK

-----------------------------------------------------------------------------
(* The user and the kernel *)

LEMMA TypeStep ==
  ASSUME IInv, NEW d \in Keyboards, NEW e \in Events, Type(d, e)
  PROVE  IInv'
<1> USE DEF IInv
<1>1. TypeOK'
  <2>1. Apply(down[d], e) \in SUBSET Keys
    BY ApplyType DEF TypeOK
  <2>2. Append(unread[d], e) \in Seq(Events)
    BY DEF TypeOK
  <2> QED  BY <2>1, <2>2 DEF Type, TypeOK, monitor, session, sample
<1>2. Situated'
  BY DEF Type, Situated, monitor, session, sample
<1>3. Tracks'
  <2>1. \A k \in Keyboards : Known(k)' = Known(k)
    BY DEF Type, Known, monitor, sample
  <2>2. ASSUME fd[d] = "open" PROVE down'[d] = Replay(Known(d), unread'[d])
    <3>1. unread[d] \in Seq(Events) /\ Known(d) \in SUBSET Keys
      BY KnownType DEF TypeOK
    <3>2. Replay(Known(d), Append(unread[d], e)) = Apply(Replay(Known(d), unread[d]), e)
      BY <3>1, ReplayAppend
    <3>3. unread'[d] = Append(unread[d], e) /\ down'[d] = Apply(down[d], e)
      BY <2>2 DEF Type, TypeOK
    <3> QED  BY <2>2, <3>2, <3>3 DEF Tracks
  <2> QED  BY <2>1, <2>2 DEF Type, TypeOK, Tracks, monitor, sample
<1>4. Told'
  BY DEF Type, Told, monitor, session, sample
<1> QED  BY <1>1, <1>2, <1>3, <1>4

LEMMA UnplugStep ==
  ASSUME IInv, NEW d \in Keyboards, Unplug(d)
  PROVE  IInv'
<1> USE DEF IInv
<1>1. TypeOK'
  BY DEF Unplug, TypeOK, monitor, session, sample
<1>2. Situated'
  BY DEF Unplug, Situated, TypeOK, monitor, session, sample
<1>3. Tracks'
  <2>1. \A k \in Keyboards : Known(k)' = Known(k)
    BY DEF Unplug, Known, monitor, sample
  <2> QED  BY <2>1 DEF Unplug, TypeOK, Tracks, monitor, sample
<1>4. Told'
  BY DEF Unplug, Told, monitor, session, sample
<1> QED  BY <1>1, <1>2, <1>3, <1>4

LEMMA PlugStep ==
  ASSUME IInv, NEW d \in Keyboards, Plug(d)
  PROVE  IInv'
<1> USE DEF IInv
<1>1. TypeOK'
  BY DEF Plug, TypeOK, monitor, session, sample
<1>2. Situated'
  BY DEF Plug, Situated, monitor, session, sample
<1>3. Tracks'
  <2>1. \A k \in Keyboards : Known(k)' = Known(k)
    BY DEF Plug, Known, monitor, sample
  <2> QED  BY <2>1 DEF Plug, TypeOK, Tracks, monitor, sample
<1>4. Told'
  BY DEF Plug, Told, monitor, session, sample
<1> QED  BY <1>1, <1>2, <1>3, <1>4

-----------------------------------------------------------------------------
(* The sample *)

\* The next slot, or none is left.
LEMMA NextSlotType ==
  ASSUME TypeOK, NextSlot
  PROVE  /\ slot' \in Keyboards
         /\ at' = "slot" \/ (at' = "sampled" /\ slot' = 1)
BY BoundsAssumption DEF TypeOK, NextSlot, Keyboards

\* The sample moves on with nothing in its hands.
LEMMA MovesOn ==
  ASSUME IInv, UNCHANGED <<hardware, unread, fd, devices>>,
         initial = {}, batch = <<>>, initial' = {}, batch' = <<>>, slot' \in Keyboards,
         at = "leave" => devices[slot] = {}
  PROVE  Tracks'
<1>1. \A d \in Keyboards : Known(d) = devices[d]
  BY KnownAtRest DEF IInv
<1>2. \A d \in Keyboards : Known(d)' = devices[d]
  BY ReplayEmpty DEF IInv, TypeOK, Known
<1> QED  BY <1>1, <1>2 DEF IInv, Tracks, hardware

LEMMA AbsentStep == ASSUME IInv, Absent PROVE IInv'
<1> USE DEF IInv, Absent
<1>1. TypeOK'
  BY NextSlotType DEF TypeOK, hardware, monitor, session
<1>2. initial = {} /\ batch = <<>> /\ at # "leave"
  BY DEF Situated
<1>3. Situated'
  BY <1>2, NextSlotType DEF Situated, hardware, monitor, session
<1>4. Tracks'
  BY <1>1, <1>2, MovesOn DEF TypeOK, monitor
<1>5. Told'
  BY NextSlotType DEF Told, monitor, session
<1> QED  BY <1>1, <1>3, <1>4, <1>5

LEMMA WouldBlockStep == ASSUME IInv, WouldBlock PROVE IInv'
<1> USE DEF IInv, WouldBlock
<1>1. TypeOK'
  BY NextSlotType DEF TypeOK, hardware, monitor, session
<1>2. initial = {} /\ batch = <<>> /\ at # "leave"
  BY DEF Situated
<1>3. Situated'
  BY <1>2, NextSlotType DEF Situated, hardware, monitor, session
<1>4. Tracks'
  BY <1>1, <1>2, MovesOn DEF TypeOK, monitor
<1>5. Told'
  BY NextSlotType DEF Told, monitor, session
<1> QED  BY <1>1, <1>3, <1>4, <1>5

LEMMA SlotDoneStep == ASSUME IInv, SlotDone PROVE IInv'
<1> USE DEF IInv, SlotDone
<1>1. TypeOK'
  BY NextSlotType DEF TypeOK, hardware, monitor, session
<1>2. initial = {} /\ batch = <<>> /\ (at = "leave" => devices[slot] = {})
  BY DEF Situated
<1>3. Situated'
  BY <1>2, NextSlotType DEF Situated, hardware, monitor, session
<1>4. Tracks'
  BY <1>1, <1>2, MovesOn DEF TypeOK, monitor
<1>5. Told'
  BY NextSlotType DEF Told, monitor, session
<1> QED  BY <1>1, <1>3, <1>4, <1>5

\* The key state is all that is known of a device that was just opened.
LEMMA OpenStep == ASSUME IInv, Open PROVE IInv'
<1> USE DEF IInv, Open
<1>1. TypeOK'
  BY DEF TypeOK, hardware, monitor, session
<1>2. slot \in Keyboards /\ batch = <<>> /\ initial = {} /\ fd[slot] = "closed"
      /\ down[slot] \in SUBSET Keys
  BY DEF TypeOK, Situated
<1>3. Situated'
  BY <1>2 DEF TypeOK, Situated, hardware, monitor, session
<1>4. Tracks'
  <2>1. devices[slot] = {} /\ unread[slot] = <<>>
    BY <1>2 DEF Tracks
  <2>2. Known(slot)' = Replay(down[slot], <<>>)
    BY <1>2, <2>1 DEF Known, monitor
  <2>3. Replay(Replay(down[slot], <<>>), <<>>) = down[slot]
    BY <1>2, ReplayEmpty
  <2>4. \A d \in Keyboards \ {slot} : Known(d)' = Known(d)
    BY DEF Known, monitor
  <2> QED  BY <1>2, <2>1, <2>2, <2>3, <2>4 DEF Tracks, TypeOK, hardware, monitor
<1>5. Told'
  BY DEF Told, monitor, session
<1> QED  BY <1>1, <1>3, <1>4, <1>5

\* What was read leads to what is left to read.
LEMMA FetchStep == ASSUME IInv, Fetch PROVE IInv'
<1> USE DEF IInv
<1>1. PICK n \in 1..Len(unread[slot]) :
        /\ batch' = SubSeq(unread[slot], 1, n)
        /\ unread' = [unread EXCEPT ![slot] = SubSeq(@, n + 1, Len(@))]
  BY DEF Fetch
<1>2. slot \in Keyboards /\ unread[slot] \in Seq(Events) /\ devices[slot] \in SUBSET Keys
      /\ initial = {} /\ batch = <<>>
  BY DEF Fetch, TypeOK, Situated
<1> DEFINE rest == SubSeq(unread[slot], n + 1, Len(unread[slot]))
<1>3. /\ batch' \in Seq(Events) /\ batch' # <<>> /\ rest \in Seq(Events)
      /\ Replay(devices[slot], unread[slot]) = Replay(Replay(devices[slot], batch'), rest)
  BY <1>1, <1>2, ReplayPrefix
<1>4. unread' = [unread EXCEPT ![slot] = rest]
  BY <1>1
<1> HIDE DEF rest
<1>5. TypeOK'
  BY <1>3, <1>4 DEF Fetch, TypeOK, hardware, monitor, session
<1>6. Situated'
  BY <1>3 DEF Fetch, Situated, hardware, monitor, session
<1>7. Tracks'
  <2>1. Known(slot) = devices[slot]
    BY <1>2, KnownAtRest
  <2>2. Known(slot)' = Replay(devices[slot], batch')
    BY <1>2 DEF Fetch, Known, monitor
  <2>3. \A d \in Keyboards \ {slot} : Known(d)' = Known(d) /\ unread'[d] = unread[d]
    BY <1>4 DEF Fetch, Known, TypeOK, monitor
  <2>4. unread'[slot] = rest
    BY <1>2, <1>4 DEF TypeOK
  <2> QED  BY <1>2, <1>3, <2>1, <2>2, <2>3, <2>4 DEF Fetch, Tracks, hardware, monitor
<1>8. Told'
  BY DEF Fetch, Told, monitor, session
<1> QED  BY <1>5, <1>6, <1>7, <1>8

LEMMA GoneStep == ASSUME IInv, Gone PROVE IInv'
<1> USE DEF IInv, Gone
<1>1. TypeOK'
  BY DEF TypeOK, hardware, monitor, session
<1>2. Situated'
  BY DEF TypeOK, Situated, hardware, monitor, session
<1>3. Tracks'
  <2>1. \A d \in Keyboards : Known(d)' = Known(d)
    BY DEF Known, monitor
  <2> QED  BY <2>1 DEF TypeOK, Tracks, hardware, monitor
<1>4. Told'
  BY DEF Told, monitor, session
<1> QED  BY <1>1, <1>2, <1>3, <1>4

\* Nothing is known, and nothing is promised, once the connection is gone.
LEMMA TearDownStep == ASSUME IInv, TearDown PROVE IInv'
<1> USE DEF IInv, TearDown, Suspend, Select
<1>1. TypeOK'
  <2>1. 1 \in Keyboards /\ <<>> \in Seq(Events) /\ Len(<<>>) <= PendingLimit
    BY BoundsAssumption DEF Keyboards
  <2>2. /\ fd' \in [Keyboards -> {"closed", "open", "gone"}]
        /\ unread' \in [Keyboards -> Seq(Events)]
        /\ devices' \in [Keyboards -> SUBSET Keys]
    BY <2>1
  <2> QED  BY <2>1, <2>2 DEF TypeOK, hardware
<1>2. Situated'
  BY DEF Situated
<1>3. Tracks'
  BY DEF TypeOK, Tracks, hardware
<1>4. Told'
  BY DEF Told
<1> QED  BY <1>1, <1>2, <1>3, <1>4

\* One event of what the sample has in its hands: it goes from there to
\* devices, and from devices to the peer.
LEMMA UpdateStep ==
  ASSUME IInv, NEW e \in Events, UpdateKeys(e), ~TearDown
  PROVE  IInv'
<1> USE DEF IInv
<1>0. /\ Updating(e) /\ ~(Changes(e) /\ Len(pending) >= PendingLimit)
      /\ Update(e) /\ initial' = initial \ {e.code}
      /\ batch' = IF at = "events" THEN Tail(batch) ELSE batch
      /\ UNCHANGED <<hardware, unread, fd, ready, session, at, branch, slot, active>>
  BY DEF UpdateKeys
<1>1. /\ slot \in Keyboards /\ devices \in [Keyboards -> SUBSET Keys]
      /\ batch \in Seq(Events) /\ pending \in Seq(Events) /\ initial \in SUBSET Keys
      /\ devices[slot] \in SUBSET Keys /\ sourceKeys \in SUBSET Keys
  BY DEF TypeOK
<1>2. /\ devices' = After(e)
      /\ pending' = IF Changes(e) THEN Append(pending, e) ELSE pending
      /\ devices'[slot] = Apply(devices[slot], e)
      /\ \A d \in Keyboards \ {slot} : devices'[d] = devices[d]
  BY <1>0, <1>1 DEF Update, After
<1>3. batch' \in Seq(Events) /\ (batch' # <<>> => at = "events")
  <2>1. CASE at = "events"
    BY <1>0, <1>1, <2>1, HeadTailProperties DEF Updating
  <2>2. CASE at # "events"
    BY <1>0, <1>1, <2>2 DEF Situated
  <2> QED  BY <2>1, <2>2
<1>4. TypeOK'
  <2>1. devices' \in [Keyboards -> SUBSET Keys]
    BY <1>2, UpdateHeld
  <2>2. pending' \in Seq(Events) /\ Len(pending') <= PendingLimit
    <3>1. CASE Changes(e)
      <4>1. Len(pending) < PendingLimit
        BY <1>0, <1>1, <3>1, BoundsAssumption
      <4>2. Len(Append(pending, e)) = Len(pending) + 1 /\ Append(pending, e) \in Seq(Events)
        BY <1>1
      <4> QED  BY <1>1, <1>2, <3>1, <4>1, <4>2, BoundsAssumption
    <3>2. CASE ~Changes(e)
      BY <1>2, <3>2 DEF TypeOK
    <3> QED  BY <3>1, <3>2
  <2> QED  BY <1>0, <1>3, <2>1, <2>2 DEF TypeOK, hardware, session
<1>5. at \in {"slot", "events", "leave"}
  BY <1>0 DEF Updating
<1>6. Situated'
  BY <1>0, <1>3, <1>5 DEF Situated, session
<1>7. Tracks'
  <2>1. at # "leave" => Known(slot)' = Known(slot)
    <3>1. CASE at = "slot"
      <4>1. /\ batch = <<>> /\ batch' = <<>> /\ e.code \in initial
            /\ devices'[slot] = devices[slot] \cup {e.code}
        BY <1>0, <1>2, <3>1 DEF Updating, Least, Situated, Apply
      <4>2. devices'[slot] \cup initial' = devices[slot] \cup initial
        BY <1>0, <4>1
      <4> QED  BY <1>0, <4>1, <4>2 DEF Known
    <3>2. CASE at = "events"
      <4>1. initial = {} /\ initial' = {} /\ batch # <<>> /\ e = Head(batch)
            /\ batch' = Tail(batch)
        BY <1>0, <3>2 DEF Updating, Situated
      <4>2. Known(slot) = Replay(devices[slot], batch)
        BY <4>1 DEF Known
      <4>3. Known(slot)' = Replay(Apply(devices[slot], Head(batch)), Tail(batch))
        BY <1>0, <1>2, <4>1 DEF Known
      <4> QED  BY <1>1, <4>1, <4>2, <4>3, ReplayFirst
    <3> QED  BY <1>5, <3>1, <3>2
  <2>2. \A d \in Keyboards \ {slot} : Known(d)' = Known(d)
    BY <1>0, <1>2 DEF Known
  <2>3. at = "leave" => fd[slot] = "closed"
    BY DEF Situated
  <2>4. fd[slot] = "closed" => at = "leave"
    BY <1>0 DEF Updating, Least, Situated
  <2> QED  BY <1>0, <1>1, <1>2, <2>1, <2>2, <2>3, <2>4 DEF Tracks, hardware
<1>8. Told'
  <2>1. SUFFICES ASSUME role = "Sending"
                 PROVE  Replay(sourceKeys, pending') = Held(devices')
    BY <1>0, <1>5 DEF Told, session
  <2>2. Replay(sourceKeys, pending) = Held(devices)
    BY <2>1 DEF Told
  <2>3. CASE Changes(e)
    <3>1. Replay(sourceKeys, Append(pending, e)) = Apply(Held(devices), e)
      BY <1>1, <2>2, ReplayAppend
    <3> QED  BY <1>2, <2>3, <3>1, UpdateHeld
  <2>4. CASE ~Changes(e)
    BY <1>2, <2>2, <2>4, UpdateHeld
  <2> QED  BY <2>3, <2>4
<1> QED  BY <1>4, <1>6, <1>7, <1>8

-----------------------------------------------------------------------------
(* The coordinator *)

LEMMA SampleStep == ASSUME IInv, NEW b \in {"Tick", "Started", "Begin", "Input"}, Sample(b),
                           b # "Tick" => role # "Sending"
                    PROVE  IInv'
<1> USE DEF IInv, Sample
<1>1. TypeOK'
  BY DEF TypeOK, hardware, monitor, session
<1>2. initial = {} /\ batch = <<>>
  BY DEF Situated
<1>3. Situated'
  BY <1>2 DEF Situated, hardware, monitor, session
<1>4. Tracks'
  BY <1>1, <1>2, MovesOn DEF TypeOK, monitor
<1>5. Told'
  BY DEF Told, monitor, session
<1> QED  BY <1>1, <1>3, <1>4, <1>5

LEMMA TickSampledStep == ASSUME IInv, TickSampled PROVE IInv'
<1> USE DEF IInv, TickSampled, Select
<1>1. 1 \in Keyboards /\ <<>> \in Seq(Events) /\ Len(<<>>) <= PendingLimit
  BY BoundsAssumption DEF Keyboards
<1>2. initial = {} /\ batch = <<>> /\ slot = 1
  BY DEF Situated
<1>3. TypeOK'
  BY <1>1, <1>2 DEF TypeOK, hardware
<1>4. Situated'
  BY <1>2 DEF Situated, hardware
<1>5. Tracks'
  BY <1>2, <1>3, MovesOn DEF TypeOK
<1>6. Told'
  BY DEF Told
<1> QED  BY <1>3, <1>4, <1>5, <1>6

\* The peer is told of the first event, unless it completes the chord.
LEMMA ForwardStep == ASSUME IInv, Forward PROVE IInv'
<1> USE DEF IInv
<1>1. /\ pending \in Seq(Events) /\ pending # <<>> /\ Head(pending) \in Events
      /\ Tail(pending) \in Seq(Events) /\ Len(Tail(pending)) <= PendingLimit
      /\ <<>> \in Seq(Events) /\ Len(<<>>) <= PendingLimit
      /\ sourceKeys \in SUBSET Keys
  <2>1. Len(Tail(pending)) = Len(pending) - 1 /\ Len(pending) \in Nat
    BY DEF Forward, TypeOK
  <2> QED  BY <2>1, BoundsAssumption DEF Forward, TypeOK
<1>2. role = "Sending"
  BY DEF Forward, Situated
<1>3. Apply(sourceKeys, Head(pending)) \in SUBSET Keys
  BY <1>1, ApplyType
<1>4. CASE role' = "Local" /\ pending' = <<>> /\ sourceKeys' = {}
  <2>1. TypeOK'
    BY <1>1, <1>4 DEF Forward, TypeOK, hardware, sample
  <2>2. Situated'
    BY <1>4 DEF Forward, Situated, sample
  <2>3. Tracks'
    <3>1. \A d \in Keyboards : Known(d)' = Known(d)
      BY DEF Forward, Known, sample
    <3> QED  BY <3>1 DEF Forward, Tracks, hardware, sample
  <2>4. Told'
    BY <1>4 DEF Told
  <2> QED  BY <2>1, <2>2, <2>3, <2>4
<1>5. CASE /\ pending' = Tail(pending) /\ role' = role
           /\ sourceKeys' = Apply(sourceKeys, Head(pending))
  <2>1. TypeOK'
    BY <1>1, <1>3, <1>5 DEF Forward, TypeOK, hardware, sample
  <2>2. Situated'
    BY <1>2, <1>5 DEF Forward, Situated, sample
  <2>3. Tracks'
    <3>1. \A d \in Keyboards : Known(d)' = Known(d)
      BY DEF Forward, Known, sample
    <3> QED  BY <3>1 DEF Forward, Tracks, hardware, sample
  <2>4. Told'
    <3>1. Replay(sourceKeys, pending) = Replay(sourceKeys', pending')
      BY <1>1, <1>5, ReplayFirst
    <3> QED  BY <1>2, <3>1 DEF Forward, Told, Held, sample
  <2> QED  BY <2>1, <2>2, <2>3, <2>4
<1> QED  BY <1>4, <1>5 DEF Forward

LEMMA TickEndsStep == ASSUME IInv, TickEnds PROVE IInv'
<1> USE DEF IInv, TickEnds, Select
<1>1. 1 \in Keyboards /\ <<>> \in Seq(Events)
  BY BoundsAssumption DEF Keyboards
<1>2. initial = {} /\ batch = <<>>
  BY DEF Situated
<1>3. TypeOK'
  BY <1>1 DEF TypeOK, hardware, monitor, session
<1>4. Situated'
  BY DEF Situated, hardware, monitor, session
<1>5. Tracks'
  BY <1>2, <1>3, MovesOn DEF TypeOK, monitor
<1>6. Told'
  BY DEF Told, monitor, session
<1> QED  BY <1>3, <1>4, <1>5, <1>6

\* A session starts with what the monitor knows, and nothing is left to tell.
LEMMA StartedSampledStep == ASSUME IInv, StartedSampled PROVE IInv'
<1> USE DEF IInv, StartedSampled, Select
<1>1. 1 \in Keyboards /\ <<>> \in Seq(Events) /\ Len(<<>>) <= PendingLimit
  BY BoundsAssumption DEF Keyboards
<1>2. initial = {} /\ batch = <<>> /\ role # "Sending"
  BY DEF Situated
<1>3. Held(devices) \in SUBSET Keys
  BY DEF Held, TypeOK
<1>4. TypeOK'
  BY <1>1, <1>3 DEF TypeOK, hardware, session
<1>5. Situated'
  BY DEF Situated, hardware
<1>6. Tracks'
  BY <1>2, <1>4, MovesOn DEF TypeOK
<1>7. Told'
  <2>1. ASSUME role' = "Sending" PROVE sourceKeys' = Held(devices)
    BY <1>2, <2>1 DEF session
  <2>2. Replay(Held(devices), <<>>) = Held(devices)
    BY <1>3, ReplayEmpty
  <2> QED  BY <2>1, <2>2 DEF Told, Held
<1> QED  BY <1>4, <1>5, <1>6, <1>7

LEMMA PeerSampledStep == ASSUME IInv, PeerSampled PROVE IInv'
<1> USE DEF IInv, PeerSampled, Select
<1>1. 1 \in Keyboards /\ <<>> \in Seq(Events)
  BY BoundsAssumption DEF Keyboards
<1>2. initial = {} /\ batch = <<>>
  BY DEF Situated
<1>3. TypeOK'
  BY <1>1 DEF TypeOK, hardware, monitor
<1>4. Situated'
  BY DEF Situated, hardware, monitor
<1>5. Tracks'
  BY <1>2, <1>3, MovesOn DEF TypeOK, monitor
<1>6. Told'
  BY DEF Told
<1> QED  BY <1>3, <1>4, <1>5, <1>6

\* A session ends, or both sides are unlocked: the monitor does not notice.
LEMMA RestStep == ASSUME IInv, SessionEnds \/ Unlock PROVE IInv'
<1> USE DEF IInv, SessionEnds, Unlock
<1>1. TypeOK'
  BY DEF TypeOK, hardware, monitor, session, sample
<1>2. initial = {} /\ batch = <<>> /\ at = "select"
  BY DEF Situated
<1>3. Situated'
  BY <1>2 DEF Situated, hardware, monitor, session, sample
<1>4. Tracks'
  BY <1>1, <1>2, MovesOn DEF TypeOK, monitor, sample
<1>5. Told'
  BY DEF Told, monitor, session, sample
<1> QED  BY <1>1, <1>3, <1>4, <1>5

LEMMA LockStep == ASSUME IInv, Lock PROVE IInv'
<1> USE DEF IInv, Lock, Suspend
<1>1. TypeOK'
  <2>1. <<>> \in Seq(Events) /\ Len(<<>>) <= PendingLimit
    BY BoundsAssumption
  <2>2. /\ fd' \in [Keyboards -> {"closed", "open", "gone"}]
        /\ unread' \in [Keyboards -> Seq(Events)]
        /\ devices' \in [Keyboards -> SUBSET Keys]
    BY <2>1
  <2> QED  BY <2>1, <2>2 DEF TypeOK, hardware, sample
<1>2. Situated'
  BY DEF Situated, sample
<1>3. Tracks'
  BY DEF TypeOK, Tracks, hardware, sample
<1>4. Told'
  BY DEF Told
<1> QED  BY <1>1, <1>2, <1>3, <1>4

-----------------------------------------------------------------------------
(* The theorems *)

LEMMA InitIInv == Init => IInv
<1> SUFFICES ASSUME Init PROVE IInv
  OBVIOUS
<1>1. TypeOK
  <2>1. 1 \in Keyboards /\ <<>> \in Seq(Events) /\ Len(<<>>) <= PendingLimit
    BY BoundsAssumption DEF Keyboards
  <2>2. /\ down \in [Keyboards -> SUBSET Keys] /\ plugged \in [Keyboards -> BOOLEAN]
        /\ unread \in [Keyboards -> Seq(Events)]
        /\ fd \in [Keyboards -> {"closed", "open", "gone"}]
        /\ devices \in [Keyboards -> SUBSET Keys]
    BY <2>1 DEF Init
  <2> QED  BY <2>1, <2>2 DEF Init, TypeOK
<1>2. Situated
  BY DEF Init, Situated
<1>3. Tracks
  BY DEF Init, Tracks
<1>4. Told
  BY DEF Init, Told
<1> QED  BY <1>1, <1>2, <1>3, <1>4 DEF IInv

LEMMA NextStep == IInv /\ [Next]_vars => IInv'
<1> SUFFICES ASSUME IInv, [Next]_vars PROVE IInv'
  OBVIOUS
<1>1. CASE User
  BY <1>1, TypeStep, UnplugStep, PlugStep DEF User
<1>2. CASE Absent \/ Open \/ Fetch \/ WouldBlock \/ Gone \/ SlotDone
  BY <1>2, AbsentStep, OpenStep, FetchStep, WouldBlockStep, GoneStep, SlotDoneStep
<1>3. CASE \E e \in Events : UpdateKeys(e)
  BY <1>3, UpdateStep, TearDownStep
<1>4. CASE TickSampled \/ Forward \/ TickEnds \/ StartedSampled \/ PeerSampled
  BY <1>4, TickSampledStep, ForwardStep, TickEndsStep, StartedSampledStep, PeerSampledStep
<1>5. CASE Tick \/ Started \/ HandleBegin \/ HandleInput
  BY <1>5, SampleStep DEF Tick, Started, HandleBegin, HandleInput
<1>6. CASE SessionEnds \/ Lock \/ Unlock \/ Disconnect
  BY <1>6, RestStep, LockStep, TearDownStep DEF Disconnect
<1>7. CASE UNCHANGED vars
  <2>1. \A d \in Keyboards : Known(d)' = Known(d)
    BY <1>7 DEF vars, Known, monitor, sample
  <2>2. TypeOK'
    BY <1>7 DEF IInv, TypeOK, vars, hardware, monitor, session, sample
  <2>3. Situated' /\ Told'
    BY <1>7 DEF IInv, Situated, Told, Held, vars, hardware, monitor, session, sample
  <2>4. Tracks'
    BY <1>7, <2>1 DEF IInv, Tracks, vars, hardware, monitor, session, sample
  <2> QED  BY <2>2, <2>3, <2>4 DEF IInv
<1> QED  BY <1>1, <1>2, <1>3, <1>4, <1>5, <1>6, <1>7 DEF Next, Step

\* The invariant of Keyboards: what is held is known or waits to be read, and
\* what is known was told or waits to be told.
THEOREM Invariance == Spec => []IInv
BY InitIInv, NextStep, PTL DEF Spec

\* The variables of Keyboards always have their types, and the queue of key
\* events never has more than its limit.
THEOREM TypeCorrect == Spec => []TypeOK
<1>1. IInv => TypeOK
  BY DEF IInv
<1> QED  BY Invariance, <1>1, PTL

\* Once everything was read, the peer was told of exactly the keys that are
\* held on some keyboard (PhysicalKeys::update, forward_keyboard).
THEOREM HeldIsTold == Spec => []PeerHoldsWhatIsHeld
<1>1. IInv => PeerHoldsWhatIsHeld
  <2> SUFFICES ASSUME IInv, role = "Sending", AllRead PROVE sourceKeys = PhysicallyHeld
    BY DEF PeerHoldsWhatIsHeld
  <2>1. initial = {} /\ batch = <<>> /\ pending = <<>> /\ sourceKeys \in SUBSET Keys
    BY DEF IInv, TypeOK, Situated, Told, AllRead
  <2>2. sourceKeys = Held(devices)
    BY <2>1, ReplayEmpty DEF IInv, Told
  <2>3. ASSUME NEW d \in Keyboards PROVE devices[d] = down[d]
    <3>1. CASE fd[d] = "open"
      <4>1. down[d] = Replay(devices[d], <<>>) /\ devices[d] \in SUBSET Keys
        BY <2>1, <3>1, KnownAtRest DEF IInv, TypeOK, Tracks, AllRead
      <4> QED  BY <4>1, ReplayEmpty
    <3>2. CASE fd[d] # "open"
      BY <3>2 DEF IInv, TypeOK, Tracks, AllRead
    <3> QED  BY <3>1, <3>2
  <2> QED  BY <2>2, <2>3 DEF PhysicallyHeld, Held
<1> QED  BY Invariance, <1>1, PTL

-----------------------------------------------------------------------------
(* The emergency chord *)

\* The event that completes the chord is the last one that waits.
LEMMA ChordIsQueued ==
  ASSUME IInv, [Next]_vars, role = "Sending", ChordRead
  PROVE  role' # "Sending" \/ ChordWaits'
<1>1. PICK e \in Events : UpdateKeys(e)
  <2>1. devices' # devices /\ Held(devices') # {}
    BY DEF ChordRead, Held
  <2>2. devices' # [d \in Keyboards |-> {}]
    BY <2>1 DEF Held
  <2> QED
    BY <2>1, <2>2 DEF Next, Step, User, Type, Unplug, Plug, Absent, Open, Fetch, WouldBlock,
          Gone, SlotDone, TickSampled, Forward, TickEnds, StartedSampled, PeerSampled, Tick,
          Started, HandleBegin, HandleInput, Sample, SessionEnds, Lock, Unlock, Disconnect,
          TearDown, Suspend, vars, monitor
<1>2. CASE TearDown
  BY <1>2 DEF TearDown
<1>3. CASE ~TearDown
  <2>1. /\ Updating(e) /\ devices' = After(e) /\ at' = at /\ role' = role
        /\ sourceKeys' = sourceKeys
        /\ pending' = IF Changes(e) THEN Append(pending, e) ELSE pending
    BY <1>1, <1>3 DEF UpdateKeys, Update, session
  <2>2. Changes(e) /\ e = EscapePressed
    <3>1. TypeOK
      BY DEF IInv
    <3>2. Changes(e) /\ Held(devices') = Apply(Held(devices), e)
      BY <2>1, <3>1, UpdateHeld DEF ChordRead
    <3> QED  BY <3>2 DEF ChordRead, Apply, EscapePressed, Events
  <2>3. pending \in Seq(Events) /\ pending' = Append(pending, e)
    BY <2>1, <2>2 DEF IInv, TypeOK
  <2> DEFINE i == Len(pending) + 1
  <2>4. i \in DOMAIN pending' /\ pending'[i] = e /\ SubSeq(pending', 1, i) = pending'
    BY <2>3
  <2>5. Replay(sourceKeys', pending') = Held(devices')
    BY <1>1, <1>3, <2>1, UpdateStep DEF IInv, Told
  <2>6. at' # "select"
    BY <2>1 DEF Updating
  <2> QED  BY <2>2, <2>4, <2>5, <2>6 DEF ChordWaits, ChordRead
<1> QED  BY <1>2, <1>3

\* It waits until it is forwarded, and then ends the session.
LEMMA ChordStaysQueued ==
  ASSUME IInv, [Next]_vars, role = "Sending", ChordWaits
  PROVE  role' # "Sending" \/ ChordWaits'
<1>1. PICK i \in DOMAIN pending :
        /\ pending[i] = EscapePressed
        /\ EmergencyModifiers(Replay(sourceKeys, SubSeq(pending, 1, i)))
  BY DEF ChordWaits
<1>2. /\ pending \in Seq(Events) /\ i \in 1..Len(pending) /\ pending # <<>>
      /\ sourceKeys \in SUBSET Keys /\ at # "select"
  BY <1>1 DEF IInv, TypeOK, ChordWaits
<1>3. CASE UNCHANGED <<pending, sourceKeys>> /\ at' # "select"
  BY <1>1, <1>3 DEF ChordWaits
<1>4. CASE TearDown
  BY <1>4 DEF TearDown
<1>5. ASSUME NEW e \in Events, UpdateKeys(e), ~TearDown PROVE ChordWaits'
  <2>1. /\ at' = at /\ sourceKeys' = sourceKeys
        /\ pending' = IF Changes(e) THEN Append(pending, e) ELSE pending
    BY <1>5 DEF UpdateKeys, Update, session
  <2>2. CASE pending' = Append(pending, e)
    <3>1. /\ i \in DOMAIN pending' /\ pending'[i] = pending[i]
          /\ SubSeq(pending', 1, i) = SubSeq(pending, 1, i)
      BY <1>2, <2>2
    <3> QED  BY <1>1, <1>2, <2>1, <3>1 DEF ChordWaits
  <2>3. CASE pending' = pending
    BY <1>1, <1>2, <2>1, <2>3 DEF ChordWaits
  <2> QED  BY <2>1, <2>2, <2>3
<1>6. CASE Forward
  <2>1. at' = at
    BY <1>6 DEF Forward, sample
  <2>2. SubSeq(pending, 1, i) \in Seq(Events) /\ SubSeq(pending, 1, i) # <<>>
        /\ Head(SubSeq(pending, 1, i)) = Head(pending)
    BY <1>2
  <2> DEFINE keys == Apply(sourceKeys, Head(pending))
  <2>3. Replay(sourceKeys, SubSeq(pending, 1, i)) = Replay(keys, Tail(SubSeq(pending, 1, i)))
    BY <1>2, <2>2, ReplayFirst
  <2>4. keys \in SUBSET Keys
    BY <1>2, ApplyType
  <2> HIDE DEF keys
  <2>5. CASE i = 1
    <3>1. Tail(SubSeq(pending, 1, i)) = <<>> /\ Head(pending) = pending[i]
      BY <1>2, <2>5
    <3>2. EmergencyModifiers(keys) /\ Head(pending) = EscapePressed
      BY <1>1, <2>3, <2>4, <3>1, ReplayEmpty
    <3> QED  BY <1>6, <3>2 DEF Forward, keys
  <2>6. CASE i # 1
    <3>1. CASE role' = "Local"
      BY <3>1
    <3>2. CASE pending' = Tail(pending) /\ sourceKeys' = keys
      <4>1. i - 1 \in DOMAIN pending' /\ pending'[i - 1] = pending[i]
            /\ SubSeq(pending', 1, i - 1) = Tail(SubSeq(pending, 1, i))
        BY <1>2, <2>6, <3>2
      <4> QED  BY <1>1, <1>2, <2>1, <2>3, <3>2, <4>1 DEF ChordWaits
    <3> QED  BY <1>6, <3>1, <3>2 DEF Forward, keys
  <2> QED  BY <2>5, <2>6
<1>7. CASE User
  BY <1>2, <1>3, <1>7 DEF User, Type, Unplug, Plug, monitor, session, sample
<1>8. CASE Absent \/ WouldBlock \/ SlotDone
  BY <1>2, <1>3, <1>8 DEF Absent, WouldBlock, SlotDone, NextSlot, monitor, session
<1>9. CASE Open \/ Fetch \/ Gone
  BY <1>2, <1>3, <1>9 DEF Open, Fetch, Gone, monitor, session
<1>10. CASE TickSampled
  BY <1>2, <1>3, <1>10 DEF TickSampled
<1>11. CASE TickEnds \/ StartedSampled \/ PeerSampled
  BY <1>2, <1>11 DEF TickEnds, StartedSampled, PeerSampled, IInv, Situated
<1>12. CASE Tick \/ Started \/ HandleBegin \/ HandleInput \/ SessionEnds \/ Lock \/ Unlock
  BY <1>2, <1>12 DEF Tick, Started, HandleBegin, HandleInput, Sample, SessionEnds, Lock, Unlock
<1>13. CASE UNCHANGED vars
  BY <1>2, <1>3, <1>13 DEF vars, monitor, session, sample
<1> QED  BY <1>4, <1>5, <1>6, <1>7, <1>8, <1>9, <1>10, <1>11, <1>12, <1>13
            DEF Next, Step, Disconnect

\* Escape pressed with the modifiers held, on whichever keyboards and since
\* whenever, ends remote control before the loop is back in its select.
THEOREM EmergencyEnds == Spec => EmergencyReturns
<1>1. IInv /\ [Next]_vars => [ChordEndsSession]_vars
  BY ChordIsQueued, ChordStaysQueued DEF ChordEndsSession
<1> QED  BY Invariance, <1>1, PTL DEF Spec, EmergencyReturns

=============================================================================
