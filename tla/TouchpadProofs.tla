--------------------------- MODULE TouchpadProofs ---------------------------
(***************************************************************************)
(* Proofs about Touchpad, for any number of slots, places, reports,        *)
(* sessions, starts and kills.  Three arguments build on each other: where *)
(* the process is tells who holds the device (Phases, Turned); what the    *)
(* kernel keeps for the router leads from the router's copy to the         *)
(* kernel's state (Looked, Recent); and the messages of a session reach    *)
(* the peer between its Begin and its End, so that the frames on their way *)
(* lead from the twin to the router's copy (Wire, Routed).                 *)
(*                                                                         *)
(* Then about what a touchpad remembers of its contacts, for every         *)
(* description it may have (TouchState), and about the times of its        *)
(* frames, for all times (TouchpadClock).  Memory!Within is inductive; the *)
(* length of a frame written from the memory is bounded by the places it   *)
(* can have: fifteen codes for each of 32 slots, and the shared ones.  Of  *)
(* the clocks, Clock!Inv is inductive.                                     *)
(***************************************************************************)
EXTENDS Touchpad, FiniteSetTheorems, SequenceTheorems, WellFoundedInduction, TLAPS

-----------------------------------------------------------------------------
(* The inductive invariant *)

Values(i) == IF i = "click" THEN {0, 1} ELSE {0, 1} \cup Places

\* What one frame can say.
Frames == {f \in UNION {[d -> {0, 1} \cup Places] : d \in SUBSET Items} :
              \A i \in DOMAIN f : f[i] \in Values(i)}

Messages == [kind : {"begin", "input", "end"}, session : Nat \ {0}, frame : Frames]

Routers == [open : BOOLEAN, grabbed : BOOLEAN, remote : BOOLEAN,
            pad : States, pending : Seq(Frames)]

Typed ==
    /\ TypeOK
    /\ begun \in Nat
    /\ quiet \in BOOLEAN
    /\ router \in Routers
    /\ unread \in Seq(Frames)
    /\ wire \in Seq(Messages)

\* A router that was given up holds nothing, and one that is at work has the
\* device where the code thinks it has.
Owning    == {"owned", "flushed", "taken", "started"}
Acquires  == {"checked", "owned", "flushed"}
Releasing == {"release", "hidden", "freed"}
Restores  == {"look", "taken", "started", "repair"}
Idles     == {"stopped", "closed"} \cup Restores

Phases ==
    /\ router.grabbed => router.open /\ grab /\ pc \in {"top", "select", "sampled"}
    /\ pc \in Owning => grab
    /\ pc = "repair" => ~grab
    /\ pc \in Acquires \cup {"sampled"} => router.open /\ then \in {"tick", "begin"}
    /\ pc \in Releasing => (router.open <=> then \in {"tick", "begin"})
    /\ pc \in Idles \cup {"dropped"} => ~router.open
    /\ pc \in Idles => role = 0
    /\ pc \notin Idles => "here" \in up
    /\ then = "begin" => role = 0
    /\ role \in {0, begun}

\* Who the pad is routed to is who has control, once the loop has seen it.
Turned ==
    /\ router.open /\ pc # "top" => router.remote = (role # 0)
    /\ ~router.open /\ pc \notin Releasing \cup {"dropped"} => role = 0

\* A device that was found idle is idle until somebody touches it.
Contacts == [i \in Items |-> IF i \in Slots THEN 1 ELSE 0]

Looked ==
    /\ pc \in {"checked", "look"} => raced \/ kernel = Neutral
    /\ pc \in {"started", "repair"} /\ quiet => kernel = Contacts

\* What is unread ends with what the kernel believes.
Recent == router.open /\ unread # <<Lost>> => Replay(kernel, unread) = kernel

-----------------------------------------------------------------------------
(* The messages on their way *)

\* Sessions follow each other, from a Begin to an End.
Ordered(w) == \A n, m \in DOMAIN w : n < m =>
    /\ w[n].session <= w[m].session
    /\ w[m].kind = "begin" \/ w[n].kind = "end" => w[n].session < w[m].session

Ending(w, s, k) == w[k].kind = "end" /\ w[k].session = s

\* A session that the peer is in has its End ahead of the next Begin.
Ahead(w, h) == \A n \in DOMAIN w :
    /\ h <= w[n].session
    /\ w[n].kind = "begin" =>
          /\ h < w[n].session
          /\ h # 0 => \E k \in 1..(n - 1) : Ending(w, h, k)

Closing(w) == \A n, m \in DOMAIN w :
    n < m /\ w[n].kind = "begin" /\ w[m].kind = "begin"
        => \E k \in n..m : Ending(w, w[n].session, k)

\* Every session but the one in force has its End on the way.
Over(w, h, r) ==
    /\ h \notin {0, r} => \E k \in DOMAIN w : Ending(w, h, k)
    /\ \A n \in DOMAIN w : w[n].kind = "begin" /\ w[n].session # r =>
          \E k \in DOMAIN w : n < k /\ Ending(w, w[n].session, k)

Wire ==
    /\ \A n \in DOMAIN wire : wire[n].session <= begun
    /\ Ordered(wire) /\ Ahead(wire, hosting) /\ Closing(wire)
    /\ "here" \in up => Over(wire, hosting, role)
    /\ role # 0 => \A n \in DOMAIN wire : ~ Ending(wire, role, n)
    /\ "peer" \notin up => wire = << >> /\ hosting = 0
    /\ 0 \notin ended
    /\ \A s \in ended : s # hosting /\
          \A n \in DOMAIN wire : wire[n].kind = "begin" => wire[n].session # s
    /\ hosting = 0 => twin = Neutral

\* The peer hears of the session in force: it is in it, or will be.
Hears == hosting = role \/
         \E n \in DOMAIN wire : wire[n].kind = "begin" /\ wire[n].session = role

\* Before the pad is routed to a session the peer has seen nothing in it; from
\* then on what is on its way leads to what the router's copy shows.
Routed ==
    /\ role # 0 /\ router.open /\ ~router.remote =>
          /\ pc = "top"
          /\ hosting = role => twin = Neutral
          /\ \A n \in DOMAIN wire : wire[n].session = role => wire[n].kind # "input"
    /\ role # 0 /\ router.open /\ router.remote /\ "peer" \in up /\ Hears =>
          Replay(IF hosting = role THEN twin ELSE Neutral, OnItsWay)
              = IF router.grabbed THEN router.pad ELSE Neutral

-----------------------------------------------------------------------------
(* Frames: the last one that has an item is what is shown of it *)

\* A finite set of natural numbers has a greatest element.
LEMMA Greatest ==
    ASSUME NEW T \in SUBSET Nat, IsFiniteSet(T), T # {}
    PROVE  \E x \in T : \A y \in T : y <= x
<1> DEFINE Above(x) == {y \in T : x < y}
<1> DEFINE F == {Above(x) : x \in T}
<1>1. F \subseteq FiniteSubsetsOf(T) BY FS_FiniteSubsetsOfFinite
<1>2. F # {} OBVIOUS
<1>3. \E U \in F : \A V \in F : ~ (<<V, U>> \in StrictSubsetOrdering(T))
  <2> HIDE DEF F
  <2> QED BY <1>1, <1>2, FS_StrictSubsetOrderingWellFounded, WFMin
<1>4. PICK x \in T : \A z \in T : ~ (<<Above(z), Above(x)>> \in StrictSubsetOrdering(T))
  BY <1>3
<1>5. SUFFICES ASSUME NEW y \in T, x < y PROVE FALSE OBVIOUS
<1>6. Above(y) \subseteq Above(x) /\ Above(y) # Above(x)
  <2>1. y \in Above(x) /\ y \notin Above(y) BY <1>5
  <2>2. \A z \in T : y < z => x < z
    <3>1. \A u, v, w \in Nat : u < v /\ v < w => u < w OBVIOUS
    <3> QED BY <1>5, <3>1
  <2>3. Above(y) \subseteq Above(x) BY <2>2
  <2> HIDE DEF Above
  <2> QED BY <2>1, <2>3
<1>7. \A A, B \in SUBSET T : A \subseteq B /\ A # B => <<A, B>> \in StrictSubsetOrdering(T)
  BY DEF StrictSubsetOrdering
<1>8. <<Above(y), Above(x)>> \in StrictSubsetOrdering(T)
  <2>1. Above(y) \in SUBSET T /\ Above(x) \in SUBSET T OBVIOUS
  <2> HIDE DEF Above
  <2> QED BY <1>6, <1>7, <2>1
<1> QED BY <1>4, <1>8

\* It is the one that Last chooses.
LEMMA LastIsGreatest ==
    ASSUME NEW T \in SUBSET Nat, IsFiniteSet(T), T # {}
    PROVE  /\ Last(T) \in T
           /\ \A m \in T : m <= Last(T)
BY Greatest DEF Last

\* An element that no other exceeds is the last one.
LEMMA LastIs ==
    ASSUME NEW T \in SUBSET Nat, NEW x \in T, \A m \in T : m <= x
    PROVE  Last(T) = x
<1>1. \E n \in T : \A m \in T : m <= n OBVIOUS
<1>2. Last(T) \in T /\ \A m \in T : m <= Last(T) BY <1>1 DEF Last
<1>3. x <= Last(T) /\ Last(T) <= x BY <1>2
<1>4. \A a, b \in Nat : a <= b /\ b <= a => a = b OBVIOUS
<1> QED BY <1>2, <1>3, <1>4

\* The frames that have an item are finitely many.
LEMMA HavingFinite ==
    ASSUME NEW S, NEW u \in Seq(S), NEW i
    PROVE  /\ Having(u, i) \in SUBSET (1..Len(u))
           /\ Having(u, i) \in SUBSET Nat
           /\ IsFiniteSet(Having(u, i))
<1>1. Len(u) \in Nat /\ DOMAIN u = 1..Len(u) OBVIOUS
<1>2. Having(u, i) \in SUBSET (1..Len(u)) BY <1>1 DEF Having
<1>3. IsFiniteSet(1..Len(u)) BY <1>1, FS_Interval
<1>4. IsFiniteSet(Having(u, i)) BY <1>2, <1>3, FS_Subset
<1> QED BY <1>1, <1>2, <1>4

\* The last frame that has an item, if there is one.
LEMMA LastHaving ==
    ASSUME NEW S, NEW u \in Seq(S), NEW i, Having(u, i) # {}
    PROVE  /\ Last(Having(u, i)) \in 1..Len(u)
           /\ i \in DOMAIN u[Last(Having(u, i))]
           /\ \A m \in Having(u, i) : m <= Last(Having(u, i))
<1>1. Last(Having(u, i)) \in Having(u, i)
  BY HavingFinite, LastIsGreatest
<1>2. \A m \in Having(u, i) : m <= Last(Having(u, i))
  BY HavingFinite, LastIsGreatest
<1> QED BY <1>1, <1>2, HavingFinite DEF Having

\* The elements of a concatenation are those of the one and then the other.
Glued(u, v, w) ==
    /\ Len(w) = Len(u) + Len(v)
    /\ Len(u) \in Nat /\ Len(v) \in Nat
    /\ \A n \in 1..Len(u) : w[n] = u[n]
    /\ \A n \in 1..Len(v) : w[Len(u) + n] = v[n]
    /\ \A n \in 1..Len(w) : n \in 1..Len(u)
          \/ \E m \in 1..Len(v) : n = Len(u) + m /\ w[n] = v[m]

LEMMA Joined ==
    ASSUME NEW S, NEW u \in Seq(S), NEW v \in Seq(S)
    PROVE  u \o v \in Seq(S) /\ Glued(u, v, u \o v)
<1> DEFINE w == u \o v
<1>1. /\ w \in Seq(S) /\ Len(w) = Len(u) + Len(v)
      /\ \A n \in 1..(Len(u) + Len(v)) :
            w[n] = IF n <= Len(u) THEN u[n] ELSE v[n - Len(u)]
  BY ConcatProperties
<1>2. Len(u) \in Nat /\ Len(v) \in Nat OBVIOUS
<1> HIDE DEF w
<1>3. \A n \in 1..Len(u) : w[n] = u[n] BY <1>1, <1>2
<1>4. \A n \in 1..Len(v) : w[Len(u) + n] = v[n]
  <2> TAKE n \in 1..Len(v)
  <2>1. Len(u) + n \in 1..(Len(u) + Len(v)) /\ ~ (Len(u) + n <= Len(u))
        /\ (Len(u) + n) - Len(u) = n BY <1>2
  <2> QED BY <1>1, <2>1
<1>5. \A n \in 1..Len(w) : n \in 1..Len(u)
          \/ \E m \in 1..Len(v) : n = Len(u) + m /\ w[n] = v[m]
  <2> SUFFICES ASSUME NEW n \in 1..Len(w), n \notin 1..Len(u)
               PROVE  \E m \in 1..Len(v) : n = Len(u) + m /\ w[n] = v[m] OBVIOUS
  <2>1. n - Len(u) \in 1..Len(v) /\ n = Len(u) + (n - Len(u)) BY <1>1, <1>2
  <2> QED BY <1>4, <2>1
<1>6. w \in Seq(S) /\ Glued(u, v, w) BY <1>1, <1>2, <1>3, <1>4, <1>5 DEF Glued
<1> QED BY <1>6 DEF w

\* Every element of two sequences joined is an element of one of them.
LEMMA JoinedFrom ==
    ASSUME NEW S, NEW u \in Seq(S), NEW v \in Seq(S), NEW n \in DOMAIN (u \o v)
    PROVE  \/ \E j \in DOMAIN u : (u \o v)[n] = u[j]
           \/ \E j \in DOMAIN v : (u \o v)[n] = v[j]
<1> DEFINE w == u \o v
<1>1. /\ w \in Seq(S)
      /\ \A m \in 1..Len(u) : w[m] = u[m]
      /\ \A m \in 1..Len(w) : m \in 1..Len(u)
            \/ \E k \in 1..Len(v) : m = Len(u) + k /\ w[m] = v[k]
  <2>1. w \in Seq(S) /\ Glued(u, v, w) BY Joined
  <2> HIDE DEF w
  <2> QED BY <2>1 DEF Glued
<1>2. n \in DOMAIN w OBVIOUS
<1> HIDE DEF w
<1>3. DOMAIN w = 1..Len(w) /\ DOMAIN u = 1..Len(u) /\ DOMAIN v = 1..Len(v) BY <1>1
<1>4. (\E j \in DOMAIN u : w[n] = u[j]) \/ (\E j \in DOMAIN v : w[n] = v[j])
  BY <1>1, <1>2, <1>3
<1> QED BY <1>4 DEF w

\* Replaying two sequences is replaying one and then the other.
LEMMA ReplayConcat ==
    ASSUME NEW S, NEW u \in Seq(S), NEW v \in Seq(S), NEW s
    PROVE  Replay(s, u \o v) = Replay(Replay(s, u), v)
<1> DEFINE w == u \o v
<1>1. /\ w \in Seq(S) /\ Len(w) = Len(u) + Len(v)
      /\ Len(u) \in Nat /\ Len(v) \in Nat
      /\ \A n \in 1..Len(u) : w[n] = u[n]
      /\ \A n \in 1..Len(v) : w[Len(u) + n] = v[n]
      /\ \A n \in 1..Len(w) : n \in 1..Len(u)
            \/ \E m \in 1..Len(v) : n = Len(u) + m /\ w[n] = v[m]
  <2>1. w \in Seq(S) /\ Glued(u, v, w) BY Joined
  <2> HIDE DEF w
  <2> QED BY <2>1 DEF Glued
<1> HIDE DEF w
<1>2. DOMAIN w = 1..Len(w) /\ DOMAIN u = 1..Len(u) /\ DOMAIN v = 1..Len(v) BY <1>1
<1>3. ASSUME NEW i \in Items
      PROVE  (IF Having(w, i) = {} THEN s[i] ELSE w[Last(Having(w, i))][i])
             = (IF Having(v, i) = {}
                THEN IF Having(u, i) = {} THEN s[i] ELSE u[Last(Having(u, i))][i]
                ELSE v[Last(Having(v, i))][i])
  <2>1. \A n \in 1..Len(u) : n \in Having(w, i) <=> n \in Having(u, i)
    BY <1>1, <1>2 DEF Having
  <2>2. \A n \in 1..Len(v) : Len(u) + n \in Having(w, i) <=> n \in Having(v, i)
    <3> TAKE n \in 1..Len(v)
    <3>1. Len(u) + n \in 1..Len(w) BY <1>1
    <3> QED BY <1>1, <1>2, <3>1 DEF Having
  <2>3. Having(w, i) \subseteq 1..Len(w) /\ Having(u, i) \subseteq 1..Len(u)
        /\ Having(v, i) \subseteq 1..Len(v) BY <1>2 DEF Having
  <2>4. CASE Having(v, i) # {}
    <3>1. PICK x \in 1..Len(v) : /\ x = Last(Having(v, i)) /\ x \in Having(v, i)
                                 /\ \A m \in Having(v, i) : m <= x
      BY <2>4, LastHaving, <1>2 DEF Having
    <3>2. Len(u) + x \in Having(w, i) BY <2>2, <3>1
    <3>3. \A m \in Having(w, i) : m <= Len(u) + x
      <4> TAKE m \in Having(w, i)
      <4>1. CASE m \in 1..Len(u) BY <4>1, <1>1, <3>1
      <4>2. CASE m \notin 1..Len(u)
        <5>1. PICK k \in 1..Len(v) : m = Len(u) + k BY <4>2, <1>1, <2>3
        <5>2. k <= x BY <5>1, <2>2, <3>1
        <5> QED BY <5>1, <5>2, <1>1, <3>1
      <4> QED BY <4>1, <4>2
    <3>4. Last(Having(w, i)) = Len(u) + x
      <4>1. Having(w, i) \in SUBSET Nat BY HavingFinite, <1>1
      <4> QED BY <4>1, <3>2, <3>3, LastIs
    <3> QED BY <2>4, <3>1, <3>2, <3>4, <1>1
  <2>5. CASE Having(v, i) = {}
    <3>1. Having(w, i) = Having(u, i)
      <4>1. ASSUME NEW n \in Having(w, i) PROVE n \in Having(u, i)
        <5>1. n \in 1..Len(u) BY <1>1, <2>2, <2>3, <2>5
        <5> QED BY <5>1, <2>1
      <4>2. ASSUME NEW n \in Having(u, i) PROVE n \in Having(w, i) BY <2>1, <2>3
      <4> QED BY <4>1, <4>2
    <3>2. Having(u, i) # {} => Last(Having(u, i)) \in 1..Len(u) BY LastHaving
    <3> QED BY <2>5, <3>1, <3>2, <1>1
  <2> QED BY <2>4, <2>5
<1>4. \A i \in Items : Replay(s, w)[i] = Replay(Replay(s, u), v)[i]
  BY <1>3 DEF Replay
<1>5. /\ Replay(s, w) = [i \in Items |-> Replay(s, w)[i]]
      /\ Replay(Replay(s, u), v) = [i \in Items |-> Replay(Replay(s, u), v)[i]]
  BY DEF Replay
<1>6. Replay(s, w) = Replay(Replay(s, u), v) BY <1>4, <1>5
<1> QED BY <1>6 DEF w

\* What a replay shows is a state.
LEMMA StateIs ==
    ASSUME NEW s
    PROVE  s \in States <=> /\ s = [i \in Items |-> s[i]]
                            /\ \A i \in Items : s[i] \in Values(i)
BY DEF States, Values, Items

\* Nothing touched is a state.
LEMMA NeutralIsState ==
    /\ Neutral \in States
    /\ \A i \in Items : Neutral[i] = 0
<1>1. \A i \in Items : Neutral[i] = 0 BY DEF Neutral
<1>2. Neutral = [i \in Items |-> Neutral[i]] BY DEF Neutral
<1> QED BY <1>1, <1>2, StateIs DEF Values

\* What a frame can be: a report that was lost, and a whole state, too.
LEMMA FrameIs ==
    /\ \A f \in Frames : DOMAIN f \subseteq Items /\ \A i \in DOMAIN f : f[i] \in Values(i)
    /\ << >> \in Frames /\ Lost \in Frames
    /\ States \subseteq Frames
<1>1. \A f \in Frames : DOMAIN f \subseteq Items /\ \A i \in DOMAIN f : f[i] \in Values(i)
  BY DEF Frames
<1>2. << >> \in [{} -> {0, 1} \cup Places] /\ DOMAIN << >> = {} OBVIOUS
<1>3. {} \in SUBSET Items OBVIOUS
<1>4. << >> \in Frames BY <1>2, <1>3 DEF Frames
<1>5. ASSUME NEW s \in States PROVE s \in Frames
  <2>1. s \in [Items -> {0, 1} \cup Places] BY DEF States
  <2>2. s \in UNION {[d -> {0, 1} \cup Places] : d \in SUBSET Items}
    <3>1. Items \in SUBSET Items OBVIOUS
    <3> QED BY <2>1, <3>1
  <2>3. \A i \in DOMAIN s : s[i] \in Values(i) BY <2>1, StateIs
  <2> QED BY <2>2, <2>3 DEF Frames
<1> QED BY <1>1, <1>4, <1>5 DEF Lost

\* What a replay shows is a state again.
LEMMA ReplayType ==
    ASSUME NEW s \in States, NEW u \in Seq(Frames)
    PROVE  Replay(s, u) \in States
<1>1. ASSUME NEW i \in Items PROVE Replay(s, u)[i] \in Values(i)
  <2>1. CASE Having(u, i) = {} BY <2>1, StateIs DEF Replay
  <2>2. CASE Having(u, i) # {}
    <3>1. Last(Having(u, i)) \in 1..Len(u) /\ i \in DOMAIN u[Last(Having(u, i))]
      BY <2>2, LastHaving
    <3>2. u[Last(Having(u, i))] \in Frames BY <3>1
    <3>3. u[Last(Having(u, i))][i] \in Values(i) BY <3>1, <3>2, FrameIs
    <3> QED BY <2>2, <3>3 DEF Replay
  <2> QED BY <2>1, <2>2
<1>2. Replay(s, u) = [i \in Items |-> Replay(s, u)[i]] BY DEF Replay
<1> QED BY <1>1, <1>2, StateIs

\* Nothing to replay, and one frame to replay.
LEMMA ReplayEmpty ==
    ASSUME NEW s \in States
    PROVE  Replay(s, << >>) = s
<1>1. \A i \in Items : Having(<< >>, i) = {} BY DEF Having
<1>2. Replay(s, << >>) = [i \in Items |-> s[i]] BY <1>1 DEF Replay
<1> QED BY <1>2, StateIs

\* One frame replayed is one frame applied.
LEMMA ReplayOne ==
    ASSUME NEW s, NEW f
    PROVE  Replay(s, <<f>>) = Apply(s, f)
<1> DEFINE u == <<f>>
<1>1. DOMAIN u = {1} /\ u[1] = f OBVIOUS
<1> HIDE DEF u
<1>2. ASSUME NEW i \in Items
      PROVE  (IF Having(u, i) = {} THEN s[i] ELSE u[Last(Having(u, i))][i])
             = IF i \in DOMAIN f THEN f[i] ELSE s[i]
  <2>1. CASE i \in DOMAIN f
    <3>1. Having(u, i) = {1} BY <1>1, <2>1 DEF Having
    <3>2. Last({1}) = 1
      <4>1. {1} \in SUBSET Nat /\ 1 \in {1} /\ \A m \in {1} : m <= 1 OBVIOUS
      <4> QED BY <4>1, LastIs
    <3> QED BY <1>1, <2>1, <3>1, <3>2
  <2>2. CASE i \notin DOMAIN f
    <3>1. Having(u, i) = {} BY <1>1, <2>2 DEF Having
    <3> QED BY <2>2, <3>1
  <2> QED BY <2>1, <2>2
<1>3. Replay(s, u) = Apply(s, f) BY <1>2 DEF Replay, Apply
<1> QED BY <1>3 DEF u

\* A frame more, replayed last, is applied last.
LEMMA ReplayAppend ==
    ASSUME NEW u \in Seq(Frames), NEW f \in Frames, NEW s
    PROVE  Replay(s, Append(u, f)) = Apply(Replay(s, u), f)
<1>1. <<f>> \in Seq(Frames) OBVIOUS
<1>2. Append(u, f) = u \o <<f>> BY AppendIsConcat
<1>3. \A x, y \in Seq(Frames) : Replay(s, x \o y) = Replay(Replay(s, x), y)
  BY ReplayConcat
<1>4. Replay(s, u \o <<f>>) = Replay(Replay(s, u), <<f>>) BY <1>1, <1>3
<1>5. Replay(Replay(s, u), <<f>>) = Apply(Replay(s, u), f) BY ReplayOne
<1> QED BY <1>2, <1>4, <1>5

\* Where no frame has an item, nothing but the start matters.
LEMMA ReplayAgrees ==
    ASSUME NEW s, NEW t, NEW u, \A i \in Items : s[i] = t[i]
    PROVE  Replay(s, u) = Replay(t, u)
BY DEF Replay

-----------------------------------------------------------------------------
(* What changed *)

\* What changed is a frame.
LEMMA ChangesFrame ==
    ASSUME NEW s \in States, NEW t \in States
    PROVE  Changes(s, t) \in Frames
<1> DEFINE moved == {i \in Items : t[i] # s[i]}
<1>1. Changes(s, t) = [i \in moved |-> t[i]] BY DEF Changes
<1>2. moved \in SUBSET Items OBVIOUS
<1>3. \A i \in moved : t[i] \in {0, 1} \cup Places BY DEF States
<1>4. \A i \in moved : t[i] \in Values(i) BY StateIs
<1> HIDE DEF moved
<1>5. Changes(s, t) \in [moved -> {0, 1} \cup Places] BY <1>1, <1>3
<1>6. Changes(s, t) \in UNION {[d -> {0, 1} \cup Places] : d \in SUBSET Items}
  BY <1>2, <1>5
<1>7. \A i \in DOMAIN Changes(s, t) : Changes(s, t)[i] \in Values(i) BY <1>1, <1>4
<1> QED BY <1>6, <1>7 DEF Frames

\* Applied to another state, changes move the items that changed.
LEMMA ApplyChanges ==
    ASSUME NEW s \in States, NEW t \in States, NEW r, NEW i \in Items
    PROVE  Apply(r, Changes(s, t))[i] = IF t[i] # s[i] THEN t[i] ELSE r[i]
BY DEF Apply, Changes

\* What leads to a state leads, with what changed, to the next one.
LEMMA FollowChanges ==
    ASSUME NEW s \in States, NEW t \in States, NEW r, NEW u \in Seq(Frames),
           Replay(r, u) = s
    PROVE  Replay(r, Append(u, Changes(s, t))) = t
<1>1. Replay(r, Append(u, Changes(s, t))) = Apply(s, Changes(s, t))
  BY ChangesFrame, ReplayAppend
<1>2. \A i \in Items : Apply(s, Changes(s, t))[i] = t[i] BY ApplyChanges
<1>3. Apply(s, Changes(s, t)) = [i \in Items |-> Apply(s, Changes(s, t))[i]] BY DEF Apply
<1>4. t = [i \in Items |-> t[i]] BY StateIs
<1> QED BY <1>1, <1>2, <1>3, <1>4

\* And the frames that end with a state end, with what changed, with the next.
LEMMA RecentChanges ==
    ASSUME NEW s \in States, NEW t \in States, NEW u \in Seq(Frames),
           Replay(s, u) = s
    PROVE  Replay(t, Append(u, Changes(s, t))) = t
<1>1. Replay(t, Append(u, Changes(s, t))) = Apply(Replay(t, u), Changes(s, t))
  BY ChangesFrame, ReplayAppend
<1>2. ASSUME NEW i \in Items PROVE Apply(Replay(t, u), Changes(s, t))[i] = t[i]
  <2>1. CASE t[i] # s[i] BY <2>1, ApplyChanges
  <2>2. CASE t[i] = s[i]
    <3>1. Apply(Replay(t, u), Changes(s, t))[i] = Replay(t, u)[i] BY <2>2, ApplyChanges
    <3>2. Replay(t, u)[i] = Replay(s, u)[i] BY <2>2 DEF Replay
    <3> QED BY <2>2, <3>1, <3>2
  <2> QED BY <2>1, <2>2
<1>3. Apply(Replay(t, u), Changes(s, t)) = [i \in Items |-> Apply(Replay(t, u), Changes(s, t))[i]]
  BY DEF Apply
<1>4. t = [i \in Items |-> t[i]] BY StateIs
<1> QED BY <1>1, <1>2, <1>3, <1>4

-----------------------------------------------------------------------------
(* Where the process is *)

\* A report delivered keeps the types.
LEMMA Delivered ==
    ASSUME Typed, NEW new \in States, Deliver(new)
    PROVE  /\ kernel' = new /\ seat' \in States
           /\ unread' \in Seq(Frames) /\ Len(unread') <= QueueMax
<1>1. kernel \in States /\ seat \in States /\ unread \in Seq(Frames) /\ Len(unread) <= QueueMax
  BY DEF Typed, TypeOK
<1>2. Changes(kernel, new) \in Frames BY <1>1, ChangesFrame
<1>3. Apply(seat, Changes(kernel, new)) \in States
  <2>1. <<Changes(kernel, new)>> \in Seq(Frames) BY <1>2
  <2>2. Replay(seat, <<Changes(kernel, new)>>) \in States BY <1>1, <2>1, ReplayType
  <2> QED BY <2>2, ReplayOne
<1>4. ASSUME NEW f \in Frames, NEW u \in Seq(Frames), Len(u) <= QueueMax
      PROVE  /\ <<Lost>> \in Seq(Frames) /\ Len(<<Lost>>) <= QueueMax
             /\ Append(u, f) \in Seq(Frames)
             /\ Len(u) < QueueMax => Len(Append(u, f)) <= QueueMax
  <2>1. Lost \in Frames /\ QueueMax \in Nat \ {0} BY FrameIs, TouchpadAssumption
  <2>2. Append(u, f) \in Seq(Frames) /\ Len(Append(u, f)) = Len(u) + 1 OBVIOUS
  <2>3. Len(u) \in Nat OBVIOUS
  <2>4. \A x : x \in Frames => <<x>> \in Seq(Frames) /\ Len(<<x>>) = 1 OBVIOUS
  <2> QED BY <1>4, <2>1, <2>2, <2>3, <2>4
<1>5. Queued(Changes(kernel, new)) \in Seq(Frames)
      /\ Len(Queued(Changes(kernel, new))) <= QueueMax
  BY <1>1, <1>2, <1>4 DEF Queued
<1> QED BY <1>1, <1>3, <1>5 DEF Deliver

\* What is sent is a message.
LEMMA Sent ==
    ASSUME Typed, NEW ms \in Seq(Messages)
    PROVE  Send(ms) \in Seq(Messages)
<1>1. wire \in Seq(Messages) BY DEF Typed
<1> QED BY <1>1 DEF Send

\* Each kind of message is a message.
LEMMA OneMessage ==
    ASSUME NEW s \in Nat \ {0}, NEW f \in Frames
    PROVE  /\ <<Begin(s)>> \in Seq(Messages)
           /\ <<End(s)>> \in Seq(Messages)
           /\ <<Input(s, f)>> \in Seq(Messages) /\ Input(s, f) \in Messages
<1>1. Begin(s) \in Messages /\ End(s) \in Messages /\ Input(s, f) \in Messages
  BY FrameIs DEF Begin, End, Input, Messages
<1> QED BY <1>1

\* The wire is a sequence of messages after an End, too.
LEMMA EndSent ==
    ASSUME Typed
    PROVE  SendEnd \in Seq(Messages)
<1>1. role \in Nat /\ wire \in Seq(Messages) BY DEF Typed, TypeOK
<1>2. role # 0 => <<End(role)>> \in Seq(Messages) BY <1>1, FrameIs, OneMessage
<1> QED BY <1>1, <1>2, Sent DEF SendEnd

\* A program that is not running holds no device.
LEMMA InitPhases == Init => Phases /\ Turned
BY DEF Init, Phases, Turned, Closed, Owning, Acquires, Releasing, Restores, Idles

\* Every step leaves the device with the one that the place in the code tells.
LEMMA StepPhases ==
    ASSUME Phases, Turned, Typed, [Next]_vars
    PROVE  Phases' /\ Turned'
<1> USE DEF Phases, Turned, Owning, Acquires, Releasing, Restores, Idles, device, process, peer, history
<1>0. begun \in Nat /\ router \in Routers BY DEF Typed
<1>1. CASE Report BY <1>0, <1>1 DEF Report, Deliver, Noticed, Routers
<1>2. CASE ReportAgain BY <1>0, <1>2 DEF ReportAgain, Deliver, Noticed, Routers
<1>3. CASE Open BY <1>0, <1>3 DEF Open, NewRouter, Closed, Routers
<1>4. CASE Route BY <1>0, <1>4 DEF Route, Routers
<1>5. CASE Acquire BY <1>0, <1>5 DEF Acquire, Routers
<1>6. CASE Flush BY <1>0, <1>6 DEF Flush, Routers
<1>7. CASE Inspect BY <1>0, <1>7 DEF Inspect, Routers
<1>8. CASE EndPrivately BY <1>0, <1>8 DEF EndPrivately, Deliver, Noticed, Routers
<1>9. CASE Ungrab BY <1>0, <1>9 DEF Ungrab, Routers
<1>10. CASE EndPublicly BY <1>0, <1>10 DEF EndPublicly, Deliver, Noticed, Routers
<1>11. CASE Tick BY <1>0, <1>11 DEF Tick, Routers
<1>12. CASE Cross BY <1>0, <1>12 DEF Cross, Routers
<1>13. CASE Return BY <1>0, <1>13 DEF Return, Routers
<1>14. CASE Suspend BY <1>0, <1>14 DEF Suspend, Drop, Closed, Routers
<1>15. CASE Overrun BY <1>0, <1>15 DEF Overrun, Drop, Closed, Routers
<1>16. CASE Fail BY <1>0, <1>16 DEF Fail, Drop, Closed, Routers
<1>17. CASE Stop BY <1>0, <1>17 DEF Stop, Drop, Closed, Routers
<1>18. CASE Dropped BY <1>0, <1>18 DEF Dropped, Routers
<1>19. CASE Unlock BY <1>0, <1>19 DEF Unlock, Routers
<1>20. CASE Crash BY <1>0, <1>20 DEF Crash, Closed, Routers
<1>21. CASE Look BY <1>0, <1>21 DEF Look, Routers
<1>22. CASE Take BY <1>0, <1>22 DEF Take, Routers
<1>23. CASE StartPrivately BY <1>0, <1>23 DEF StartPrivately, Deliver, Noticed, Routers
<1>24. CASE GiveBack BY <1>0, <1>24 DEF GiveBack, Routers
<1>25. CASE Repair BY <1>0, <1>25 DEF Repair, Deliver, Noticed, Routers
<1>26. CASE Receive BY <1>0, <1>26 DEF Receive, Routers
<1>27. CASE PeerEnds BY <1>0, <1>27 DEF PeerEnds, Routers
<1>28. CASE PeerLeaves BY <1>0, <1>28 DEF PeerLeaves, Routers
<1>29. ASSUME NEW next \in {"tick", "begin"}, Sample(next) PROVE Phases' /\ Turned'
  BY <1>0, <1>29 DEF Sample, Consume, NewRouter, Closed, Routers
<1>30. CASE UNCHANGED vars BY <1>30 DEF vars
<1> QED
  BY <1>1, <1>2, <1>3, <1>4, <1>5, <1>6, <1>7, <1>8, <1>9, <1>10, <1>11, <1>12, <1>13, <1>14, <1>15, <1>16, <1>17, <1>18, <1>19, <1>20, <1>21, <1>22, <1>23, <1>24, <1>25, <1>26, <1>27, <1>28, <1>29, <1>30
  DEF Next, Acquiring, Handoff, Restore

-----------------------------------------------------------------------------
(* Types *)

\* The router given up, and the new one.
LEMMA ClosedRouter ==
    /\ Closed \in Routers /\ NewRouter \in Routers
    /\ Closed.pad = Neutral /\ NewRouter.pad = Neutral
    /\ Closed.pending = << >> /\ NewRouter.pending = << >>
    /\ ~Closed.open /\ ~Closed.grabbed /\ ~Closed.remote
    /\ NewRouter.open /\ ~NewRouter.grabbed /\ ~NewRouter.remote
<1>1. Neutral \in States /\ << >> \in Seq(Frames) BY NeutralIsState
<1>2. Closed \in Routers BY <1>1 DEF Closed, Routers
<1> QED BY <1>1, <1>2 DEF Closed, NewRouter, Routers

\* The types hold at first.
LEMMA InitTyped == Init => Typed
<1>1. QueueMax \in Nat /\ 0 <= QueueMax BY TouchpadAssumption
<1> SUFFICES ASSUME Init PROVE Typed OBVIOUS
<1>2. unread \in Seq(Frames) /\ wire \in Seq(Messages) /\ Len(unread) = 0 BY DEF Init
<1>3. router \in Routers /\ router.pad = Neutral BY ClosedRouter DEF Init
<1>4. {real, kernel, seat, mirror, twin, router.pad} \subseteq States
  BY <1>3, NeutralIsState DEF Init
<1>5. TypeOK
  <2>1. {role, hosting} \cup ended \subseteq 0..begun BY DEF Init
  <2> QED BY <1>1, <1>2, <1>4, <2>1 DEF Init, TypeOK
<1> QED BY <1>2, <1>3, <1>5 DEF Init, Typed

\* Every step keeps the types.
LEMMA StepTyped ==
    ASSUME Typed, \A n \in DOMAIN wire : wire[n].session <= begun, [Next]_vars
    PROVE  Typed'
<1> USE DEF Typed, TypeOK, device, process, peer, history
<1>0. /\ Neutral \in States /\ << >> \in Seq(Frames) /\ << >> \in Seq(Messages)
      /\ Len(<< >>) = 0 /\ QueueMax \in Nat \ {0} /\ 0 <= QueueMax
      /\ Closed \in Routers /\ NewRouter \in Routers
      /\ Closed.pad = Neutral /\ NewRouter.pad = Neutral
  <2>1. QueueMax \in Nat \ {0} BY TouchpadAssumption
  <2>2. << >> \in Seq(Frames) /\ << >> \in Seq(Messages) /\ Len(<< >>) = 0 OBVIOUS
  <2> QED BY <2>1, <2>2, NeutralIsState, ClosedRouter
<1>a. /\ NeutralContacts \in States
      /\ [i \in Items |-> IF i \in Slots THEN 1 ELSE 0] \in States
  <2>1. kernel \in States OBVIOUS
  <2>2. ASSUME NEW i \in Items
        PROVE  /\ (IF i \in Slots THEN 0 ELSE kernel[i]) \in Values(i)
               /\ (IF i \in Slots THEN 1 ELSE 0) \in Values(i)
    BY <2>1, StateIs DEF Values
  <2> QED BY <2>2, StateIs DEF NeutralContacts
<1>b. /\ kernel \in States /\ router.pad \in States /\ mirror \in States
      /\ router.pending \in Seq(Frames) /\ unread \in Seq(Frames)
  BY DEF Routers
<1>c. /\ Replay(router.pad, unread) \in States
      /\ Replay(mirror, unread) \in States
      /\ Replay(Neutral, unread) \in States
      /\ router.pending \o unread \in Seq(Frames)
  BY <1>0, <1>b, ReplayType, ConcatProperties
<1>1. CASE Report BY <1>0, <1>b, <1>a, Delivered, <1>1 DEF Report, Noticed
<1>2. CASE ReportAgain BY <1>0, <1>b, <1>a, Delivered, <1>2 DEF ReportAgain, Noticed
<1>3. CASE Open BY <1>0, <1>b, <1>3 DEF Open
<1>4. CASE Route
  <2>1. router' \in Routers /\ router'.pad = router.pad
    BY <1>0, <1>4, FrameIs DEF Route, Routers
  <2>2. mirror' \in States
    BY <1>0, <1>b, <1>4, NeutralIsState DEF Route, Releases, Snapshot
  <2>3. wire' \in Seq(Messages)
    <3>1. router.pad \in Frames BY <1>b, FrameIs
    <3>2. role # 0 => <<Input(role, Snapshot(router.pad))>> \in Seq(Messages)
      <4>1. role # 0 => role \in Nat \ {0} OBVIOUS
      <4> QED BY <3>1, <4>1, OneMessage DEF Snapshot
    <3> QED BY <1>4, <3>2, Sent DEF Route
  <2> QED BY <1>4, <2>1, <2>2, <2>3 DEF Route
<1>5. CASE Acquire BY <1>0, <1>b, <1>5 DEF Acquire
<1>6. CASE Flush BY <1>0, <1>b, <1>6 DEF Flush
<1>7. CASE Inspect
  <2>1. router' \in Routers /\ router'.pad \in States
    BY <1>b, <1>7 DEF Inspect, Routers
  <2> QED BY <1>7, <2>1 DEF Inspect
<1>8. CASE EndPrivately BY <1>0, <1>b, <1>a, Delivered, <1>8 DEF EndPrivately, Noticed
<1>9. CASE Ungrab BY <1>0, <1>b, <1>9 DEF Ungrab
<1>10. CASE EndPublicly BY <1>0, <1>b, <1>a, Delivered, <1>10 DEF EndPublicly, Noticed
<1>11. CASE Tick
  <2>1. router' \in Routers /\ router'.pad = router.pad
    BY <1>0, <1>11 DEF Tick, Routers
  <2>2. wire' \in Seq(Messages)
    <3>1. ASSUME role # 0
          PROVE  [n \in DOMAIN router.pending |-> Input(role, router.pending[n])]
                    \in Seq(Messages)
      <4>1. \A n \in DOMAIN router.pending : Input(role, router.pending[n]) \in Messages
        <5>1. role \in Nat \ {0} BY <3>1
        <5>2. \A n \in DOMAIN router.pending : router.pending[n] \in Frames BY <1>b
        <5> QED BY <5>1, <5>2, OneMessage
      <4>2. DOMAIN router.pending = 1..Len(router.pending) /\ Len(router.pending) \in Nat
        BY <1>b
      <4> QED BY <4>1, <4>2
    <3> QED BY <1>11, <3>1, Sent, EndSent DEF Tick
  <2>3. role' \in {0, role} BY <1>11 DEF Tick
  <2> QED BY <1>11, <2>1, <2>2, <2>3 DEF Tick
<1>12. CASE Cross
  <2>1. CASE UNCHANGED <<begun, role, wire>> BY <1>12, <2>1 DEF Cross
  <2>2. CASE begun' = begun + 1 /\ role' = begun' /\ wire' = Send(<<Begin(begun')>>)
    <3>1. begun + 1 \in Nat \ {0} OBVIOUS
    <3>2. <<Begin(begun + 1)>> \in Seq(Messages) BY <3>1, FrameIs, OneMessage
    <3>3. wire' \in Seq(Messages) BY <2>2, <3>2, Sent
    <3>4. ({role, hosting} \cup ended)' \subseteq 0..begun' BY <1>12, <2>2 DEF Cross
    <3> QED BY <1>12, <2>2, <3>3, <3>4 DEF Cross
  <2> QED BY <1>12, <2>1, <2>2 DEF Cross
<1>13. CASE Return BY <1>0, <1>b, EndSent, <1>13 DEF Return
<1>14. CASE Suspend BY <1>0, <1>b, <1>14 DEF Suspend, Drop
<1>15. CASE Overrun BY <1>0, <1>b, <1>15 DEF Overrun, Drop
<1>16. CASE Fail BY <1>0, <1>b, <1>16 DEF Fail, Drop
<1>17. CASE Stop BY <1>0, <1>b, <1>17 DEF Stop, Drop
<1>18. CASE Dropped
  <2>1. wire' \in Seq(Messages) BY <1>18, EndSent DEF Dropped
  <2>2. up' \subseteq {"here", "peer"} BY <1>18 DEF Dropped
  <2>3. pc' \in {"top", "closed", "stopped"} BY <1>18 DEF Dropped
  <2> QED BY <1>18, <2>1, <2>2, <2>3 DEF Dropped
<1>19. CASE Unlock BY <1>0, <1>b, <1>19 DEF Unlock
<1>20. CASE Crash
  <2>1. router' \in Routers /\ router'.pad \in States /\ unread' \in Seq(Frames)
        /\ Len(unread') <= QueueMax
    BY <1>0, <1>20 DEF Crash
  <2>2. up' \subseteq {"here", "peer"} BY <1>20 DEF Crash
  <2>3. {real, kernel, seat, mirror, twin, router.pad}' \subseteq States
    BY <1>0, <1>20, <2>1 DEF Crash
  <2>4. /\ pc' = "stopped" /\ then' = "none" /\ grab' = FALSE /\ ready' = FALSE
        /\ quiet' = TRUE /\ role' = 0
        /\ UNCHANGED <<raced, begun, hosting, ended, wire>>
    BY <1>20 DEF Crash
  <2>5. ({role, hosting} \cup ended)' \subseteq 0..begun' BY <2>4
  <2>6. TypeOK' BY <2>1, <2>2, <2>3, <2>4, <2>5
  <2> QED BY <2>1, <2>4, <2>6
<1>21. CASE Look BY <1>0, <1>b, <1>21 DEF Look
<1>22. CASE Take BY <1>0, <1>b, <1>22 DEF Take
<1>23. CASE StartPrivately BY <1>0, <1>b, <1>a, Delivered, <1>23 DEF StartPrivately, Noticed
<1>24. CASE GiveBack BY <1>0, <1>b, <1>24 DEF GiveBack
<1>25. CASE Repair BY <1>0, <1>b, <1>a, Delivered, <1>25 DEF Repair, Noticed
<1>26. CASE Receive
  <2> DEFINE m == Head(wire)
  <2>1. m \in Messages /\ wire' \in Seq(Messages)
    BY <1>26, HeadTailProperties DEF Receive
  <2>2. \A t \in States : Apply(t, m.frame) \in States
    <3> TAKE t \in States
    <3>1. <<m.frame>> \in Seq(Frames) BY <2>1 DEF Messages
    <3>2. Replay(t, <<m.frame>>) \in States BY <3>1, ReplayType
    <3> QED BY <3>2, ReplayOne
  <2> HIDE DEF m
  <2>3. twin' \in States
    BY <1>0, <1>26, <2>2 DEF Receive, Releases, m
  <2>4. ({role, hosting} \cup ended)' \subseteq 0..begun
    <3>1. m.session <= begun /\ m.session \in Nat
      <4>1. wire[1] = m /\ 1 \in DOMAIN wire BY <1>26 DEF Receive, m
      <4> QED BY <2>1, <4>1 DEF Messages
    <3> QED BY <1>26, <3>1 DEF Receive, m
  <2> QED BY <1>26, <2>1, <2>3, <2>4 DEF Receive
<1>27. CASE PeerEnds
  <2>1. twin' \in States BY <1>0, <1>27 DEF PeerEnds, Releases
  <2>2. ({role, hosting} \cup ended)' \subseteq 0..begun BY <1>27 DEF PeerEnds
  <2> QED BY <1>27, <2>1, <2>2 DEF PeerEnds
<1>28. CASE PeerLeaves BY <1>0, <1>b, <1>28 DEF PeerLeaves
<1>29. ASSUME NEW next \in {"tick", "begin"}, Sample(next) PROVE Typed'
  <2>1. PICK r \in {router, NewRouter} :
          /\ r = IF router.open THEN router ELSE NewRouter
          /\ \/ /\ router' = Consume(r) /\ mirror' = Shown(r) /\ pc' = "sampled"
             \/ /\ router' = r /\ mirror' = mirror
                /\ pc' \in {"checked", "sampled"}
    BY <1>29 DEF Sample
  <2>2. r \in Routers /\ r.pad \in States /\ r.pending \in Seq(Frames)
    BY <1>0, <2>1 DEF Routers
  <2>3. Consume(r) \in Routers /\ Consume(r).pad \in States
    <3>1. Replay(r.pad, unread) \in States /\ r.pending \o unread \in Seq(Frames)
      BY <1>b, <2>2, ReplayType, ConcatProperties
    <3> QED BY <2>2, <3>1 DEF Consume, Routers
  <2>4. Shown(r) \in States BY <1>b, <1>c DEF Shown
  <2>5. router' \in Routers /\ router'.pad \in States /\ mirror' \in States
    BY <1>b, <2>1, <2>2, <2>3, <2>4
  <2> QED BY <1>0, <1>29, <2>1, <2>5 DEF Sample
<1>30. CASE UNCHANGED vars BY <1>30 DEF vars
<1> QED
  BY <1>1, <1>2, <1>3, <1>4, <1>5, <1>6, <1>7, <1>8, <1>9, <1>10, <1>11, <1>12, <1>13, <1>14, <1>15, <1>16, <1>17, <1>18, <1>19, <1>20, <1>21, <1>22, <1>23, <1>24, <1>25, <1>26, <1>27, <1>28, <1>29, <1>30
  DEF Next, Acquiring, Handoff, Restore

-----------------------------------------------------------------------------
(* The device *)

\* The mirror shows the copy while control is local.
Mirrored == mirror = IF router.grabbed /\ ~router.remote THEN router.pad ELSE Neutral

\* The copy follows the kernel, up to what is unread.
Followed == router.grabbed /\ unread # <<Lost>> => Replay(router.pad, unread) = kernel

\* The compositor's reader shows only what the kernel holds to be down.
Down == \A i \in Items : seat[i] # 0 => kernel[i] # 0

\* Nothing is shown at first.
LEMMA InitDevice == Init => Looked /\ Recent /\ ShownOnce /\ MirrorInStep
BY NeutralIsState DEF Init, Looked, Recent, ShownOnce, MirrorInStep, Closed

\* A report delivered goes where the queue follows it.
LEMMA DeliveredQueue ==
    ASSUME Typed, Phases, Recent, Followed, NEW new \in States, Deliver(new),
           UNCHANGED router
    PROVE  Recent' /\ Followed'
<1>1. kernel \in States /\ unread \in Seq(Frames) /\ router.pad \in States
      /\ kernel' = new /\ (router.grabbed => router.open)
  BY DEF Typed, TypeOK, Deliver, Phases
<1>2. CASE new = kernel \/ ~router.open
  BY <1>1, <1>2 DEF Deliver, Recent, Followed
<1>3. CASE new # kernel /\ router.open
  <2>1. unread' = Queued(Changes(kernel, new)) BY <1>3 DEF Deliver
  <2>2. SUFFICES ASSUME unread # <<Lost>>, unread' = Append(unread, Changes(kernel, new))
                 PROVE  Recent' /\ Followed'
    <3>1. unread' = <<Lost>> => Recent' /\ Followed' BY DEF Recent, Followed
    <3> QED BY <2>1, <3>1 DEF Queued
  <2>3. Recent' BY <1>1, <1>3, <2>2, RecentChanges DEF Recent
  <2>4. Followed' BY <1>1, <2>2, FollowChanges DEF Followed
  <2> QED BY <2>3, <2>4
<1> QED BY <1>2, <1>3

\* What the compositor's reader shows is down in the kernel.
LEMMA DeliveredDown ==
    ASSUME Typed, NEW new \in States, Deliver(new), Down
    PROVE  /\ grab => seat' = seat
           /\ ~grab => Down'
           /\ kernel' = new
<1>1. kernel \in States /\ seat \in States BY DEF Typed, TypeOK
<1>2. ASSUME ~grab, NEW i \in Items, seat'[i] # 0 PROVE kernel'[i] # 0
  <2>1. seat'[i] = IF new[i] # kernel[i] THEN new[i] ELSE seat[i]
    BY <1>1, <1>2, ApplyChanges DEF Deliver
  <2> QED BY <1>2, <2>1 DEF Deliver, Down
<1> QED BY <1>2 DEF Deliver, Down

\* A report, delivered while nothing else changes, leaves a touch shown once.
LEMMA DeliveredOnce ==
    ASSUME Typed, Phases, Mirrored, ShownOnce, NEW new \in States, Deliver(new),
           UNCHANGED <<grab, router, mirror>>, raced => raced'
    PROVE  ShownOnce' /\ Mirrored'
<1>1. Mirrored' BY DEF Mirrored
<1>2. SUFFICES ASSUME ~raced' PROVE ShownOnce' BY <1>1 DEF ShownOnce
<1>3. (grab => seat = Neutral) /\ Down BY <1>2 DEF ShownOnce, Down
<1>4. CASE grab
  <2>1. seat' = Neutral BY <1>3, <1>4, DeliveredDown
  <2> QED BY <1>4, <2>1, NeutralIsState DEF ShownOnce
<1>5. CASE ~grab
  <2>1. Down' BY <1>3, <1>5, DeliveredDown
  <2>2. ~router.grabbed BY <1>5 DEF Phases
  <2>3. mirror' = Neutral BY <2>2 DEF Mirrored
  <2> QED BY <1>5, <2>1, <2>3 DEF ShownOnce, Down
<1> QED BY <1>4, <1>5

\* A reader that shows only what is down shows nothing when nothing is.
LEMMA NeutralBelow ==
    ASSUME Typed, Down, kernel = Neutral
    PROVE  seat = Neutral
<1>1. seat \in States BY DEF Typed, TypeOK
<1>2. \A i \in Items : seat[i] = 0 BY NeutralIsState DEF Down
<1>3. seat = [i \in Items |-> seat[i]] BY <1>1, StateIs
<1> QED BY <1>2, <1>3 DEF Neutral

\* Every step keeps what the readers, the queue and the mirror show in step.
LEMMA StepDevice ==
    ASSUME Typed, Phases, Looked, Recent, ShownOnce, MirrorInStep, [Next]_vars
    PROVE  Looked' /\ Recent' /\ ShownOnce' /\ MirrorInStep'
<1>0. Mirrored /\ Followed /\ Neutral \in States
  BY NeutralIsState DEF MirrorInStep, Mirrored, Followed
<1>1. /\ Typed /\ Phases /\ Mirrored /\ Followed
      /\ kernel \in States /\ NeutralContacts \in States /\ Contacts \in States
  <2>1. kernel \in States BY DEF Typed, TypeOK
  <2>2. ASSUME NEW i \in Items
        PROVE  /\ (IF i \in Slots THEN 0 ELSE kernel[i]) \in Values(i)
               /\ (IF i \in Slots THEN 1 ELSE 0) \in Values(i)
    BY <2>1, StateIs DEF Values
  <2>3. NeutralContacts \in States /\ Contacts \in States
    BY <2>2, StateIs DEF NeutralContacts, Contacts
  <2> QED BY <1>0, <2>1, <2>3
<1>2. router \in Routers BY DEF Typed
<1> SUFFICES Looked' /\ Recent' /\ ShownOnce' /\ Mirrored' /\ Followed'
  BY DEF MirrorInStep, Mirrored, Followed
<1> USE <1>0
<1>3. CASE Report
  <2>1. PICK now \in States : Deliver(now) BY <1>3 DEF Report
  <2>2. Noticed /\ UNCHANGED <<pc, grab, router, mirror>> BY <1>3 DEF Report, process
  <2>3. Looked' BY <2>2 DEF Looked, Noticed
  <2>4. raced => raced' BY <2>2 DEF Noticed
  <2> QED BY <2>1, <2>2, <2>3, <2>4, DeliveredQueue, DeliveredOnce
<1>4. CASE ReportAgain
  <2>1. Deliver(real) /\ real \in States BY <1>4 DEF ReportAgain, Typed, TypeOK
  <2>2. Noticed /\ UNCHANGED <<pc, grab, router, mirror>> BY <1>4 DEF ReportAgain, process
  <2>3. Looked' BY <2>2 DEF Looked, Noticed
  <2>4. raced => raced' BY <2>2 DEF Noticed
  <2> QED BY <2>1, <2>2, <2>3, <2>4, DeliveredQueue, DeliveredOnce
<1>5. CASE Open
  <2>1. /\ router' = NewRouter /\ unread' = << >> /\ pc' = "top"
        /\ UNCHANGED <<kernel, seat, grab, mirror, raced>>
    BY <1>5 DEF Open
  <2>2. ~router.grabbed BY <1>5 DEF Open, Phases
  <2>3. Mirrored' BY <2>1, <2>2, ClosedRouter DEF Mirrored
  <2>4. Recent' BY <1>1, <2>1, ReplayEmpty DEF Recent
  <2>5. ShownOnce' BY <2>1 DEF ShownOnce
  <2>6. Looked' /\ Followed' BY <2>1, ClosedRouter DEF Looked, Followed
  <2> QED BY <2>3, <2>4, <2>5, <2>6
<1>6. CASE Route
  <2>1. /\ UNCHANGED <<kernel, seat, grab, unread, raced>> /\ pc' = "select"
        /\ router'.open = router.open /\ router'.grabbed = router.grabbed
        /\ router'.pad = router.pad
    BY <1>6, <1>2 DEF Route, device, history, Routers
  <2>2. Mirrored'
    BY <1>6, <1>2 DEF Route, Mirrored, Releases, Snapshot, Phases, Routers
  <2>3. ~router.grabbed => mirror' = mirror BY <1>6 DEF Route
  <2>4. Looked' /\ Recent' /\ Followed' BY <2>1 DEF Looked, Recent, Followed
  <2>5. ShownOnce'
    <3>1. router.grabbed => grab BY DEF Phases
    <3> QED BY <2>1, <2>3, <3>1 DEF ShownOnce
  <2> QED BY <2>2, <2>4, <2>5
<1>7. CASE Acquire
  <2>1. /\ UNCHANGED <<kernel, seat, unread, router, mirror, raced>>
        /\ pc = "checked" /\ pc' = "owned" /\ grab' = TRUE
    BY <1>7 DEF Acquire, history
  <2>2. ShownOnce'
    <3>1. SUFFICES ASSUME ~raced PROVE ShownOnce' BY <2>1 DEF ShownOnce
    <3>2. kernel = Neutral /\ Down BY <2>1, <3>1 DEF Looked, ShownOnce, Down
    <3>3. seat = Neutral BY <1>1, <3>2, NeutralBelow
    <3> QED BY <2>1, <3>2, <3>3 DEF ShownOnce, Down
  <2> QED BY <2>1, <2>2 DEF Looked, Recent, Mirrored, Followed
<1>8. CASE Flush
  <2>1. /\ UNCHANGED <<kernel, seat, grab, router, mirror, raced>> /\ unread' = << >>
        /\ pc = "owned" /\ pc' = "flushed"
    BY <1>8 DEF Flush, history
  <2>2. Recent' BY <1>1, <2>1, ReplayEmpty DEF Recent
  <2>3. ~router.grabbed BY <2>1 DEF Phases
  <2> QED BY <2>1, <2>2, <2>3 DEF Looked, ShownOnce, Mirrored, Followed
<1>9. CASE Inspect
  <2>1. /\ UNCHANGED <<kernel, seat, grab, unread, mirror, raced>> /\ pc = "flushed"
        /\ pc' \in {"sampled", "release"} /\ router'.open = router.open
    BY <1>9, <1>2 DEF Inspect, device, history, Routers
  <2>2. ~router.grabbed /\ router.open BY <2>1 DEF Phases, Acquires
  <2>3. CASE router' = router
    BY <2>1, <2>3 DEF Looked, Recent, Mirrored, Followed, ShownOnce
  <2>4. CASE router' # router
    <3>1. kernel = Neutral /\ router' = [router EXCEPT !.grabbed = TRUE, !.pad = kernel]
      BY <1>9, <2>4 DEF Inspect, Idle
    <3>2. router'.grabbed /\ router'.pad = kernel BY <1>2, <3>1 DEF Routers
    <3>3. Mirrored' BY <2>1, <2>2, <3>1, <3>2 DEF Mirrored
    <3>4. Followed' BY <2>1, <2>2, <3>2 DEF Followed, Recent
    <3> QED BY <2>1, <3>3, <3>4 DEF Looked, Recent, ShownOnce
  <2> QED BY <2>3, <2>4
<1>10. CASE EndPrivately
  <2>1. Deliver(Neutral) /\ UNCHANGED <<grab, router, mirror, raced>> /\ pc' = "hidden"
    BY <1>10 DEF EndPrivately, history
  <2>2. Looked' BY <2>1 DEF Looked
  <2> QED BY <1>0, <2>1, <2>2, DeliveredQueue, DeliveredOnce
<1>11. CASE Ungrab
  <2>1. /\ UNCHANGED <<kernel, seat, unread, mirror, raced, quiet>>
        /\ (grab' => grab) /\ pc' \in {"freed"}
        /\ router'.open = router.open /\ router'.grabbed = router.grabbed
        /\ router'.remote = router.remote /\ router'.pad = router.pad
    BY <1>11, <1>2 DEF Ungrab, device, process, peer, history, Routers
  <2> QED BY <1>11, <2>1 DEF Ungrab, Looked, Recent, ShownOnce, Mirrored, Followed
<1>12. CASE EndPublicly
  <2>1. Deliver(NeutralContacts) /\ UNCHANGED <<grab, router, mirror, raced>>
        /\ pc' \in {"sampled", "dropped"}
    BY <1>12 DEF EndPublicly, history
  <2>2. Looked' BY <2>1 DEF Looked
  <2> QED BY <1>1, <2>1, <2>2, DeliveredQueue, DeliveredOnce
<1>13. CASE Tick
  <2>1. /\ UNCHANGED <<kernel, seat, unread, mirror, raced, quiet>>
        /\ (grab' => grab) /\ pc' \in {"top"}
        /\ router'.open = router.open /\ router'.grabbed = router.grabbed
        /\ router'.remote = router.remote /\ router'.pad = router.pad
    BY <1>13, <1>2 DEF Tick, device, process, peer, history, Routers
  <2> QED BY <1>13, <2>1 DEF Tick, Looked, Recent, ShownOnce, Mirrored, Followed
<1>14. CASE Cross
  <2>1. /\ UNCHANGED <<kernel, seat, unread, mirror, raced, quiet>>
        /\ (grab' => grab) /\ pc' \in {"top"}
        /\ router'.open = router.open /\ router'.grabbed = router.grabbed
        /\ router'.remote = router.remote /\ router'.pad = router.pad
    BY <1>14, <1>2 DEF Cross, device, process, peer, history, Routers
  <2> QED BY <1>14, <2>1 DEF Cross, Looked, Recent, ShownOnce, Mirrored, Followed
<1>15. CASE Return
  <2>1. /\ UNCHANGED <<kernel, seat, unread, mirror, raced, quiet>>
        /\ (grab' => grab) /\ pc' \in {"top"}
        /\ router'.open = router.open /\ router'.grabbed = router.grabbed
        /\ router'.remote = router.remote /\ router'.pad = router.pad
    BY <1>15, <1>2 DEF Return, device, process, peer, history, Routers
  <2> QED BY <1>15, <2>1 DEF Return, Looked, Recent, ShownOnce, Mirrored, Followed
<1>16. CASE Suspend
  <2>1. /\ UNCHANGED <<kernel, seat, raced>> /\ unread' = << >>
        /\ router' = Closed /\ mirror' = Neutral /\ (grab' => grab)
        /\ pc' \in {"release", "dropped"}
    BY <1>16 DEF Suspend, Drop, history
  <2> QED BY <2>1, ClosedRouter DEF Looked, Recent, ShownOnce, Mirrored, Followed
<1>17. CASE Overrun
  <2>1. /\ UNCHANGED <<kernel, seat, raced>> /\ unread' = << >>
        /\ router' = Closed /\ mirror' = Neutral /\ (grab' => grab)
        /\ pc' \in {"release", "dropped"}
    BY <1>17 DEF Overrun, Drop, history
  <2> QED BY <2>1, ClosedRouter DEF Looked, Recent, ShownOnce, Mirrored, Followed
<1>18. CASE Fail
  <2>1. /\ UNCHANGED <<kernel, seat, raced>> /\ unread' = << >>
        /\ router' = Closed /\ mirror' = Neutral /\ (grab' => grab)
        /\ pc' \in {"release", "dropped"}
    BY <1>18 DEF Fail, Drop, history
  <2> QED BY <2>1, ClosedRouter DEF Looked, Recent, ShownOnce, Mirrored, Followed
<1>19. CASE Stop
  <2>1. /\ UNCHANGED <<kernel, seat, raced>> /\ unread' = << >>
        /\ router' = Closed /\ mirror' = Neutral /\ (grab' => grab)
        /\ pc' \in {"release", "dropped"}
    BY <1>19 DEF Stop, Drop, history
  <2> QED BY <2>1, ClosedRouter DEF Looked, Recent, ShownOnce, Mirrored, Followed
<1>20. CASE Dropped
  <2>1. /\ UNCHANGED <<kernel, seat, unread, mirror, raced, quiet>>
        /\ (grab' => grab) /\ pc' \in {"top", "closed", "stopped"}
        /\ router'.open = router.open /\ router'.grabbed = router.grabbed
        /\ router'.remote = router.remote /\ router'.pad = router.pad
    BY <1>20, <1>2 DEF Dropped, device, process, peer, history, Routers
  <2> QED BY <1>20, <2>1 DEF Dropped, Looked, Recent, ShownOnce, Mirrored, Followed
<1>21. CASE Unlock
  <2>1. /\ UNCHANGED <<kernel, seat, unread, mirror, raced, quiet>>
        /\ (grab' => grab) /\ pc' \in {"top"}
        /\ router'.open = router.open /\ router'.grabbed = router.grabbed
        /\ router'.remote = router.remote /\ router'.pad = router.pad
    BY <1>21, <1>2 DEF Unlock, device, process, peer, history, Routers
  <2> QED BY <1>21, <2>1 DEF Unlock, Looked, Recent, ShownOnce, Mirrored, Followed
<1>22. CASE Crash
  <2>1. /\ UNCHANGED <<kernel, seat, raced>> /\ unread' = << >>
        /\ router' = Closed /\ mirror' = Neutral /\ grab' = FALSE /\ pc' = "stopped"
    BY <1>22 DEF Crash
  <2> QED BY <2>1, ClosedRouter DEF Looked, Recent, ShownOnce, Mirrored, Followed
<1>23. CASE Look
  <2>1. /\ UNCHANGED <<kernel, seat, unread, mirror, raced, quiet>>
        /\ (grab' => grab) /\ pc' \in {"look"}
        /\ router'.open = router.open /\ router'.grabbed = router.grabbed
        /\ router'.remote = router.remote /\ router'.pad = router.pad
    BY <1>23, <1>2 DEF Look, device, process, peer, history, Routers
  <2> QED BY <1>23, <2>1 DEF Look, Looked, Recent, ShownOnce, Mirrored, Followed, Idle
<1>24. CASE Take
  <2>1. /\ UNCHANGED <<kernel, seat, unread, router, mirror, raced>>
        /\ pc = "look" /\ pc' = "taken" /\ grab' = TRUE
    BY <1>24 DEF Take, history
  <2>2. ShownOnce'
    <3>1. SUFFICES ASSUME ~raced PROVE ShownOnce' BY <2>1 DEF ShownOnce
    <3>2. kernel = Neutral /\ Down BY <2>1, <3>1 DEF Looked, ShownOnce, Down
    <3>3. seat = Neutral BY <1>1, <3>2, NeutralBelow
    <3> QED BY <2>1, <3>2, <3>3 DEF ShownOnce, Down
  <2> QED BY <2>1, <2>2 DEF Looked, Recent, Mirrored, Followed
<1>25. CASE StartPrivately
  <2>1. UNCHANGED <<router, mirror, raced>> BY <1>25 DEF StartPrivately
  <2>2. CASE Idle(kernel)
    <3>1. Deliver(Contacts) /\ UNCHANGED <<grab, quiet>> /\ pc' = "started"
      BY <1>25, <2>2 DEF StartPrivately, Contacts
    <3>2. Looked' BY <3>1 DEF Looked, Deliver
    <3> QED BY <1>1, <2>1, <3>1, <3>2, DeliveredQueue, DeliveredOnce
  <2>3. CASE ~Idle(kernel)
    <3>1. grab' = FALSE /\ pc' = "stopped" /\ UNCHANGED <<kernel, seat, unread>>
      BY <1>25, <2>3 DEF StartPrivately
    <3> QED BY <2>1, <3>1 DEF Looked, Recent, ShownOnce, Mirrored, Followed
  <2> QED BY <2>2, <2>3
<1>26. CASE GiveBack
  <2>1. /\ UNCHANGED <<kernel, seat, unread, mirror, raced, quiet>>
        /\ (grab' => grab) /\ pc' \in {"repair"}
        /\ router'.open = router.open /\ router'.grabbed = router.grabbed
        /\ router'.remote = router.remote /\ router'.pad = router.pad
    BY <1>26, <1>2 DEF GiveBack, device, process, peer, history, Routers
  <2> QED BY <1>26, <2>1 DEF GiveBack, Looked, Recent, ShownOnce, Mirrored, Followed
<1>27. CASE Repair
  <2>1. Deliver(NeutralContacts) /\ UNCHANGED <<grab, router, mirror>>
        /\ pc = "repair" /\ pc' = "stopped"
        /\ raced' = (raced /\ (~quiet \/ seat["click"] # 0))
    BY <1>27 DEF Repair
  <2>2. Looked' BY <2>1 DEF Looked
  <2>3. Recent' /\ Followed' BY <1>1, <2>1, DeliveredQueue
  <2>4. ~grab /\ ~router.grabbed BY <2>1 DEF Phases, Idles, Restores
  <2>5. Mirrored' /\ mirror' = Neutral BY <2>1, <2>4 DEF Mirrored
  <2>6. CASE ~raced
    <3>1. Down BY <2>6 DEF ShownOnce, Down
    <3>2. Down' BY <1>1, <2>1, <2>4, <3>1, DeliveredDown
    <3> QED BY <2>1, <2>2, <2>3, <2>4, <2>5, <3>2 DEF ShownOnce, Down
  <2>7. CASE raced /\ quiet /\ seat["click"] = 0
    <3>1. kernel = Contacts BY <2>1, <2>7 DEF Looked
    <3>2. ASSUME NEW i \in Items PROVE seat'[i] = 0
      <4>1. seat'[i] = IF NeutralContacts[i] # kernel[i] THEN NeutralContacts[i] ELSE seat[i]
        <5>1. kernel \in States BY DEF Typed, TypeOK
        <5>2. seat' = Apply(seat, Changes(kernel, NeutralContacts))
          BY <2>1, <2>4 DEF Deliver
        <5> QED BY <1>1, <5>1, <5>2, ApplyChanges
      <4>2. CASE i \in Slots
        BY <3>1, <4>1, <4>2 DEF NeutralContacts, Contacts
      <4>3. CASE i \notin Slots
        <5>1. i = "click" BY <4>3 DEF Items
        <5> QED BY <2>7, <3>1, <4>1, <4>3, <5>1 DEF NeutralContacts, Contacts
      <4> QED BY <4>2, <4>3
    <3>3. seat' = Neutral
      <4>1. seat' \in States BY <1>1, <2>1, Delivered
      <4>2. seat' = [i \in Items |-> seat'[i]] BY <4>1, StateIs
      <4> QED BY <3>2, <4>2 DEF Neutral
    <3>4. ShownOnce' BY <3>3, NeutralIsState DEF ShownOnce
    <3> QED BY <2>2, <2>3, <2>5, <3>4
  <2>8. CASE raced /\ ~(quiet /\ seat["click"] = 0)
    <3>1. raced' BY <2>1, <2>8
    <3> QED BY <2>2, <2>3, <2>5, <3>1 DEF ShownOnce
  <2> QED BY <2>6, <2>7, <2>8
<1>28. CASE Receive
  <2>1. /\ UNCHANGED <<kernel, seat, unread, mirror, raced, quiet>>
        /\ (grab' => grab) /\ pc' \in {pc}
        /\ router'.open = router.open /\ router'.grabbed = router.grabbed
        /\ router'.remote = router.remote /\ router'.pad = router.pad
    BY <1>28, <1>2 DEF Receive, device, process, peer, history, Routers
  <2> QED BY <1>28, <2>1 DEF Receive, Looked, Recent, ShownOnce, Mirrored, Followed
<1>29. CASE PeerEnds
  <2>1. /\ UNCHANGED <<kernel, seat, unread, mirror, raced, quiet>>
        /\ (grab' => grab) /\ pc' \in {pc}
        /\ router'.open = router.open /\ router'.grabbed = router.grabbed
        /\ router'.remote = router.remote /\ router'.pad = router.pad
    BY <1>29, <1>2 DEF PeerEnds, device, process, peer, history, Routers
  <2> QED BY <1>29, <2>1 DEF PeerEnds, Looked, Recent, ShownOnce, Mirrored, Followed
<1>30. CASE PeerLeaves
  <2>1. /\ UNCHANGED <<kernel, seat, unread, mirror, raced, quiet>>
        /\ (grab' => grab) /\ pc' \in {pc}
        /\ router'.open = router.open /\ router'.grabbed = router.grabbed
        /\ router'.remote = router.remote /\ router'.pad = router.pad
    BY <1>30, <1>2 DEF PeerLeaves, device, process, peer, history, Routers
  <2> QED BY <1>30, <2>1 DEF PeerLeaves, Looked, Recent, ShownOnce, Mirrored, Followed
<1>31. ASSUME NEW next \in {"tick", "begin"}, Sample(next)
      PROVE  Looked' /\ Recent' /\ ShownOnce' /\ Mirrored' /\ Followed'
  <2> DEFINE r == IF router.open THEN router ELSE NewRouter
  <2>1. UNCHANGED <<kernel, seat, grab, raced>> /\ unread' = << >>
    BY <1>31 DEF Sample, history
  <2>2. r \in Routers /\ (r.grabbed => r = router /\ router.open)
    BY <1>2, ClosedRouter
  <2>3. r.grabbed \/ router.grabbed => r = router BY <2>2 DEF Phases
  <2>4. Recent' BY <1>1, <2>1, ReplayEmpty DEF Recent
  <2>5. CASE r.grabbed /\ unread # <<Lost>> /\ router' = Consume(r) /\ mirror' = Shown(r)
             /\ pc' = "sampled"
    <3>1. r = router /\ router.grabbed BY <2>2, <2>5
    <3>2. router'.pad = kernel /\ router'.grabbed /\ router'.remote = router.remote
      BY <1>2, <2>5, <3>1 DEF Consume, Followed, Routers
    <3>3. Followed' BY <1>1, <2>1, <3>2, ReplayEmpty DEF Followed
    <3>4. Mirrored'
      BY <2>5, <3>1, <3>2 DEF Mirrored, Shown, Followed
    <3>5. ShownOnce'
      <4>1. grab BY <3>1 DEF Phases
      <4> QED BY <2>1, <4>1 DEF ShownOnce
    <3> QED BY <2>4, <2>5, <3>3, <3>4, <3>5 DEF Looked
  <2>6. CASE ~r.grabbed /\ router' = r /\ mirror' = mirror
             /\ pc' = IF Free(kernel) THEN "checked" ELSE "sampled"
    <3>1. ~router.grabbed BY <2>3, <2>6
    <3>2. Mirrored' BY <2>6, <3>1 DEF Mirrored
    <3>3. Followed' BY <2>6 DEF Followed
    <3>4. Looked' BY <2>1, <2>6 DEF Looked, Free
    <3>5. ShownOnce' BY <2>1, <2>6 DEF ShownOnce
    <3> QED BY <2>4, <3>2, <3>3, <3>4, <3>5
  <2> QED BY <1>31, <2>5, <2>6 DEF Sample
<1>32. CASE UNCHANGED vars
  BY <1>32 DEF vars, device, process, peer, history, Looked, Recent, ShownOnce, Mirrored, Followed
<1> QED
  BY <1>3, <1>4, <1>5, <1>6, <1>7, <1>8, <1>9, <1>10, <1>11, <1>12, <1>13, <1>14, <1>15, <1>16, <1>17, <1>18, <1>19, <1>20, <1>21, <1>22, <1>23, <1>24, <1>25, <1>26, <1>27, <1>28, <1>29, <1>30, <1>31, <1>32
  DEF Next, Acquiring, Handoff, Restore

-----------------------------------------------------------------------------
(* The messages between the two ends *)

\* The messages after the first.
LEMMA Rest ==
    ASSUME NEW S, NEW w \in Seq(S), w # << >>
    PROVE  /\ Tail(w) \in Seq(S) /\ Len(Tail(w)) \in Nat /\ Len(w) = Len(Tail(w)) + 1
           /\ Head(w) = w[1] /\ 1 \in 1..Len(w)
           /\ \A n \in 1..Len(Tail(w)) : Tail(w)[n] = w[n + 1] /\ n + 1 \in 1..Len(w)
           /\ \A n \in 1..Len(w) : n = 1 \/ \E k \in 1..Len(Tail(w)) : n = k + 1
<1>1. /\ Tail(w) \in Seq(S) /\ Len(Tail(w)) = Len(w) - 1
      /\ \A n \in 1..Len(Tail(w)) : Tail(w)[n] = w[n + 1]
  BY HeadTailProperties
<1>2. Len(w) \in Nat /\ Len(w) # 0 OBVIOUS
<1>3. ASSUME NEW n \in 1..Len(w), n # 1
      PROVE  \E k \in 1..(Len(w) - 1) : n = k + 1
  <2>1. n - 1 \in 1..(Len(w) - 1) /\ n = (n - 1) + 1 BY <1>2, <1>3
  <2> QED BY <2>1
<1>4. Len(w) - 1 \in Nat /\ Len(w) = (Len(w) - 1) + 1 /\ 1 \in 1..Len(w)
  BY <1>2
<1>5. \A n \in 1..(Len(w) - 1) : n + 1 \in 1..Len(w) BY <1>2
<1> QED BY <1>1, <1>3, <1>4, <1>5

\* Reading the first message keeps the order of the others.
LEMMA RestOrdered ==
    ASSUME NEW w \in Seq(Messages), w # << >>, Ordered(w), Closing(w)
    PROVE  Ordered(Tail(w)) /\ Closing(Tail(w))
<1> DEFINE t == Tail(w)
<1>1. /\ t \in Seq(Messages) /\ Len(t) \in Nat /\ Len(w) = Len(t) + 1
      /\ \A n \in 1..Len(t) : t[n] = w[n + 1] /\ n + 1 \in 1..Len(w)
      /\ \A n \in 1..Len(w) : n = 1 \/ \E k \in 1..Len(t) : n = k + 1
  BY Rest
<1> HIDE DEF t
<1>2. DOMAIN t = 1..Len(t) /\ DOMAIN w = 1..Len(w) BY <1>1
<1>3. Ordered(t)
  <2> SUFFICES ASSUME NEW n \in DOMAIN t, NEW m \in DOMAIN t, n < m
               PROVE  /\ t[n].session <= t[m].session
                      /\ t[m].kind = "begin" \/ t[n].kind = "end" =>
                            t[n].session < t[m].session
    BY DEF Ordered
  <2>1. n + 1 \in DOMAIN w /\ m + 1 \in DOMAIN w /\ n + 1 < m + 1
        /\ t[n] = w[n + 1] /\ t[m] = w[m + 1] BY <1>1, <1>2
  <2> QED BY <2>1 DEF Ordered
<1>4. Closing(t)
  <2> SUFFICES ASSUME NEW n \in DOMAIN t, NEW m \in DOMAIN t, n < m,
                      t[n].kind = "begin", t[m].kind = "begin"
               PROVE  \E k \in n..m : Ending(t, t[n].session, k)
    BY DEF Closing
  <2>1. n + 1 \in DOMAIN w /\ m + 1 \in DOMAIN w /\ n + 1 < m + 1
        /\ t[n] = w[n + 1] /\ t[m] = w[m + 1] BY <1>1, <1>2
  <2>2. PICK k \in (n + 1)..(m + 1) : Ending(w, t[n].session, k)
    BY <2>1 DEF Closing
  <2>3. PICK j \in n..m : k = j + 1
    <3>1. k - 1 \in n..m /\ k = (k - 1) + 1 BY <1>2
    <3> QED BY <3>1
  <2>4. t[j] = w[k] BY <1>1, <1>2, <2>3
  <2> QED BY <2>2, <2>4 DEF Ending
<1> QED BY <1>3, <1>4 DEF t

\* An Ending that is not the first message is still to be read.
LEMMA RestEnding ==
    ASSUME NEW w \in Seq(Messages), w # << >>, NEW s, NEW k \in DOMAIN w,
           Ending(w, s, k), k # 1
    PROVE  k - 1 \in DOMAIN Tail(w) /\ Ending(Tail(w), s, k - 1)
<1> DEFINE t == Tail(w)
<1>1. /\ t \in Seq(Messages) /\ Len(t) \in Nat /\ Len(w) = Len(t) + 1
      /\ \A n \in 1..Len(t) : t[n] = w[n + 1]
      /\ \A n \in 1..Len(w) : n = 1 \/ \E j \in 1..Len(t) : n = j + 1
  BY Rest
<1> HIDE DEF t
<1>2. PICK j \in 1..Len(t) : k = j + 1 BY <1>1
<1>3. k - 1 = j /\ t[j] = w[k] /\ j \in DOMAIN t BY <1>1, <1>2
<1>4. Ending(t, s, j) BY <1>3 DEF Ending
<1> QED BY <1>3, <1>4 DEF t

\* Once a message is read, what was ahead of the others is, unless it was the
\* End of the session.
LEMMA RestAhead ==
    ASSUME NEW w \in Seq(Messages), w # << >>, NEW h \in Nat, Ahead(w, h),
           ~ Ending(w, h, 1)
    PROVE  Ahead(Tail(w), h)
<1> DEFINE t == Tail(w)
<1>1. /\ t \in Seq(Messages) /\ Len(t) \in Nat /\ Len(w) = Len(t) + 1
      /\ \A n \in 1..Len(t) : t[n] = w[n + 1] /\ n + 1 \in 1..Len(w)
  BY Rest
<1>2. \A k \in DOMAIN w : Ending(w, h, k) /\ k # 1 =>
          k - 1 \in DOMAIN t /\ Ending(t, h, k - 1)
  BY RestEnding
<1> HIDE DEF t
<1>3. DOMAIN t = 1..Len(t) /\ DOMAIN w = 1..Len(w) BY <1>1
<1>4. ASSUME NEW n \in DOMAIN t
      PROVE  /\ h <= t[n].session
             /\ t[n].kind = "begin" =>
                   /\ h < t[n].session
                   /\ h # 0 => \E k \in 1..(n - 1) : Ending(t, h, k)
  <2>1. n + 1 \in DOMAIN w /\ t[n] = w[n + 1] BY <1>1, <1>3
  <2>2. SUFFICES ASSUME t[n].kind = "begin", h # 0
                 PROVE  \E k \in 1..(n - 1) : Ending(t, h, k)
    BY <2>1 DEF Ahead
  <2>3. PICK k \in 1..((n + 1) - 1) : Ending(w, h, k) BY <2>1, <2>2 DEF Ahead
  <2>4. k # 1 BY <2>3
  <2>5. k \in DOMAIN w /\ k - 1 \in 1..(n - 1) BY <1>1, <1>3, <2>4
  <2> QED BY <1>2, <2>3, <2>4, <2>5
<1> QED BY <1>4 DEF Ahead, t

\* Nobody is in a session: every message is ahead.
LEMMA AheadOfNone ==
    ASSUME NEW w \in Seq(Messages)
    PROVE  Ahead(w, 0)
<1>1. \A n \in DOMAIN w : w[n] \in Messages OBVIOUS
<1>2. \A n \in DOMAIN w : 0 <= w[n].session /\ 0 < w[n].session
  BY <1>1 DEF Messages
<1> QED BY <1>2 DEF Ahead

\* The Begin that is read opens a session whose End is ahead of the next Begin.
LEMMA RestBegun ==
    ASSUME NEW w \in Seq(Messages), w # << >>, w[1].kind = "begin",
           Ordered(w), Closing(w)
    PROVE  Ahead(Tail(w), w[1].session)
<1> DEFINE t == Tail(w)
           h == w[1].session
<1>1. /\ t \in Seq(Messages) /\ Len(t) \in Nat /\ Len(w) = Len(t) + 1
      /\ \A n \in 1..Len(t) : t[n] = w[n + 1] /\ n + 1 \in 1..Len(w)
      /\ 1 \in 1..Len(w)
  BY Rest
<1>2. \A k \in DOMAIN w : Ending(w, h, k) /\ k # 1 =>
          k - 1 \in DOMAIN t /\ Ending(t, h, k - 1)
  BY RestEnding
<1> HIDE DEF t
<1>3. DOMAIN t = 1..Len(t) /\ DOMAIN w = 1..Len(w) BY <1>1
<1>4. ASSUME NEW n \in DOMAIN t
      PROVE  /\ h <= t[n].session
             /\ t[n].kind = "begin" =>
                   /\ h < t[n].session
                   /\ h # 0 => \E k \in 1..(n - 1) : Ending(t, h, k)
  <2>1. n + 1 \in DOMAIN w /\ t[n] = w[n + 1] /\ 1 < n + 1 /\ 1 \in DOMAIN w
    BY <1>1, <1>3
  <2>2. h <= t[n].session /\ (t[n].kind = "begin" => h < t[n].session)
    BY <2>1 DEF Ordered
  <2>3. ASSUME t[n].kind = "begin" PROVE \E k \in 1..(n - 1) : Ending(t, h, k)
    <3>1. PICK k \in 1..(n + 1) : Ending(w, h, k) BY <2>1, <2>3 DEF Closing
    <3>2. k # 1 /\ k # n + 1 BY <2>1, <2>3, <3>1 DEF Ending
    <3>3. k \in DOMAIN w /\ k - 1 \in 1..(n - 1) BY <1>1, <1>3, <2>1, <3>2
    <3> QED BY <1>2, <3>1, <3>2, <3>3
  <2> QED BY <2>2, <2>3
<1> QED BY <1>4 DEF Ahead, t

\* What is over stays over when the first message is read, whether the peer
\* stays in its session, leaves it at the End, or enters the one that begins.
LEMMA RestOver ==
    ASSUME NEW w \in Seq(Messages), w # << >>, NEW h \in Nat, NEW r \in Nat,
           NEW g \in Nat, Over(w, h, r),
           \/ g = 0
           \/ g = h /\ ~ Ending(w, h, 1)
           \/ g = w[1].session /\ w[1].kind = "begin"
    PROVE  Over(Tail(w), g, r)
<1> DEFINE t == Tail(w)
<1>1. /\ t \in Seq(Messages) /\ Len(t) \in Nat /\ Len(w) = Len(t) + 1
      /\ \A n \in 1..Len(t) : t[n] = w[n + 1] /\ n + 1 \in 1..Len(w)
      /\ 1 \in 1..Len(w)
  BY Rest
<1>2. \A s, k : k \in DOMAIN w /\ Ending(w, s, k) /\ k # 1 =>
          k - 1 \in DOMAIN t /\ Ending(t, s, k - 1)
  BY RestEnding
<1> HIDE DEF t
<1>3. DOMAIN t = 1..Len(t) /\ DOMAIN w = 1..Len(w) BY <1>1
<1>4. ASSUME g \notin {0, r} PROVE \E k \in DOMAIN t : Ending(t, g, k)
  <2>1. PICK k \in DOMAIN w : Ending(w, g, k) /\ k # 1
    <3>1. CASE g = h /\ ~ Ending(w, h, 1) BY <1>4, <3>1 DEF Over
    <3>2. CASE g = w[1].session /\ w[1].kind = "begin"
      <4>1. 1 \in DOMAIN w BY <1>1, <1>3
      <4>2. PICK k \in DOMAIN w : 1 < k /\ Ending(w, w[1].session, k)
        BY <1>4, <3>2, <4>1 DEF Over
      <4>3. k # 1 BY <1>3, <4>2
      <4> QED BY <3>2, <4>2, <4>3
    <3> QED BY <1>4, <3>1, <3>2
  <2> QED BY <1>2, <2>1
<1>5. ASSUME NEW n \in DOMAIN t, t[n].kind = "begin", t[n].session # r
      PROVE  \E k \in DOMAIN t : n < k /\ Ending(t, t[n].session, k)
  <2>1. n + 1 \in DOMAIN w /\ t[n] = w[n + 1] BY <1>1, <1>3
  <2>2. PICK k \in DOMAIN w : n + 1 < k /\ Ending(w, t[n].session, k)
    BY <1>5, <2>1 DEF Over
  <2>3. k # 1 /\ n < k - 1 BY <1>1, <1>3, <2>2
  <2> QED BY <1>2, <2>2, <2>3
<1> QED BY <1>4, <1>5 DEF Over, t

\* Messages of one session, with its Begin first and its End last.
Batch(v, s) == \A k \in DOMAIN v :
    /\ v[k].session = s
    /\ v[k].kind = "begin" => k = 1
    /\ v[k].kind = "end" => k = Len(v)

\* They go behind everything of earlier sessions, and of their own until then.
LEMMA JoinOrdered ==
    ASSUME NEW u \in Seq(Messages), NEW v \in Seq(Messages), NEW s \in Nat,
           Ordered(u), Batch(v, s),
           \A n \in DOMAIN u : u[n].session <= s /\ (u[n].kind = "end" => u[n].session < s),
           \A k \in DOMAIN v : v[k].kind = "begin" =>
              \A n \in DOMAIN u : u[n].session < s
    PROVE  Ordered(u \o v)
<1> DEFINE w == u \o v
<1>1. /\ w \in Seq(Messages) /\ Len(w) = Len(u) + Len(v)
      /\ Len(u) \in Nat /\ Len(v) \in Nat
      /\ \A n \in 1..Len(u) : w[n] = u[n]
      /\ \A n \in 1..Len(v) : w[Len(u) + n] = v[n]
      /\ \A n \in 1..Len(w) : n \in 1..Len(u)
            \/ \E k \in 1..Len(v) : n = Len(u) + k /\ w[n] = v[k]
  <2>1. w \in Seq(Messages) /\ Glued(u, v, w) BY Joined
  <2> HIDE DEF w
  <2> QED BY <2>1 DEF Glued
<1> HIDE DEF w
<1>2. DOMAIN w = 1..Len(w) /\ DOMAIN u = 1..Len(u) /\ DOMAIN v = 1..Len(v) BY <1>1
<1>3. SUFFICES ASSUME NEW n \in DOMAIN w, NEW m \in DOMAIN w, n < m
               PROVE  /\ w[n].session <= w[m].session
                      /\ w[m].kind = "begin" \/ w[n].kind = "end" =>
                            w[n].session < w[m].session
  BY DEF Ordered, w
<1>4. CASE n \in 1..Len(u) /\ m \in 1..Len(u)
  <2>1. w[n] = u[n] /\ w[m] = u[m] BY <1>1, <1>4
  <2> QED BY <1>2, <1>3, <1>4, <2>1 DEF Ordered
<1>5. CASE n \in 1..Len(u) /\ m \notin 1..Len(u)
  <2>1. PICK k \in DOMAIN v : w[m] = v[k] BY <1>1, <1>2, <1>5
  <2>2. w[n] = u[n] /\ n \in DOMAIN u BY <1>1, <1>2, <1>5
  <2>3. v[k].session = s BY DEF Batch
  <2> QED BY <2>1, <2>2, <2>3
<1>6. CASE n \notin 1..Len(u)
  <2>1. PICK k \in DOMAIN v : n = Len(u) + k /\ w[n] = v[k] BY <1>1, <1>2, <1>6
  <2>2. PICK j \in DOMAIN v : m = Len(u) + j /\ w[m] = v[j]
    <3>1. m \notin 1..Len(u) BY <1>1, <1>2, <1>3, <1>6
    <3> QED BY <1>1, <1>2, <3>1
  <2>3. k < j /\ 1 <= k /\ j <= Len(v) BY <1>1, <1>2, <1>3, <2>1, <2>2
  <2>4. v[k].session = s /\ v[j].session = s /\ v[j].kind # "begin" /\ v[k].kind # "end"
    BY <1>1, <1>2, <2>3 DEF Batch
  <2> QED BY <2>1, <2>2, <2>4
<1> QED BY <1>4, <1>5, <1>6

\* An End on its way stays there when others are sent.
LEMMA JoinEnding ==
    ASSUME NEW u \in Seq(Messages), NEW v \in Seq(Messages), NEW s, NEW k
    PROVE  /\ k \in DOMAIN u => (Ending(u \o v, s, k) <=> Ending(u, s, k))
           /\ k \in DOMAIN v => (Ending(u \o v, s, Len(u) + k) <=> Ending(v, s, k))
           /\ DOMAIN u \subseteq DOMAIN (u \o v)
           /\ k \in DOMAIN v => Len(u) + k \in DOMAIN (u \o v)
           /\ k \in DOMAIN (u \o v) => k \in DOMAIN u \/ \E j \in DOMAIN v : k = Len(u) + j
<1> DEFINE w == u \o v
<1>1. /\ w \in Seq(Messages) /\ Len(w) = Len(u) + Len(v)
      /\ Len(u) \in Nat /\ Len(v) \in Nat
      /\ \A n \in 1..Len(u) : w[n] = u[n]
      /\ \A n \in 1..Len(v) : w[Len(u) + n] = v[n]
      /\ \A n \in 1..Len(w) : n \in 1..Len(u)
            \/ \E j \in 1..Len(v) : n = Len(u) + j /\ w[n] = v[j]
  <2>1. w \in Seq(Messages) /\ Glued(u, v, w) BY Joined
  <2> HIDE DEF w
  <2> QED BY <2>1 DEF Glued
<1> HIDE DEF w
<1>2. DOMAIN w = 1..Len(w) /\ DOMAIN u = 1..Len(u) /\ DOMAIN v = 1..Len(v) BY <1>1
<1>3. k \in DOMAIN u => (Ending(w, s, k) <=> Ending(u, s, k)) BY <1>1, <1>2 DEF Ending
<1>4. k \in DOMAIN v => (Ending(w, s, Len(u) + k) <=> Ending(v, s, k))
  BY <1>1, <1>2 DEF Ending
<1>5. DOMAIN u \subseteq DOMAIN w /\ (k \in DOMAIN v => Len(u) + k \in DOMAIN w)
  BY <1>1, <1>2
<1>6. k \in DOMAIN w => k \in DOMAIN u \/ \E j \in DOMAIN v : k = Len(u) + j
  BY <1>1, <1>2
<1> QED BY <1>3, <1>4, <1>5, <1>6 DEF w

\* The session the peer is in still has its End ahead of the next Begin.
LEMMA JoinAhead ==
    ASSUME NEW u \in Seq(Messages), NEW v \in Seq(Messages), NEW s \in Nat,
           NEW h \in Nat, Ahead(u, h), Batch(v, s), h <= s,
           \A k \in DOMAIN v : v[k].kind = "begin" =>
              /\ h < s
              /\ h # 0 => \E j \in DOMAIN u : Ending(u, h, j)
    PROVE  Ahead(u \o v, h)
<1> DEFINE w == u \o v
<1>1. /\ w \in Seq(Messages) /\ Len(w) = Len(u) + Len(v)
      /\ Len(u) \in Nat /\ Len(v) \in Nat
      /\ \A n \in 1..Len(u) : w[n] = u[n]
      /\ \A n \in 1..Len(v) : w[Len(u) + n] = v[n]
      /\ \A n \in 1..Len(w) : n \in 1..Len(u)
            \/ \E k \in 1..Len(v) : n = Len(u) + k /\ w[n] = v[k]
  <2>1. w \in Seq(Messages) /\ Glued(u, v, w) BY Joined
  <2> HIDE DEF w
  <2> QED BY <2>1 DEF Glued
<1>2. \A k \in DOMAIN u : Ending(u, h, k) => Ending(w, h, k) BY JoinEnding
<1> HIDE DEF w
<1>3. DOMAIN w = 1..Len(w) /\ DOMAIN u = 1..Len(u) /\ DOMAIN v = 1..Len(v) BY <1>1
<1>4. ASSUME NEW n \in DOMAIN w
      PROVE  /\ h <= w[n].session
             /\ w[n].kind = "begin" =>
                   /\ h < w[n].session
                   /\ h # 0 => \E k \in 1..(n - 1) : Ending(w, h, k)
  <2>1. CASE n \in DOMAIN u
    <3>1. w[n] = u[n] BY <1>1, <1>3, <2>1
    <3>2. ASSUME NEW k \in 1..(n - 1) PROVE k \in DOMAIN u BY <1>1, <1>3, <2>1
    <3> QED BY <1>2, <2>1, <3>1, <3>2 DEF Ahead
  <2>2. CASE n \notin DOMAIN u
    <3>1. PICK k \in DOMAIN v : n = Len(u) + k /\ w[n] = v[k] BY <1>1, <1>3, <2>2
    <3>2. w[n].session = s BY <3>1 DEF Batch
    <3>3. ASSUME NEW j \in DOMAIN u PROVE j \in 1..(n - 1) BY <1>1, <1>3, <3>1
    <3> QED BY <1>2, <3>1, <3>2, <3>3
  <2> QED BY <2>1, <2>2
<1> QED BY <1>4 DEF Ahead, w

\* A session still has its End before another one begins.
LEMMA JoinClosing ==
    ASSUME NEW u \in Seq(Messages), NEW v \in Seq(Messages), NEW s \in Nat,
           Closing(u), Batch(v, s),
           \A k \in DOMAIN v : v[k].kind = "begin" =>
              \A n \in DOMAIN u : u[n].kind = "begin" =>
                 \E j \in DOMAIN u : n < j /\ Ending(u, u[n].session, j)
    PROVE  Closing(u \o v)
<1> DEFINE w == u \o v
<1>1. /\ w \in Seq(Messages) /\ Len(w) = Len(u) + Len(v)
      /\ Len(u) \in Nat /\ Len(v) \in Nat
      /\ \A n \in 1..Len(u) : w[n] = u[n]
      /\ \A n \in 1..Len(v) : w[Len(u) + n] = v[n]
      /\ \A n \in 1..Len(w) : n \in 1..Len(u)
            \/ \E k \in 1..Len(v) : n = Len(u) + k /\ w[n] = v[k]
  <2>1. w \in Seq(Messages) /\ Glued(u, v, w) BY Joined
  <2> HIDE DEF w
  <2> QED BY <2>1 DEF Glued
<1>2. \A r : \A k \in DOMAIN u : Ending(u, r, k) => Ending(w, r, k) BY JoinEnding
<1> HIDE DEF w
<1>3. DOMAIN w = 1..Len(w) /\ DOMAIN u = 1..Len(u) /\ DOMAIN v = 1..Len(v) BY <1>1
<1>4. SUFFICES ASSUME NEW n \in DOMAIN w, NEW m \in DOMAIN w, n < m,
                      w[n].kind = "begin", w[m].kind = "begin"
               PROVE  \E k \in n..m : Ending(w, w[n].session, k)
  BY DEF Closing, w
<1>5. CASE m \in DOMAIN u
  <2>1. n \in DOMAIN u /\ w[n] = u[n] /\ w[m] = u[m] BY <1>1, <1>3, <1>4, <1>5
  <2>2. PICK k \in n..m : Ending(u, u[n].session, k) BY <1>4, <1>5, <2>1 DEF Closing
  <2>3. k \in DOMAIN u BY <1>1, <1>3, <1>5, <2>1
  <2> QED BY <1>2, <2>1, <2>2, <2>3
<1>6. CASE m \notin DOMAIN u
  <2>1. PICK k \in DOMAIN v : m = Len(u) + k /\ w[m] = v[k] BY <1>1, <1>3, <1>6
  <2>2. k = 1 BY <1>4, <2>1 DEF Batch
  <2>3. n \in DOMAIN u BY <1>1, <1>3, <1>4, <2>1, <2>2
  <2>4. w[n] = u[n] BY <1>1, <1>3, <2>3
  <2>5. PICK j \in DOMAIN u : n < j /\ Ending(u, u[n].session, j)
    BY <1>4, <2>1, <2>3, <2>4
  <2>6. j \in n..m BY <1>1, <1>3, <2>1, <2>3, <2>5
  <2> QED BY <1>2, <2>4, <2>5, <2>6
<1> QED BY <1>5, <1>6

\* A session that is over at this end still has its End on the way.
LEMMA JoinOver ==
    ASSUME NEW u \in Seq(Messages), NEW v \in Seq(Messages), NEW h \in Nat,
           NEW r \in Nat, NEW q \in Nat, Over(u, h, r),
           \/ q = r
           \/ q = 0 /\ \E k \in DOMAIN v : Ending(v, r, k)
           \/ r = 0,
           \A k \in DOMAIN v : v[k].kind = "begin" => v[k].session = q
    PROVE  Over(u \o v, h, q)
<1> DEFINE w == u \o v
<1>1. /\ w \in Seq(Messages) /\ Len(w) = Len(u) + Len(v)
      /\ Len(u) \in Nat /\ Len(v) \in Nat
      /\ \A n \in 1..Len(u) : w[n] = u[n]
      /\ \A n \in 1..Len(v) : w[Len(u) + n] = v[n]
      /\ \A n \in 1..Len(w) : n \in 1..Len(u)
            \/ \E k \in 1..Len(v) : n = Len(u) + k /\ w[n] = v[k]
  <2>1. w \in Seq(Messages) /\ Glued(u, v, w) BY Joined
  <2> HIDE DEF w
  <2> QED BY <2>1 DEF Glued
<1>2. /\ \A c : \A k \in DOMAIN u : Ending(u, c, k) => Ending(w, c, k)
      /\ \A c : \A k \in DOMAIN v : Ending(v, c, k) => Ending(w, c, Len(u) + k)
      /\ DOMAIN u \subseteq DOMAIN w
      /\ \A k \in DOMAIN v : Len(u) + k \in DOMAIN w
  BY JoinEnding
<1> HIDE DEF w
<1>3. DOMAIN w = 1..Len(w) /\ DOMAIN u = 1..Len(u) /\ DOMAIN v = 1..Len(v) BY <1>1
<1>4. ASSUME h \notin {0, q} PROVE \E k \in DOMAIN w : Ending(w, h, k)
  <2>1. CASE h # r BY <1>2, <1>4, <2>1 DEF Over
  <2>2. CASE h = r BY <1>2, <1>4, <2>2
  <2> QED BY <2>1, <2>2
<1>5. ASSUME NEW n \in DOMAIN w, w[n].kind = "begin", w[n].session # q
      PROVE  \E k \in DOMAIN w : n < k /\ Ending(w, w[n].session, k)
  <2>1. n \in DOMAIN u /\ w[n] = u[n] BY <1>1, <1>3, <1>5
  <2>2. CASE u[n].session # r
    <3>1. PICK k \in DOMAIN u : n < k /\ Ending(u, u[n].session, k)
      BY <1>5, <2>1, <2>2 DEF Over
    <3> QED BY <1>2, <2>1, <3>1
  <2>3. CASE u[n].session = r
    <3>1. u[n].session # 0
      <4>1. u[n] \in Messages BY <2>1
      <4> QED BY <4>1 DEF Messages
    <3>2. PICK k \in DOMAIN v : Ending(v, r, k) BY <1>5, <2>1, <2>3, <3>1
    <3>3. n < Len(u) + k BY <1>1, <1>3, <2>1
    <3> QED BY <1>2, <2>1, <2>3, <3>2, <3>3
  <2> QED BY <2>2, <2>3
<1> QED BY <1>4, <1>5 DEF Over, w

\* The messages of the session in force leave the others as they are.
LEMMA SentInputs ==
    ASSUME Typed, Phases, Wire, role # 0, NEW v \in Seq(Messages),
           \A k \in DOMAIN v : v[k].kind = "input" /\ v[k].session = role,
           wire' = Send(v), UNCHANGED <<role, begun, up, hosting, ended, twin>>
    PROVE  Wire'
<1>1. CASE "peer" \notin up
  <2>1. wire' = wire BY <1>1 DEF Send
  <2> QED BY <2>1 DEF Wire
<1>2. CASE "peer" \in up
  <2>1. /\ wire' = wire \o v /\ wire \in Seq(Messages) /\ role = begun /\ role \in Nat
        /\ hosting \in Nat /\ hosting <= role
    BY <1>2 DEF Send, Typed, TypeOK, Phases
  <2>2. Batch(v, role) BY DEF Batch
  <2>3. \A n \in DOMAIN wire : /\ wire[n].session <= role
                              /\ wire[n].kind = "end" => wire[n].session < role
    <3> TAKE n \in DOMAIN wire
    <3>1. wire[n].session <= role /\ ~ Ending(wire, role, n) BY <2>1 DEF Wire
    <3>2. wire[n] \in Messages BY <2>1
    <3>3. wire[n].session \in Nat BY <3>2 DEF Messages
    <3> QED BY <2>1, <3>1, <3>3 DEF Ending
  <2>4. \A k \in DOMAIN v : v[k].kind # "begin" OBVIOUS
  <2>5. Ordered(wire \o v) BY <2>1, <2>2, <2>3, <2>4, JoinOrdered DEF Wire
  <2>6. Ahead(wire \o v, hosting) BY <2>1, <2>2, <2>4, JoinAhead DEF Wire
  <2>7. Closing(wire \o v) BY <2>1, <2>2, <2>4, JoinClosing DEF Wire
  <2>8. "here" \in up => Over(wire \o v, hosting, role) BY <2>1, <2>4, JoinOver DEF Wire
  <2>9. ASSUME NEW n \in DOMAIN (wire \o v)
        PROVE  /\ (wire \o v)[n].session <= begun
               /\ ~ Ending(wire \o v, role, n)
               /\ (wire \o v)[n].kind = "begin" =>
                     \E j \in DOMAIN wire : wire[j] = (wire \o v)[n]
    <3>1. CASE \E j \in DOMAIN wire : (wire \o v)[n] = wire[j]
      <4>1. PICK j \in DOMAIN wire : (wire \o v)[n] = wire[j] BY <3>1
      <4>2. wire[j].session <= begun /\ ~ Ending(wire, role, j) BY <2>1 DEF Wire
      <4> QED BY <4>1, <4>2 DEF Ending
    <3>2. CASE \E j \in DOMAIN v : (wire \o v)[n] = v[j]
      BY <2>1, <3>2 DEF Ending
    <3> QED BY <2>1, <3>1, <3>2, JoinedFrom
  <2>10. \A c \in ended : c # hosting /\
            \A n \in DOMAIN (wire \o v) : (wire \o v)[n].kind = "begin" => (wire \o v)[n].session # c
    BY <2>9 DEF Wire
  <2> QED BY <1>2, <2>1, <2>5, <2>6, <2>7, <2>8, <2>9, <2>10 DEF Wire
<1> QED BY <1>1, <1>2

\* An End takes the session out of force.
LEMMA SentEnd ==
    ASSUME Typed, Phases, Wire, wire' = SendEnd, role' = 0,
           UNCHANGED <<begun, up, hosting, ended, twin>>
    PROVE  Wire'
<1>1. CASE role = 0
  BY <1>1 DEF SendEnd, Wire
<1>2. CASE role # 0 /\ "peer" \notin up
  <2>1. wire' = wire /\ wire = << >> /\ hosting = 0 BY <1>2 DEF SendEnd, Send, Wire
  <2>2. Over(wire, 0, 0) BY <2>1 DEF Over
  <2> QED BY <1>2, <2>1, <2>2 DEF Wire
<1>3. CASE role # 0 /\ "peer" \in up
  <2> DEFINE v == <<End(role)>>
  <2>1. /\ wire' = wire \o v /\ wire \in Seq(Messages) /\ role = begun
        /\ role \in Nat \ {0} /\ hosting \in Nat /\ hosting <= role
    BY <1>3 DEF Send, SendEnd, Typed, TypeOK, Phases
  <2>2. v \in Seq(Messages) /\ DOMAIN v = {1} /\ Len(v) = 1 /\ v[1] = End(role)
    <3>1. v \in Seq(Messages) BY <2>1, FrameIs, OneMessage
    <3> QED BY <3>1
  <2> HIDE DEF v
  <2>3. v[1].kind = "end" /\ v[1].session = role BY <2>2 DEF End
  <2>4. Batch(v, role) BY <2>2, <2>3 DEF Batch
  <2>5. \A n \in DOMAIN wire : /\ wire[n].session <= role
                              /\ wire[n].kind = "end" => wire[n].session < role
    <3> TAKE n \in DOMAIN wire
    <3>1. wire[n].session <= role /\ ~ Ending(wire, role, n) BY <2>1 DEF Wire
    <3>2. wire[n] \in Messages BY <2>1
    <3>3. wire[n].session \in Nat BY <3>2 DEF Messages
    <3> QED BY <2>1, <3>1, <3>3 DEF Ending
  <2>6. \A k \in DOMAIN v : v[k].kind # "begin" BY <2>2, <2>3
  <2>7. Ordered(wire \o v) BY <2>1, <2>2, <2>4, <2>5, <2>6, JoinOrdered DEF Wire
  <2>8. Ahead(wire \o v, hosting) BY <2>1, <2>2, <2>4, <2>6, JoinAhead DEF Wire
  <2>9. Closing(wire \o v) BY <2>1, <2>2, <2>4, <2>6, JoinClosing DEF Wire
  <2>10. "here" \in up => Over(wire \o v, hosting, 0)
    <3>1. 1 \in DOMAIN v /\ Ending(v, role, 1) BY <2>2, <2>3 DEF Ending
    <3> QED BY <2>1, <2>2, <2>6, <3>1, JoinOver DEF Wire
  <2>11. ASSUME NEW n \in DOMAIN (wire \o v)
         PROVE  /\ (wire \o v)[n].session <= begun
                /\ (wire \o v)[n].kind = "begin" =>
                     \E j \in DOMAIN wire : wire[j] = (wire \o v)[n]
    <3>1. CASE \E j \in DOMAIN wire : (wire \o v)[n] = wire[j]
      BY <3>1 DEF Wire
    <3>2. CASE \E j \in DOMAIN v : (wire \o v)[n] = v[j]
      BY <2>1, <2>2, <2>3, <3>2
    <3> QED BY <2>1, <2>2, <3>1, <3>2, JoinedFrom
  <2>12. \A c \in ended : c # hosting /\
            \A n \in DOMAIN (wire \o v) : (wire \o v)[n].kind = "begin" => (wire \o v)[n].session # c
    BY <2>11 DEF Wire
  <2> QED BY <1>3, <2>1, <2>7, <2>8, <2>9, <2>10, <2>11, <2>12 DEF Wire
<1> QED BY <1>1, <1>2, <1>3

\* A Begin follows the End of every session before.
LEMMA SentBegin ==
    ASSUME Typed, Phases, Wire, role = 0, "here" \in up,
           begun' = begun + 1, role' = begun + 1, wire' = Send(<<Begin(begun + 1)>>),
           UNCHANGED <<up, hosting, ended, twin>>
    PROVE  Wire'
<1>0. /\ begun \in Nat /\ wire \in Seq(Messages) /\ hosting \in Nat /\ hosting <= begun
      /\ \A c \in ended : c \in Nat /\ c <= begun
      /\ \A n \in DOMAIN wire : wire[n] \in Messages /\ wire[n].session <= begun
  BY DEF Typed, TypeOK, Wire
<1>a. \A n \in DOMAIN wire : wire[n].session \in Nat /\ wire[n].session < begun + 1
  BY <1>0 DEF Messages
<1>1. CASE "peer" \notin up
  <2>1. wire' = wire /\ wire = << >> /\ hosting = 0 BY <1>1 DEF Send, Wire
  <2>2. Over(wire, 0, begun + 1) BY <2>1 DEF Over
  <2>3. \A n \in DOMAIN wire : FALSE BY <2>1
  <2>4. wire' = wire /\ UNCHANGED <<up, hosting, ended, twin>> BY <2>1
  <2> QED BY <1>1, <2>1, <2>2, <2>3, <2>4 DEF Wire
<1>2. CASE "peer" \in up
  <2> DEFINE v == <<Begin(begun + 1)>>
  <2>1. wire' = wire \o v BY <1>2 DEF Send
  <2>2. v \in Seq(Messages) /\ DOMAIN v = {1} /\ Len(v) = 1 /\ v[1] = Begin(begun + 1)
    <3>1. begun + 1 \in Nat \ {0} BY <1>0
    <3>2. v \in Seq(Messages) BY <3>1, FrameIs, OneMessage
    <3> QED BY <3>2
  <2> HIDE DEF v
  <2>3. v[1].kind = "begin" /\ v[1].session = begun + 1 BY <2>2 DEF Begin
  <2>4. Batch(v, begun + 1) BY <2>2, <2>3 DEF Batch
  <2>5. Over(wire, hosting, 0) BY DEF Wire
  <2>6. begun + 1 \in Nat /\ hosting < begun + 1 /\ hosting <= begun + 1 BY <1>0
  <2>7. \A n \in DOMAIN wire : /\ wire[n].session <= begun + 1
                              /\ wire[n].session < begun + 1 BY <1>0, <1>a
  <2>8. Ordered(wire \o v) BY <1>0, <2>2, <2>4, <2>6, <2>7, JoinOrdered DEF Wire
  <2>9. Ahead(wire \o v, hosting)
    <3>1. hosting # 0 => \E j \in DOMAIN wire : Ending(wire, hosting, j)
      BY <2>5 DEF Over
    <3> QED BY <1>0, <2>2, <2>4, <2>6, <3>1, JoinAhead DEF Wire
  <2>10. Closing(wire \o v)
    <3>1. \A n \in DOMAIN wire : wire[n].kind = "begin" =>
             \E j \in DOMAIN wire : n < j /\ Ending(wire, wire[n].session, j)
      BY <1>0, <2>5 DEF Over, Messages
    <3> QED BY <1>0, <2>2, <2>4, <2>6, <3>1, JoinClosing DEF Wire
  <2>11. Over(wire \o v, hosting, begun + 1)
    BY <1>0, <2>2, <2>3, <2>5, <2>6, JoinOver
  <2>12. ASSUME NEW n \in DOMAIN (wire \o v)
         PROVE  /\ (wire \o v)[n].session <= begun + 1
                /\ ~ Ending(wire \o v, begun + 1, n)
                /\ \A c \in ended : (wire \o v)[n].kind = "begin" => (wire \o v)[n].session # c
    <3>1. CASE \E j \in DOMAIN wire : (wire \o v)[n] = wire[j]
      <4>1. PICK j \in DOMAIN wire : (wire \o v)[n] = wire[j] BY <3>1
      <4>2. wire[j].session <= begun + 1 /\ wire[j].session # begun + 1 BY <1>0, <1>a
      <4> QED BY <4>1, <4>2 DEF Wire, Ending
    <3>2. CASE \E j \in DOMAIN v : (wire \o v)[n] = v[j]
      BY <1>0, <2>2, <2>3, <3>2 DEF Ending
    <3> QED BY <1>0, <2>2, <3>1, <3>2, JoinedFrom
  <2>13. \A c \in ended : c # hosting BY DEF Wire
  <2>14. hosting = 0 => twin = Neutral BY DEF Wire
  <2> QED BY <1>2, <2>1, <2>8, <2>9, <2>10, <2>11, <2>12, <2>13, <2>14 DEF Wire
<1> QED BY <1>1, <1>2

\* Nothing is on its way at first.
LEMMA InitWire == Init => Wire
<1> SUFFICES ASSUME Init PROVE Wire OBVIOUS
<1>1. wire = << >> /\ hosting = 0 /\ role = 0 /\ ended = {} /\ twin = Neutral /\ up = {}
  BY DEF Init
<1>2. \A n \in DOMAIN wire : FALSE BY <1>1
<1>3. Ordered(wire) /\ Ahead(wire, hosting) /\ Closing(wire)
  BY <1>2 DEF Ordered, Ahead, Closing
<1> QED BY <1>1, <1>2, <1>3 DEF Wire

\* The connection is gone.
LEMMA NoWire ==
    ASSUME Wire, wire' = << >>, hosting' = 0, twin' = Neutral,
           \A c \in ended' : c # 0
    PROVE  Wire'
<1>1. \A n \in DOMAIN wire' : FALSE OBVIOUS
<1>2. Ordered(wire') /\ Ahead(wire', hosting') /\ Closing(wire')
  BY <1>1 DEF Ordered, Ahead, Closing
<1>3. Over(wire', hosting', role') BY <1>1 DEF Over
<1>4. role' # 0 => \A n \in DOMAIN wire' : ~ Ending(wire', role', n) BY <1>1
<1> QED BY <1>1, <1>2, <1>3, <1>4 DEF Wire

\* Reading a message keeps the order of the sessions.
LEMMA Received ==
    ASSUME Typed, Phases, Wire, Receive
    PROVE  Wire'
<1>0. /\ wire \in Seq(Messages) /\ wire # << >> /\ wire' = Tail(wire)
      /\ begun \in Nat /\ hosting \in Nat /\ role \in Nat
      /\ UNCHANGED <<role, begun, up>> /\ "peer" \in up
  BY DEF Receive, Typed, TypeOK, process
<1> DEFINE t == Tail(wire)
<1>1. /\ t \in Seq(Messages) /\ Len(t) \in Nat /\ Len(wire) = Len(t) + 1
      /\ Head(wire) = wire[1] /\ 1 \in 1..Len(wire)
      /\ \A n \in 1..Len(t) : t[n] = wire[n + 1] /\ n + 1 \in 1..Len(wire)
  BY <1>0, Rest
<1>2. wire' = t BY <1>0
<1> HIDE DEF t
<1>3. DOMAIN t = 1..Len(t) /\ DOMAIN wire = 1..Len(wire) /\ 1 \in DOMAIN wire BY <1>1
<1>4. wire[1] \in Messages /\ wire[1].session <= begun BY <1>0, <1>3 DEF Wire
<1>5. wire[1].session \in Nat /\ wire[1].session # 0 BY <1>4 DEF Messages
<1>6. ASSUME NEW n \in DOMAIN t
      PROVE  /\ t[n].session <= begun
             /\ role # 0 => ~ Ending(t, role, n)
             /\ n + 1 \in DOMAIN wire /\ t[n] = wire[n + 1]
             /\ wire[1].session <= t[n].session
             /\ wire[1].kind = "end" \/ t[n].kind = "begin" =>
                   wire[1].session < t[n].session
  <2>1. n + 1 \in DOMAIN wire /\ t[n] = wire[n + 1] /\ 1 < n + 1 BY <1>1, <1>3
  <2> QED BY <1>3, <2>1 DEF Wire, Ordered, Ending
<1>7. Ordered(t) /\ Closing(t) BY <1>0, RestOrdered DEF Wire, t
<1>8. role' # 0 => \A n \in DOMAIN t : ~ Ending(t, role', n) BY <1>0, <1>6
<1>9. CASE wire[1].kind = "begin"
  <2>1. /\ twin' = twin
        /\ \/ hosting' = wire[1].session /\ ended' = ended
           \/ ended' = ended \cup {wire[1].session} /\ hosting' = hosting
    BY <1>1, <1>9 DEF Receive
  <2>2. hosting = 0
    <3>1. hosting # 0 => \E k \in 1..(1 - 1) : Ending(wire, hosting, k)
      BY <1>3, <1>9 DEF Wire, Ahead
    <3> QED BY <3>1
  <2>3. twin = Neutral BY <2>2 DEF Wire
  <2>4. wire[1].session \notin ended BY <1>3, <1>9 DEF Wire
  <2>5. CASE hosting' = wire[1].session /\ ended' = ended
    <3>1. Ahead(t, wire[1].session) BY <1>0, <1>9, RestBegun DEF Wire, t
    <3>2. "here" \in up => Over(t, wire[1].session, role)
      BY <1>0, <1>5, <1>9, RestOver DEF Wire, t
    <3>3. \A c \in ended : c # wire[1].session /\
            \A n \in DOMAIN t : t[n].kind = "begin" => t[n].session # c
      BY <1>6, <2>4 DEF Wire
    <3> QED BY <1>0, <1>2, <1>5, <1>6, <1>7, <1>8, <2>5, <3>1, <3>2, <3>3 DEF Wire
  <2>6. CASE ended' = ended \cup {wire[1].session} /\ hosting' = hosting
    <3>1. Ahead(t, 0) BY <1>1, AheadOfNone
    <3>2. "here" \in up => Over(t, 0, role) BY <1>0, RestOver DEF Wire, t
    <3>3. \A c \in ended \cup {wire[1].session} : c # 0 /\
            \A n \in DOMAIN t : t[n].kind = "begin" => t[n].session # c
      <4> TAKE c \in ended \cup {wire[1].session}
      <4>1. CASE c \in ended BY <1>6, <2>2, <4>1 DEF Wire
      <4>2. CASE c = wire[1].session
        <5>1. \A n \in DOMAIN t : t[n].session \in Nat
          <6> TAKE n \in DOMAIN t
          <6>1. t[n] \in Messages BY <1>1
          <6> QED BY <6>1 DEF Messages
        <5> QED BY <1>5, <1>6, <4>2, <5>1
      <4> QED BY <4>1, <4>2
    <3> QED BY <1>0, <1>2, <1>5, <1>6, <1>7, <1>8, <2>1, <2>2, <2>3, <2>6, <3>1, <3>2, <3>3 DEF Wire
  <2> QED BY <2>1, <2>5, <2>6
<1>10. CASE wire[1].kind = "input"
  <2>1. /\ hosting' = hosting /\ ended' = ended
        /\ hosting = 0 => twin' = twin
    BY <1>1, <1>5, <1>10 DEF Receive
  <2>2. ~ Ending(wire, hosting, 1) BY <1>10 DEF Ending
  <2>3. Ahead(t, hosting) BY <1>0, <2>2, RestAhead DEF Wire, t
  <2>4. "here" \in up => Over(t, hosting, role) BY <1>0, <2>2, RestOver DEF Wire, t
  <2>5. \A c \in ended : c # hosting /\
            \A n \in DOMAIN t : t[n].kind = "begin" => t[n].session # c
    BY <1>6 DEF Wire
  <2>6. hosting = 0 => twin = Neutral BY DEF Wire
  <2> QED BY <1>0, <1>2, <1>6, <1>7, <1>8, <2>1, <2>3, <2>4, <2>5, <2>6 DEF Wire
<1>11. CASE wire[1].kind = "end"
  <2>1. /\ ended' = ended
        /\ IF hosting = wire[1].session THEN hosting' = 0 /\ twin' = Neutral
           ELSE hosting' = hosting /\ twin' = twin
    BY <1>1, <1>11 DEF Receive, Releases
  <2>2. \A c \in ended :
            \A n \in DOMAIN t : t[n].kind = "begin" => t[n].session # c
    BY <1>6 DEF Wire
  <2>3. CASE hosting = wire[1].session
    <3>1. Ahead(t, 0) BY <1>1, AheadOfNone
    <3>2. "here" \in up => Over(t, 0, role) BY <1>0, RestOver DEF Wire, t
    <3>3. \A c \in ended : c # 0 BY DEF Wire
    <3> QED BY <1>0, <1>2, <1>6, <1>7, <1>8, <2>1, <2>2, <2>3, <3>1, <3>2, <3>3 DEF Wire
  <2>4. CASE hosting # wire[1].session
    <3>1. ~ Ending(wire, hosting, 1) BY <2>4 DEF Ending
    <3>2. Ahead(t, hosting) BY <1>0, <3>1, RestAhead DEF Wire, t
    <3>3. "here" \in up => Over(t, hosting, role) BY <1>0, <3>1, RestOver DEF Wire, t
    <3>4. \A c \in ended : c # hosting BY DEF Wire
    <3>5. hosting = 0 => twin = Neutral BY DEF Wire
    <3> QED BY <1>0, <1>2, <1>6, <1>7, <1>8, <2>1, <2>2, <2>4, <3>2, <3>3, <3>4, <3>5 DEF Wire
  <2> QED BY <2>3, <2>4
<1> QED BY <1>4, <1>9, <1>10, <1>11 DEF Messages

\* What keeps the messages as they are, and who is heard.
LEMMA SameWire ==
    ASSUME Wire, UNCHANGED <<role, begun, up, wire, hosting, ended, twin>>
    PROVE  Wire'
BY DEF Wire

\* One end gives up the connection, and no session is in force there any more.
LEMMA GivenUp ==
    ASSUME Wire, up' = up \ {"here"}, role' = 0,
           UNCHANGED <<begun, wire, hosting, ended, twin>>
    PROVE  Wire'
<1>1. "here" \notin up' /\ ("peer" \in up' <=> "peer" \in up) OBVIOUS
<1> QED BY <1>1 DEF Wire

\* The session that the peer has ended is over at this end too.
LEMMA EndedHere ==
    ASSUME Wire, role \in ended, role' = 0,
           UNCHANGED <<begun, up, wire, hosting, ended, twin>>
    PROVE  Wire'
<1>1. role # hosting /\ \A n \in DOMAIN wire : wire[n].kind = "begin" => wire[n].session # role
  BY DEF Wire
<1>2. Over(wire, hosting, role) => Over(wire, hosting, 0) BY <1>1 DEF Over
<1> QED BY <1>2 DEF Wire

\* The peer ends the session it is in.
LEMMA EndedThere ==
    ASSUME Typed, Wire, PeerEnds
    PROVE  Wire'
<1>0. /\ wire \in Seq(Messages) /\ hosting \in Nat /\ role \in Nat
      /\ hosting # 0 /\ hosting' = 0 /\ twin' = Neutral /\ ended' = ended \cup {hosting}
      /\ UNCHANGED <<role, begun, up, wire>>
  BY DEF PeerEnds, Releases, Typed, TypeOK, process
<1>1. Ahead(wire, 0) BY <1>0, AheadOfNone
<1>2. Over(wire, hosting, role) => Over(wire, 0, role) BY DEF Over
<1>3. ASSUME NEW n \in DOMAIN wire, wire[n].kind = "begin" PROVE wire[n].session # hosting
  <2>1. hosting < wire[n].session BY <1>3 DEF Wire, Ahead
  <2>2. wire[n] \in Messages BY <1>0
  <2> QED BY <1>0, <2>1, <2>2 DEF Messages
<1> QED BY <1>0, <1>1, <1>2, <1>3 DEF Wire

\* Every step keeps the order of the sessions.
LEMMA StepWire ==
    ASSUME Typed, Phases, Wire, [Next]_vars
    PROVE  Wire'
<1> USE DEF device, process, peer, history
<1>0. /\ role \in Nat /\ wire \in Seq(Messages) /\ router \in Routers
      /\ router.pad \in States /\ router.pending \in Seq(Frames)
  BY DEF Typed, TypeOK, Routers
<1>1. CASE Report BY <1>1, SameWire DEF Report
<1>2. CASE ReportAgain BY <1>2, SameWire DEF ReportAgain
<1>3. CASE Open
  <2>1. /\ wire' = << >> /\ hosting' = 0 /\ twin' = Neutral /\ ended' = ended
    BY <1>3 DEF Open, Wire
  <2> QED BY <2>1, NoWire DEF Wire
<1>4. CASE Route
  <2>1. UNCHANGED <<role, begun, up, hosting, ended, twin>> BY <1>4 DEF Route
  <2>2. CASE wire' = wire BY <2>1, <2>2, SameWire
  <2>3. CASE role # 0 /\ wire' = Send(<<Input(role, Snapshot(router.pad))>>)
    <3> DEFINE v == <<Input(role, Snapshot(router.pad))>>
    <3>1. v \in Seq(Messages)
      <4>1. router.pad \in Frames /\ role \in Nat \ {0} BY <1>0, <2>3, FrameIs
      <4> QED BY <4>1, OneMessage DEF Snapshot
    <3>2. \A k \in DOMAIN v : v[k].kind = "input" /\ v[k].session = role BY DEF Input
    <3>3. wire' = Send(v) BY <2>3
    <3> HIDE DEF v
    <3> QED BY <2>1, <2>3, <3>1, <3>2, <3>3, SentInputs
  <2> QED BY <1>4, <2>2, <2>3 DEF Route
<1>5. CASE Acquire BY <1>5, SameWire DEF Acquire
<1>6. CASE Flush BY <1>6, SameWire DEF Flush
<1>7. CASE Inspect BY <1>7, SameWire DEF Inspect
<1>8. CASE EndPrivately BY <1>8, SameWire DEF EndPrivately
<1>9. CASE Ungrab BY <1>9, SameWire DEF Ungrab
<1>10. CASE EndPublicly BY <1>10, SameWire DEF EndPublicly
<1>11. CASE Tick
  <2>1. UNCHANGED <<begun, up, hosting, ended, twin>> BY <1>11 DEF Tick
  <2>2. CASE wire' = wire /\ role' = role BY <2>1, <2>2, SameWire
  <2>3. CASE role' = 0 /\ wire' = SendEnd BY <2>1, <2>3, SentEnd
  <2> DEFINE v == [n \in DOMAIN router.pending |-> Input(role, router.pending[n])]
  <2>4. CASE role # 0 /\ role' = role /\ wire' = Send(v)
    <3>1. v \in Seq(Messages)
      <4>1. \A n \in DOMAIN router.pending : Input(role, router.pending[n]) \in Messages
        <5>1. role \in Nat \ {0} BY <1>0, <2>4
        <5>2. \A n \in DOMAIN router.pending : router.pending[n] \in Frames BY <1>0
        <5> QED BY <5>1, <5>2, OneMessage
      <4>2. DOMAIN router.pending = 1..Len(router.pending) /\ Len(router.pending) \in Nat
        BY <1>0
      <4> QED BY <4>1, <4>2
    <3>2. \A k \in DOMAIN v : v[k].kind = "input" /\ v[k].session = role BY DEF Input
    <3> HIDE DEF v
    <3> QED BY <2>1, <2>4, <3>1, <3>2, SentInputs
  <2> QED BY <1>11, <2>2, <2>3, <2>4 DEF Tick
<1>12. CASE Cross
  <2>1. UNCHANGED <<up, hosting, ended, twin>> BY <1>12 DEF Cross
  <2>2. CASE UNCHANGED <<begun, role, wire>> BY <2>1, <2>2, SameWire
  <2>3. CASE begun' = begun + 1 /\ role' = begun' /\ wire' = Send(<<Begin(begun')>>)
    <3>1. role = 0 /\ "here" \in up BY <1>12 DEF Cross, Phases, Idles, Restores
    <3>2. role' = begun + 1 /\ wire' = Send(<<Begin(begun + 1)>>) BY <2>3
    <3> QED BY <2>1, <2>3, <3>1, <3>2, SentBegin
  <2> QED BY <1>12, <2>2, <2>3 DEF Cross
<1>13. CASE Return BY <1>13, SentEnd, EndedHere DEF Return
<1>14. CASE Suspend BY <1>14, SameWire DEF Suspend, Drop
<1>15. CASE Overrun BY <1>15, SameWire DEF Overrun, Drop
<1>16. CASE Fail BY <1>16, SameWire DEF Fail, Drop
<1>17. CASE Stop BY <1>17, SameWire DEF Stop, Drop
<1>18. CASE Dropped BY <1>18, SentEnd, GivenUp DEF Dropped
<1>19. CASE Unlock BY <1>19, SameWire DEF Unlock
<1>20. CASE Crash BY <1>20, GivenUp DEF Crash
<1>21. CASE Look BY <1>21, SameWire DEF Look
<1>22. CASE Take BY <1>22, SameWire DEF Take
<1>23. CASE StartPrivately BY <1>23, SameWire DEF StartPrivately
<1>24. CASE GiveBack BY <1>24, SameWire DEF GiveBack
<1>25. CASE Repair BY <1>25, SameWire DEF Repair
<1>26. CASE Receive BY <1>26, Received
<1>27. CASE PeerEnds BY <1>27, EndedThere
<1>28. CASE PeerLeaves
  <2>1. ended' = ended BY <1>28 DEF PeerLeaves
  <2> QED BY <1>28, <2>1, NoWire DEF PeerLeaves, Wire
<1>29. ASSUME NEW next \in {"tick", "begin"}, Sample(next) PROVE Wire'
  BY <1>29, SameWire DEF Sample
<1>30. CASE UNCHANGED vars BY <1>30, SameWire DEF vars
<1> QED
  BY <1>1, <1>2, <1>3, <1>4, <1>5, <1>6, <1>7, <1>8, <1>9, <1>10, <1>11, <1>12, <1>13, <1>14, <1>15, <1>16, <1>17, <1>18, <1>19, <1>20, <1>21, <1>22, <1>23, <1>24, <1>25, <1>26, <1>27, <1>28, <1>29, <1>30
  DEF Next, Acquiring, Handoff, Restore

-----------------------------------------------------------------------------
(* What is on its way to the twin *)

\* What the messages show in a session.
FramesFor(w, r) ==
    [n \in DOMAIN w |-> IF w[n].kind = "input" /\ w[n].session = r THEN w[n].frame
                        ELSE << >>]

\* What messages show is a sequence of frames, one for each.
LEMMA FramesType ==
    ASSUME NEW w \in Seq(Messages), NEW r
    PROVE  FramesFor(w, r) \in Seq(Frames) /\ Len(FramesFor(w, r)) = Len(w)
<1>1. DOMAIN w = 1..Len(w) /\ Len(w) \in Nat OBVIOUS
<1>2. ASSUME NEW n \in DOMAIN w
      PROVE  (IF w[n].kind = "input" /\ w[n].session = r THEN w[n].frame ELSE << >>) \in Frames
  <2>1. w[n] \in Messages BY <1>1
  <2> QED BY <2>1, FrameIs DEF Messages
<1> QED BY <1>1, <1>2 DEF FramesFor

\* Messages joined show what the ones show and then the others.
LEMMA FramesJoined ==
    ASSUME NEW u \in Seq(Messages), NEW v \in Seq(Messages), NEW r
    PROVE  FramesFor(u \o v, r) = FramesFor(u, r) \o FramesFor(v, r)
<1> DEFINE w == u \o v
           f == FramesFor(u, r)
           g == FramesFor(v, r)
<1>1. /\ w \in Seq(Messages) /\ Len(w) = Len(u) + Len(v)
      /\ Len(u) \in Nat /\ Len(v) \in Nat
      /\ \A n \in 1..Len(u) : w[n] = u[n]
      /\ \A n \in 1..Len(v) : w[Len(u) + n] = v[n]
      /\ \A n \in 1..Len(w) : n \in 1..Len(u)
            \/ \E m \in 1..Len(v) : n = Len(u) + m /\ w[n] = v[m]
  <2>1. w \in Seq(Messages) /\ Glued(u, v, w) BY Joined
  <2> HIDE DEF w
  <2> QED BY <2>1 DEF Glued
<1>2. f \in Seq(Frames) /\ Len(f) = Len(u) /\ g \in Seq(Frames) /\ Len(g) = Len(v)
  BY FramesType
<1>3. FramesFor(w, r) \in Seq(Frames) /\ Len(FramesFor(w, r)) = Len(w)
  BY <1>1, FramesType
<1>4. /\ f \o g \in Seq(Frames) /\ Len(f \o g) = Len(f) + Len(g)
      /\ \A n \in 1..Len(f) : (f \o g)[n] = f[n]
      /\ \A n \in 1..Len(g) : (f \o g)[Len(f) + n] = g[n]
  <2>1. \A x, y \in Seq(Frames) :
        /\ x \o y \in Seq(Frames) /\ Len(x \o y) = Len(x) + Len(y)
        /\ \A n \in 1..Len(x) : (x \o y)[n] = x[n]
        /\ \A n \in 1..Len(y) : (x \o y)[Len(x) + n] = y[n]
    <3> TAKE x, y \in Seq(Frames)
    <3>1. x \o y \in Seq(Frames) /\ Glued(x, y, x \o y) BY Joined
    <3> QED BY <3>1 DEF Glued
  <2> HIDE DEF f, g
  <2> QED BY <1>2, <2>1
<1>5. DOMAIN u = 1..Len(u) /\ DOMAIN v = 1..Len(v) /\ DOMAIN w = 1..Len(w) BY <1>1
<1> HIDE DEF w
<1>6. ASSUME NEW n \in 1..Len(w)
      PROVE  FramesFor(w, r)[n] = (f \o g)[n]
  <2>1. CASE n \in 1..Len(u)
    <3>1. FramesFor(w, r)[n] = f[n] BY <1>1, <1>5, <2>1 DEF FramesFor
    <3> QED BY <1>2, <1>4, <2>1, <3>1
  <2>2. ASSUME NEW m \in 1..Len(v), n = Len(u) + m PROVE FramesFor(w, r)[n] = (f \o g)[n]
    <3>1. FramesFor(w, r)[n] = g[m] BY <1>1, <1>5, <2>2 DEF FramesFor
    <3> QED BY <1>2, <1>4, <2>2, <3>1
  <2> QED BY <1>1, <2>1, <2>2
<1> HIDE DEF f, g
<1>7. FramesFor(w, r) = f \o g BY <1>1, <1>2, <1>3, <1>4, <1>6, SeqEqual
<1> QED BY <1>7 DEF w, f, g

\* A frame that says nothing leaves what is shown; a whole state replaces it.
LEMMA ApplyWhole ==
    ASSUME NEW s \in States
    PROVE  Apply(s, << >>) = s /\ \A t \in States : Apply(t, s) = s
<1>1. s = [i \in Items |-> s[i]] /\ DOMAIN s = Items BY DEF States
<1>2. Apply(s, << >>) = [i \in Items |-> s[i]] BY DEF Apply
<1>3. \A t \in States : Apply(t, s) = [i \in Items |-> s[i]] BY <1>1 DEF Apply
<1> QED BY <1>1, <1>2, <1>3

\* Messages that carry nothing of a session show nothing in it.
LEMMA FramesNone ==
    ASSUME NEW w \in Seq(Messages), NEW r, NEW s \in States,
           \A n \in DOMAIN w : w[n].session = r => w[n].kind # "input"
    PROVE  Replay(s, FramesFor(w, r)) = s
<1>1. \A n \in DOMAIN FramesFor(w, r) : FramesFor(w, r)[n] = << >> BY DEF FramesFor
<1>2. \A i \in Items : Having(FramesFor(w, r), i) = {} BY <1>1 DEF Having
<1>3. Replay(s, FramesFor(w, r)) = [i \in Items |-> s[i]] BY <1>2 DEF Replay
<1> QED BY <1>3, StateIs

\* The first message is shown first.
LEMMA FramesRest ==
    ASSUME NEW w \in Seq(Messages), w # << >>, NEW r, NEW s
    PROVE  Replay(s, FramesFor(w, r)) =
               Replay(Apply(s, FramesFor(w, r)[1]), FramesFor(Tail(w), r))
<1> DEFINE f == FramesFor(w, r)
           h == <<f[1]>>
           g == FramesFor(Tail(w), r)
<1>1. /\ Tail(w) \in Seq(Messages) /\ Len(Tail(w)) \in Nat /\ Len(w) = Len(Tail(w)) + 1
      /\ 1 \in 1..Len(w)
      /\ \A n \in 1..Len(Tail(w)) : Tail(w)[n] = w[n + 1] /\ n + 1 \in 1..Len(w)
      /\ \A n \in 1..Len(w) : n = 1 \/ \E k \in 1..Len(Tail(w)) : n = k + 1
  BY Rest
<1>2. f \in Seq(Frames) /\ Len(f) = Len(w) BY FramesType
<1>3. g \in Seq(Frames) /\ Len(g) = Len(Tail(w)) BY <1>1, FramesType
<1>4. f[1] \in Frames BY <1>1, <1>2
<1>5. \A k \in 1..Len(Tail(w)) : f[k + 1] = g[k]
  <2>1. DOMAIN w = 1..Len(w) /\ DOMAIN Tail(w) = 1..Len(Tail(w)) BY <1>1
  <2> QED BY <1>1, <2>1 DEF FramesFor
<1> HIDE DEF f, g
<1>6. h \in Seq(Frames) /\ Len(h) = 1 /\ h[1] = f[1] BY <1>4
<1>7. Replay(s, h) = Apply(s, f[1]) BY <1>4, ReplayOne
<1> HIDE DEF h
<1>8. /\ h \o g \in Seq(Frames) /\ Len(h \o g) = Len(h) + Len(g)
      /\ \A n \in 1..Len(h) : (h \o g)[n] = h[n]
      /\ \A n \in 1..Len(g) : (h \o g)[Len(h) + n] = g[n]
  <2>1. \A x, y \in Seq(Frames) :
        /\ x \o y \in Seq(Frames) /\ Len(x \o y) = Len(x) + Len(y)
        /\ \A n \in 1..Len(x) : (x \o y)[n] = x[n]
        /\ \A n \in 1..Len(y) : (x \o y)[Len(x) + n] = y[n]
    <3> TAKE x, y \in Seq(Frames)
    <3>1. x \o y \in Seq(Frames) /\ Glued(x, y, x \o y) BY Joined
    <3> QED BY <3>1 DEF Glued
  <2> QED BY <1>3, <1>6, <2>1
<1>9. ASSUME NEW n \in 1..Len(f) PROVE f[n] = (h \o g)[n]
  <2>1. CASE n = 1 BY <1>6, <1>8, <2>1
  <2>2. ASSUME NEW k \in 1..Len(Tail(w)), n = k + 1 PROVE f[n] = (h \o g)[n]
    <3>1. (h \o g)[1 + k] = g[k] BY <1>3, <1>6, <1>8
    <3>2. n = 1 + k BY <2>2
    <3> QED BY <1>5, <2>2, <3>1, <3>2
  <2> QED BY <1>1, <1>2, <2>1, <2>2
<1>10. Len(f) = Len(h \o g) BY <1>1, <1>2, <1>3, <1>6, <1>8
<1>11. f = h \o g BY <1>2, <1>8, <1>9, <1>10, SeqEqual
<1>12. Replay(s, h \o g) = Replay(Replay(s, h), g) BY <1>3, <1>6, ReplayConcat
<1>13. Replay(s, f) = Replay(Apply(s, f[1]), g) BY <1>7, <1>11, <1>12
<1> QED BY <1>13 DEF f, g

\* What is on its way: the messages, and then what the router keeps to send.
LEMMA FramesThen ==
    ASSUME NEW w \in Seq(Messages), NEW p \in Seq(Frames), NEW r, NEW s
    PROVE  Replay(s, FramesFor(w, r) \o p) = Replay(Replay(s, FramesFor(w, r)), p)
<1>1. FramesFor(w, r) \in Seq(Frames) BY FramesType
<1>2. \A x, y \in Seq(Frames) : Replay(s, x \o y) = Replay(Replay(s, x), y)
  BY ReplayConcat
<1> QED BY <1>1, <1>2

\* Where the frames on their way start from, and what they lead to.
From == IF hosting = role THEN twin ELSE Neutral
Kept == IF router.grabbed THEN router.pad ELSE Neutral

\* Before the pad is routed to a session, the peer has seen nothing in it.
Unseen ==
    role # 0 /\ router.open /\ ~router.remote =>
        /\ pc = "top"
        /\ hosting = role => twin = Neutral
        /\ \A n \in DOMAIN wire : wire[n].session = role => wire[n].kind # "input"

Joins == role # 0 /\ router.open /\ router.remote /\ "peer" \in up /\ Hears

Leads == Replay(Replay(From, FramesFor(wire, role)), router.pending) = Kept

\* The routing, with what is on its way in two parts.
LEMMA RoutedIs ==
    ASSUME Typed
    PROVE  Routed <=> Unseen /\ (Joins => Leads)
<1>1. wire \in Seq(Messages) /\ router.pending \in Seq(Frames) BY DEF Typed, Routers
<1>2. OnItsWay = FramesFor(wire, role) \o router.pending BY DEF OnItsWay, FramesFor
<1>3. Replay(From, OnItsWay) = Replay(Replay(From, FramesFor(wire, role)), router.pending)
  BY <1>1, <1>2, FramesThen
<1>4. Leads <=> Replay(From, OnItsWay) = Kept BY <1>3 DEF Leads
<1> QED BY <1>4 DEF Routed, Unseen, Joins, From, Kept

\* Nothing is routed at first.
LEMMA InitRouted == Init => Routed
BY DEF Init, Routed

\* Nothing that the routing speaks of changes, or nothing is routed any more.
LEMMA SameRouted ==
    ASSUME Unseen, Joins => Leads, pc' = pc \/ pc # "top",
           UNCHANGED <<role, router, up, wire, twin, hosting>>
    PROVE  Unseen' /\ (Joins' => Leads')
BY DEF Unseen, Joins, Leads, From, Kept, Hears

\* Without a session or a router nothing is routed.
LEMMA NotRouted ==
    ASSUME role' = 0 \/ ~router'.open
    PROVE  Unseen' /\ (Joins' => Leads')
BY DEF Unseen, Joins

\* A turn of the loop sends what the router's copy shows into a new session.
LEMMA RouteRouted ==
    ASSUME Typed, Turned, Unseen, Joins => Leads, Route
    PROVE  Unseen' /\ (Joins' => Leads')
<1>0. /\ role \in Nat /\ wire \in Seq(Messages) /\ router \in Routers
      /\ router.pad \in States /\ twin \in States /\ Neutral \in States
  BY NeutralIsState DEF Typed, TypeOK, Routers
<1>1. UNCHANGED <<role, up, twin, hosting>> /\ pc' = "select" BY DEF Route
<1> SUFFICES ASSUME role # 0, router'.open PROVE Unseen' /\ (Joins' => Leads')
  BY <1>1, NotRouted
<1>2. router.open /\ router'.remote /\ router'.grabbed = router.grabbed /\ router'.pad = router.pad
  BY <1>0 DEF Route, Routers
<1>3. Unseen' BY <1>2 DEF Unseen
<1>4. CASE router.remote
  <2>1. router' = router /\ wire' = wire BY <1>4 DEF Route
  <2>2. Joins' => Joins BY <1>1, <2>1 DEF Joins, Hears
  <2>3. Leads => Leads' BY <1>1, <2>1 DEF Leads, From, Kept
  <2> QED BY <1>3, <2>2, <2>3
<1>5. CASE ~router.remote
  <2>1. /\ hosting = role => twin = Neutral
        /\ \A n \in DOMAIN wire : wire[n].session = role => wire[n].kind # "input"
    BY <1>2, <1>5 DEF Unseen
  <2>2. router'.pending = << >> BY <1>2, <1>5, <1>0 DEF Route, Routers
  <2>3. From' = Neutral BY <1>1, <2>1 DEF From
  <2>4. Replay(Neutral, FramesFor(wire, role)) = Neutral BY <1>0, <2>1, FramesNone
  <2>5. \A t \in States : Replay(t, << >>) = t BY ReplayEmpty
  <2>6. CASE ~router.grabbed
    <3>1. wire' = wire BY <2>6 DEF Route
    <3>2. Kept' = Neutral BY <1>2, <2>6 DEF Kept
    <3>3. Leads' BY <1>0, <1>1, <2>2, <2>3, <2>4, <2>5, <3>1, <3>2 DEF Leads
    <3> QED BY <1>3, <3>3
  <2>7. CASE router.grabbed /\ "peer" \in up
    <3> DEFINE f == Input(role, Snapshot(router.pad))
    <3>1. wire' = wire \o <<f>> BY <1>2, <1>5, <2>7 DEF Route, Send
    <3>2. <<f>> \in Seq(Messages) /\ f.kind = "input" /\ f.session = role
          /\ f.frame = router.pad
      <4>1. router.pad \in Frames /\ role \in Nat \ {0} BY <1>0, FrameIs
      <4> QED BY <4>1, OneMessage DEF Snapshot, Input
    <3> HIDE DEF f
    <3>3. FramesFor(<<f>>, role) = <<router.pad>> BY <3>2 DEF FramesFor
    <3>4. \A x, y \in Seq(Messages) : FramesFor(x \o y, role) = FramesFor(x, role) \o FramesFor(y, role)
      BY FramesJoined
    <3>5. FramesFor(wire', role) = FramesFor(wire, role) \o <<router.pad>>
      BY <1>0, <3>1, <3>2, <3>3, <3>4
    <3>6. FramesFor(wire, role) \in Seq(Frames) /\ router.pad \in Frames
      BY <1>0, FramesType, FrameIs
    <3>7. Replay(Neutral, Append(FramesFor(wire, role), router.pad))
             = Apply(Replay(Neutral, FramesFor(wire, role)), router.pad)
      BY <3>6, ReplayAppend
    <3>8. FramesFor(wire', role) = Append(FramesFor(wire, role), router.pad)
      BY <3>5, <3>6, AppendIsConcat
    <3>9. Replay(Neutral, FramesFor(wire', role)) = router.pad
      BY <1>0, <2>4, <3>7, <3>8, ApplyWhole
    <3>10. Kept' = router.pad BY <1>2, <2>7 DEF Kept
    <3>11. Leads' BY <1>0, <1>1, <2>2, <2>3, <2>5, <3>9, <3>10 DEF Leads
    <3> QED BY <1>3, <3>11
  <2>8. CASE "peer" \notin up BY <1>1, <1>3, <2>8 DEF Joins
  <2> QED BY <2>6, <2>7, <2>8
<1> QED BY <1>0, <1>4, <1>5 DEF Routers

\* What the router reads, it keeps to send.
LEMMA SampleRouted ==
    ASSUME Typed, Turned, Unseen, Joins => Leads, NEW next, Sample(next)
    PROVE  Unseen' /\ (Joins' => Leads')
<1>0. /\ wire \in Seq(Messages) /\ router \in Routers
      /\ router.pending \in Seq(Frames) /\ unread \in Seq(Frames)
  BY DEF Typed, Routers
<1>1. UNCHANGED <<role, up, wire, twin, hosting>> /\ pc = "select" BY DEF Sample, peer
<1>2. CASE role = 0 BY <1>1, <1>2, NotRouted
<1>3. CASE role # 0
  <2>1. router.open BY <1>1, <1>3 DEF Turned, Releasing
  <2>2. router.remote BY <1>1, <1>3, <2>1 DEF Turned
  <2>3. CASE router' = router BY <1>1, <2>3, SameRouted
  <2>4. CASE router.grabbed /\ router' = Consume(router)
    <3>1. /\ router'.open = router.open /\ router'.remote = router.remote
          /\ router'.grabbed = router.grabbed
          /\ router'.pad = Replay(router.pad, unread)
          /\ router'.pending = router.pending \o unread
      BY <1>0, <2>2, <2>4 DEF Consume, Routers
    <3>2. Unseen' BY <2>2, <3>1 DEF Unseen
    <3>3. Joins' => Joins BY <1>1, <3>1 DEF Joins, Hears
    <3>4. Leads => Leads'
      <4> DEFINE s == Replay(From, FramesFor(wire, role))
      <4>1. From' = From /\ wire' = wire /\ role' = role BY <1>1 DEF From
      <4>2. Kept = router.pad /\ Kept' = Replay(router.pad, unread) BY <2>4, <3>1 DEF Kept
      <4>3. Leads' <=> Replay(s, router.pending \o unread) = Replay(router.pad, unread)
        BY <3>1, <4>1, <4>2 DEF Leads
      <4>4. Leads <=> Replay(s, router.pending) = router.pad BY <4>2 DEF Leads
      <4> HIDE DEF s
      <4>5. \A x, y \in Seq(Frames) : Replay(s, x \o y) = Replay(Replay(s, x), y)
        BY ReplayConcat
      <4> QED BY <1>0, <4>3, <4>4, <4>5
    <3> QED BY <3>2, <3>3, <3>4
  <2> QED BY <2>1, <2>3, <2>4 DEF Sample
<1> QED BY <1>2, <1>3

\* A pad is acquired when nothing touches it.
LEMMA InspectRouted ==
    ASSUME Typed, Phases, Turned, Unseen, Joins => Leads, Inspect
    PROVE  Unseen' /\ (Joins' => Leads')
<1>1. UNCHANGED <<role, up, wire, twin, hosting>> /\ pc = "flushed"
  BY DEF Inspect, device, peer
<1>2. router \in Routers /\ ~router.grabbed BY <1>1 DEF Phases, Typed
<1>3. CASE router' = router BY <1>1, <1>3, SameRouted
<1>4. CASE router' # router
  <2>1. /\ router'.open = router.open /\ router'.remote = router.remote
        /\ router'.pending = router.pending /\ router'.pad = Neutral
    BY <1>2, <1>4 DEF Inspect, Idle, Routers
  <2>2. Kept = Neutral /\ Kept' = Neutral BY <1>2, <2>1 DEF Kept
  <2>3. Unseen' BY <1>1, <2>1 DEF Unseen
  <2>4. Joins' => Joins BY <1>1, <2>1 DEF Joins, Hears
  <2>5. Leads => Leads' BY <1>1, <2>1, <2>2 DEF Leads, From
  <2> QED BY <2>3, <2>4, <2>5
<1> QED BY <1>3, <1>4

\* What was kept is sent.
LEMMA TickRouted ==
    ASSUME Typed, Turned, Phases, Unseen, Joins => Leads, Tick
    PROVE  Unseen' /\ (Joins' => Leads')
<1>0. /\ role \in Nat /\ wire \in Seq(Messages) /\ router \in Routers
      /\ router.pending \in Seq(Frames) /\ twin \in States
  BY DEF Typed, TypeOK, Routers
<1>1. UNCHANGED <<up, twin, hosting>> /\ pc = "sampled" BY DEF Tick
<1>2. CASE role' = 0 BY <1>2, NotRouted
<1> DEFINE v == [n \in DOMAIN router.pending |-> Input(role, router.pending[n])]
<1>3. CASE role # 0 /\ role' = role /\ wire' = Send(v)
  <2>1. router.open /\ router.remote BY <1>1, <1>3 DEF Phases, Turned, Acquires
  <2>2. /\ router'.open = router.open /\ router'.remote = router.remote
        /\ router'.grabbed = router.grabbed /\ router'.pad = router.pad
        /\ router'.pending = << >>
    BY <1>0 DEF Tick, Routers
  <2>3. Unseen' BY <2>1, <2>2 DEF Unseen
  <2>4. CASE "peer" \notin up BY <1>1, <2>3, <2>4 DEF Joins
  <2>5. CASE "peer" \in up
    <3>1. /\ v \in Seq(Messages) /\ DOMAIN v = DOMAIN router.pending
          /\ \A k \in DOMAIN v : v[k].kind = "input" /\ v[k].session = role
                                 /\ v[k].frame = router.pending[k]
      <4>1. \A n \in DOMAIN router.pending : Input(role, router.pending[n]) \in Messages
        <5>1. role \in Nat \ {0} BY <1>0, <1>3
        <5>2. \A n \in DOMAIN router.pending : router.pending[n] \in Frames BY <1>0
        <5> QED BY <5>1, <5>2, OneMessage
      <4>2. DOMAIN router.pending = 1..Len(router.pending) /\ Len(router.pending) \in Nat
        BY <1>0
      <4>3. \A k \in DOMAIN v : v[k].kind = "input" /\ v[k].session = role
                                 /\ v[k].frame = router.pending[k]
        BY DEF Input
      <4> QED BY <4>1, <4>2, <4>3
    <3>2. wire' = wire \o v BY <1>3, <2>5 DEF Send
    <3> HIDE DEF v
    <3>3. FramesFor(v, role) = router.pending
      <4>1. FramesFor(v, role) \in Seq(Frames) BY <3>1, FramesType
      <4>2. DOMAIN FramesFor(v, role) = DOMAIN router.pending BY <3>1 DEF FramesFor
      <4>3. \A k \in DOMAIN router.pending : FramesFor(v, role)[k] = router.pending[k]
        BY <3>1 DEF FramesFor
      <4> QED BY <1>0, <3>1, <4>2, <4>3 DEF FramesFor
    <3>4. FramesFor(wire', role) = FramesFor(wire, role) \o router.pending
      <4>1. \A x, y \in Seq(Messages) : FramesFor(x \o y, role) = FramesFor(x, role) \o FramesFor(y, role)
        BY FramesJoined
      <4> QED BY <1>0, <3>1, <3>2, <3>3, <4>1
    <3>5. Joins' => Joins
      <4>1. \A n \in DOMAIN wire' : wire'[n].kind = "begin" => n \in DOMAIN wire /\ wire'[n] = wire[n]
        <5>1. \A x, y \in Seq(Messages) : \A n \in DOMAIN (x \o y) :
                 \/ n \in DOMAIN x /\ (x \o y)[n] = x[n]
                 \/ \E m \in DOMAIN y : (x \o y)[n] = y[m]
          <6> TAKE x, y \in Seq(Messages)
          <6>1. /\ Len(x \o y) = Len(x) + Len(y)
                /\ \A n \in 1..Len(x) : (x \o y)[n] = x[n]
                /\ \A n \in 1..Len(x \o y) : n \in 1..Len(x)
                      \/ \E m \in 1..Len(y) : n = Len(x) + m /\ (x \o y)[n] = y[m]
            <7>1. x \o y \in Seq(Messages) /\ Glued(x, y, x \o y) BY Joined
            <7> QED BY <7>1 DEF Glued
          <6>2. DOMAIN x = 1..Len(x) /\ DOMAIN y = 1..Len(y) OBVIOUS
          <6>3. DOMAIN (x \o y) = 1..Len(x \o y) BY ConcatProperties
          <6> QED BY <6>1, <6>2, <6>3
        <5>2. \A n \in DOMAIN (wire \o v) :
                 \/ n \in DOMAIN wire /\ (wire \o v)[n] = wire[n]
                 \/ \E m \in DOMAIN v : (wire \o v)[n] = v[m]
          BY <1>0, <3>1, <5>1
        <5> QED BY <3>1, <3>2, <5>2
      <4> QED BY <1>1, <1>3, <2>2, <4>1 DEF Joins, Hears
    <3>6. Leads => Leads'
      <4> DEFINE s == Replay(From, FramesFor(wire, role))
      <4>1. From' = From /\ Kept' = Kept BY <1>1, <1>3, <2>2 DEF From, Kept
      <4>2. Replay(From, FramesFor(wire, role) \o router.pending) = Replay(s, router.pending)
        BY <1>0, FramesThen
      <4>3. From \in States BY <1>0, NeutralIsState DEF From
      <4>4. Replay(From, FramesFor(wire', role)) \in States
        <5>1. FramesFor(wire, role) \in Seq(Frames) BY <1>0, FramesType
        <5>2. FramesFor(wire, role) \o router.pending \in Seq(Frames)
          BY <1>0, <5>1, ConcatProperties
        <5> QED BY <3>4, <4>3, <5>2, ReplayType
      <4>5. Leads' <=> Replay(From, FramesFor(wire', role)) = Kept
        BY <1>3, <2>2, <4>1, <4>4, ReplayEmpty DEF Leads
      <4> QED BY <3>4, <4>2, <4>5 DEF Leads
    <3> QED BY <2>3, <3>5, <3>6
  <2> QED BY <2>4, <2>5
<1>4. CASE role = 0 /\ role' = role BY <1>4, NotRouted
<1> QED BY <1>2, <1>3, <1>4 DEF Tick

\* The peer has seen nothing of a session that begins.
LEMMA CrossRouted ==
    ASSUME Typed, Turned, Phases, Wire, Cross
    PROVE  Unseen' /\ (Joins' => Leads')
<1>0. role \in Nat /\ hosting \in 0..begun /\ begun \in Nat /\ wire \in Seq(Messages)
  BY DEF Typed, TypeOK
<1>1. UNCHANGED <<router, up, twin, hosting>> /\ pc = "sampled" /\ pc' = "top" /\ role = 0
  BY DEF Cross, Phases
<1>2. ~router.remote BY <1>1 DEF Phases, Turned, Acquires
<1>3. CASE role' = role BY <1>1, <1>3, NotRouted
<1>4. CASE role' = begun + 1 /\ wire' = Send(<<Begin(begun + 1)>>)
  <2>1. hosting' # role' BY <1>0, <1>1, <1>4
  <2>2. ASSUME NEW n \in DOMAIN wire', wire'[n].session = begun + 1
        PROVE  wire'[n].kind # "input"
    <3>1. \A k \in DOMAIN wire : wire[k].session <= begun /\ wire[k].session \in Nat
      <4> TAKE k \in DOMAIN wire
      <4>1. wire[k] \in Messages BY <1>0
      <4> QED BY <4>1 DEF Wire, Messages
    <3>2. CASE wire' = wire BY <1>0, <2>2, <3>1, <3>2
    <3> DEFINE b == <<Begin(begun + 1)>>
    <3>3. b \in Seq(Messages) /\ \A k \in DOMAIN b : b[k].kind = "begin"
      <4>1. begun + 1 \in Nat \ {0} BY <1>0
      <4>2. b \in Seq(Messages) BY <4>1, FrameIs, OneMessage
      <4> QED BY <4>2 DEF Begin
    <3> HIDE DEF b
    <3>4. CASE wire' = wire \o b
      <4>1. \A x, y \in Seq(Messages) : \A m \in DOMAIN (x \o y) :
               \/ \E j \in DOMAIN x : (x \o y)[m] = x[j]
               \/ \E j \in DOMAIN y : (x \o y)[m] = y[j]
        BY JoinedFrom
      <4>2. \/ \E j \in DOMAIN wire : (wire \o b)[n] = wire[j]
            \/ \E j \in DOMAIN b : (wire \o b)[n] = b[j]
        BY <1>0, <3>3, <3>4, <4>1
      <4> QED BY <1>0, <2>2, <3>1, <3>3, <3>4, <4>2
    <3> QED BY <1>4, <3>2, <3>4 DEF Send, b
  <2> QED BY <1>1, <1>2, <1>4, <2>1, <2>2 DEF Unseen, Joins
<1> QED BY <1>3, <1>4 DEF Cross

\* The twin comes to show what the message it reads says.
LEMMA ReceiveRouted ==
    ASSUME Typed, Wire, Unseen, Joins => Leads, Receive
    PROVE  Unseen' /\ (Joins' => Leads')
<1>0. /\ wire \in Seq(Messages) /\ wire # << >> /\ wire' = Tail(wire)
      /\ twin \in States /\ Neutral \in States /\ role \in Nat
      /\ UNCHANGED <<role, router, up, pc>>
  BY NeutralIsState DEF Receive, Typed, TypeOK, process
<1> DEFINE t == Tail(wire)
<1>1. /\ t \in Seq(Messages) /\ Len(t) \in Nat
      /\ Head(wire) = wire[1] /\ 1 \in DOMAIN wire
      /\ \A n \in DOMAIN t : t[n] = wire[n + 1] /\ n + 1 \in DOMAIN wire /\ 1 < n + 1
  <2>1. /\ t \in Seq(Messages) /\ Len(t) \in Nat
        /\ Head(wire) = wire[1] /\ 1 \in 1..Len(wire)
        /\ \A n \in 1..Len(t) : t[n] = wire[n + 1] /\ n + 1 \in 1..Len(wire)
    BY <1>0, Rest
  <2> HIDE DEF t
  <2>2. DOMAIN t = 1..Len(t) /\ DOMAIN wire = 1..Len(wire) BY <1>0, <2>1
  <2> QED BY <2>1, <2>2
<1>2. wire' = t BY <1>0
<1>3. \A s \in States : Replay(s, FramesFor(wire, role)) =
            Replay(Apply(s, FramesFor(wire, role)[1]), FramesFor(t, role))
  BY <1>0, FramesRest
<1>4. FramesFor(wire, role)[1] = IF wire[1].kind = "input" /\ wire[1].session = role
                                 THEN wire[1].frame ELSE << >>
  BY <1>1 DEF FramesFor
<1>5. wire[1].kind = "begin" => hosting = 0 /\ twin = Neutral
  <2>1. ASSUME wire[1].kind = "begin", hosting # 0 PROVE FALSE
    <3>1. \E k \in 1..(1 - 1) : Ending(wire, hosting, k)
      BY <1>1, <2>1 DEF Wire, Ahead
    <3> QED BY <3>1
  <2> QED BY <2>1 DEF Wire
<1>6. role # 0 /\ wire[1].kind = "end" => wire[1].session # role
  BY <1>1 DEF Wire, Ending
<1>7. wire[1].kind \in {"begin", "input", "end"}
  <2>1. wire[1] \in Messages BY <1>0, <1>1
  <2> QED BY <2>1 DEF Messages
<1> HIDE DEF t
<1>8. Unseen'
  <2> SUFFICES ASSUME role # 0, router.open, ~router.remote
               PROVE  /\ pc = "top"
                      /\ hosting' = role => twin' = Neutral
                      /\ \A n \in DOMAIN t : t[n].session = role => t[n].kind # "input"
    BY <1>0, <1>2 DEF Unseen
  <2>1. /\ pc = "top" /\ (hosting = role => twin = Neutral)
        /\ \A n \in DOMAIN wire : wire[n].session = role => wire[n].kind # "input"
    BY DEF Unseen
  <2>2. hosting' = role => twin' = Neutral
    <3>1. CASE wire[1].kind = "begin" BY <1>1, <1>5, <3>1 DEF Receive
    <3>2. CASE wire[1].kind = "input" BY <1>1, <2>1, <3>2 DEF Receive
    <3>3. CASE wire[1].kind = "end" BY <1>1, <2>1, <3>3 DEF Receive, Releases
    <3> QED BY <1>7, <3>1, <3>2, <3>3
  <2> QED BY <1>1, <2>1, <2>2
<1>9. ASSUME Joins' PROVE Leads'
  <2>1. role # 0 /\ router.open /\ router.remote /\ "peer" \in up BY <1>0, <1>9 DEF Joins
  <2>2. hosting' = role \/ \E n \in DOMAIN t : t[n].kind = "begin" /\ t[n].session = role
    BY <1>0, <1>2, <1>9 DEF Joins, Hears
  <2>3. hosting' = role =>
            hosting = role \/ (wire[1].kind = "begin" /\ wire[1].session = role)
    BY <1>1, <2>1 DEF Receive
  <2>4. Hears BY <1>1, <2>2, <2>3 DEF Hears
  <2>5. Leads BY <2>1, <2>4 DEF Joins
  <2>6. From \in States /\ Kept' = Kept BY <1>0 DEF From, Kept
  <2>7. From' = Apply(From, FramesFor(wire, role)[1])
    <3>1. CASE wire[1].kind = "begin"
      <4>1. From = Neutral /\ FramesFor(wire, role)[1] = << >> BY <1>4, <1>5, <2>1, <3>1 DEF From
      <4>2. twin' = twin BY <1>1, <3>1 DEF Receive
      <4>3. From' = Neutral BY <1>0, <1>5, <3>1, <4>2 DEF From
      <4> QED BY <1>0, <4>1, <4>3, ApplyWhole
    <3>2. CASE wire[1].kind = "input"
      <4>1. /\ hosting' = hosting
            /\ twin' = IF hosting = wire[1].session THEN Apply(twin, wire[1].frame) ELSE twin
        BY <1>1, <3>2 DEF Receive
      <4>2. CASE wire[1].session = role
        <5>1. hosting = role
          <6>1. ASSUME NEW n \in DOMAIN t, t[n].kind = "begin", t[n].session = role
                PROVE  FALSE
            <7>1. wire[1].session < t[n].session BY <1>1, <6>1 DEF Wire, Ordered
            <7> QED BY <1>0, <4>2, <6>1, <7>1
          <6> QED BY <2>2, <4>1, <6>1
        <5>2. FramesFor(wire, role)[1] = wire[1].frame BY <1>4, <3>2, <4>2
        <5> QED BY <1>0, <4>1, <4>2, <5>1, <5>2 DEF From
      <4>3. CASE wire[1].session # role
        <5>1. FramesFor(wire, role)[1] = << >> BY <1>4, <4>3
        <5>2. From' = From BY <1>0, <4>1, <4>3 DEF From
        <5> QED BY <2>6, <5>1, <5>2, ApplyWhole
      <4> QED BY <4>2, <4>3
    <3>3. CASE wire[1].kind = "end"
      <4>1. wire[1].session # role BY <1>6, <2>1, <3>3
      <4>2. FramesFor(wire, role)[1] = << >> BY <1>4, <3>3
      <4>3. IF hosting = wire[1].session THEN hosting' = 0
            ELSE hosting' = hosting /\ twin' = twin
        BY <1>1, <3>3 DEF Receive
      <4>4. From' = From BY <1>0, <2>1, <4>1, <4>3 DEF From
      <4> QED BY <2>6, <4>2, <4>4, ApplyWhole
    <3> QED BY <1>7, <3>1, <3>2, <3>3
  <2>8. Replay(From, FramesFor(wire, role)) = Replay(From', FramesFor(t, role))
    BY <1>3, <2>6, <2>7
  <2>9. Leads <=> Replay(Replay(From', FramesFor(t, role)), router.pending) = Kept
    BY <2>8 DEF Leads
  <2>10. Leads' <=> Replay(Replay(From', FramesFor(t, role)), router.pending) = Kept
    BY <1>0, <1>2, <2>6 DEF Leads
  <2> QED BY <2>5, <2>9, <2>10
<1> QED BY <1>8, <1>9

\* The peer ends its session, or leaves.
LEMMA PeerRouted ==
    ASSUME Typed, Wire, Unseen, Joins => Leads, PeerEnds \/ PeerLeaves
    PROVE  Unseen' /\ (Joins' => Leads')
<1>0. hosting' = 0 /\ UNCHANGED <<role, router, pc>> /\ role \in Nat /\ hosting \in Nat
  BY DEF PeerEnds, PeerLeaves, Typed, TypeOK, process
<1>1. CASE PeerLeaves
  <2>1. wire' = << >> /\ "peer" \notin up' BY <1>1 DEF PeerLeaves
  <2>2. \A n \in DOMAIN wire' : FALSE BY <2>1
  <2> QED BY <1>0, <2>1, <2>2 DEF Unseen, Joins
<1>2. CASE PeerEnds
  <2>1. hosting # 0 /\ wire' = wire /\ up' = up BY <1>2 DEF PeerEnds, process
  <2>2. Unseen' BY <1>0, <2>1 DEF Unseen
  <2>3. ASSUME Joins' PROVE Leads'
    <3>1. role # 0 /\ \E n \in DOMAIN wire : wire[n].kind = "begin" /\ wire[n].session = role
      BY <1>0, <2>1, <2>3 DEF Joins, Hears
    <3>2. \A n \in DOMAIN wire : wire[n].kind = "begin" => hosting < wire[n].session
      BY DEF Wire, Ahead
    <3>3. hosting # role BY <1>0, <3>1, <3>2
    <3>4. From' = From BY <1>0, <3>1, <3>3 DEF From
    <3>5. Joins BY <1>0, <2>1, <2>3, <3>1 DEF Joins, Hears
    <3> QED BY <1>0, <2>1, <3>4, <3>5 DEF Leads, Kept
  <2> QED BY <2>2, <2>3
<1> QED BY <1>1, <1>2

\* Every step keeps the twin on its way to what the router shows.
LEMMA StepRouted ==
    ASSUME Typed, Typed', Phases, Turned, Wire, Routed, [Next]_vars
    PROVE  Routed'
<1> SUFFICES Unseen' /\ (Joins' => Leads')
  <2>1. (Typed => (Routed <=> Unseen /\ (Joins => Leads)))' BY RoutedIs, PTL
  <2> QED BY <2>1
<1>0. Unseen /\ (Joins => Leads) BY RoutedIs
<1> USE DEF device, process, peer, history
<1>1. CASE Report BY <1>0, <1>1, SameRouted DEF Report
<1>2. CASE ReportAgain BY <1>0, <1>2, SameRouted DEF ReportAgain
<1>3. CASE Open BY <1>3, NotRouted DEF Open, Phases, Idles
<1>4. CASE Route BY <1>0, <1>4, RouteRouted
<1>5. CASE Acquire BY <1>0, <1>5, SameRouted DEF Acquire
<1>6. CASE Flush BY <1>0, <1>6, SameRouted DEF Flush
<1>7. CASE Inspect BY <1>0, <1>7, InspectRouted
<1>8. CASE EndPrivately BY <1>0, <1>8, SameRouted DEF EndPrivately
<1>9. CASE Ungrab BY <1>0, <1>9, SameRouted DEF Ungrab
<1>10. CASE EndPublicly BY <1>0, <1>10, SameRouted DEF EndPublicly
<1>11. CASE Tick BY <1>0, <1>11, TickRouted
<1>12. CASE Cross BY <1>0, <1>12, CrossRouted
<1>13. CASE Return BY <1>13, NotRouted DEF Return
<1>14. CASE Suspend BY <1>14, NotRouted DEF Suspend, Drop, Closed
<1>15. CASE Overrun BY <1>15, NotRouted DEF Overrun, Drop, Closed
<1>16. CASE Fail BY <1>16, NotRouted DEF Fail, Drop, Closed
<1>17. CASE Stop BY <1>17, NotRouted DEF Stop, Drop, Closed
<1>18. CASE Dropped BY <1>18, NotRouted DEF Dropped
<1>19. CASE Unlock BY <1>0, <1>19, SameRouted DEF Unlock
<1>20. CASE Crash BY <1>20, NotRouted DEF Crash
<1>21. CASE Look BY <1>0, <1>21, SameRouted DEF Look
<1>22. CASE Take BY <1>0, <1>22, SameRouted DEF Take
<1>23. CASE StartPrivately BY <1>0, <1>23, SameRouted DEF StartPrivately
<1>24. CASE GiveBack BY <1>0, <1>24, SameRouted DEF GiveBack
<1>25. CASE Repair BY <1>0, <1>25, SameRouted DEF Repair
<1>26. CASE Receive BY <1>0, <1>26, ReceiveRouted
<1>27. CASE PeerEnds BY <1>0, <1>27, PeerRouted
<1>28. CASE PeerLeaves BY <1>0, <1>28, PeerRouted
<1>29. ASSUME NEW next \in {"tick", "begin"}, Sample(next)
       PROVE  Unseen' /\ (Joins' => Leads')
  BY <1>0, <1>29, SampleRouted
<1>30. CASE UNCHANGED vars BY <1>0, <1>30, SameRouted DEF vars
<1> QED
  BY <1>1, <1>2, <1>3, <1>4, <1>5, <1>6, <1>7, <1>8, <1>9, <1>10, <1>11, <1>12, <1>13, <1>14, <1>15, <1>16, <1>17, <1>18, <1>19, <1>20, <1>21, <1>22, <1>23, <1>24, <1>25, <1>26, <1>27, <1>28, <1>29, <1>30
  DEF Next, Acquiring, Handoff, Restore

-----------------------------------------------------------------------------
(* The theorems *)

IInv == /\ Typed /\ Phases /\ Turned /\ Looked /\ Recent
        /\ ShownOnce /\ MirrorInStep /\ Wire /\ Routed

\* Every step of the touchpad, the coordinator, the connection and the peer
\* keeps the invariant.
THEOREM Invariance == Spec => []IInv
<1>1. Init => IInv
  BY InitTyped, InitPhases, InitDevice, InitWire, InitRouted DEF IInv
<1>2. ASSUME IInv, [Next]_vars PROVE IInv'
  <2>1. /\ Typed /\ Phases /\ Turned /\ Looked /\ Recent
        /\ ShownOnce /\ MirrorInStep /\ Wire /\ Routed
    BY <1>2 DEF IInv
  <2>2. Typed'
    <3>1. \A n \in DOMAIN wire : wire[n].session <= begun BY <2>1 DEF Wire
    <3> QED BY <1>2, <2>1, <3>1, StepTyped
  <2>3. Phases' /\ Turned' BY <1>2, <2>1, StepPhases
  <2>4. Looked' /\ Recent' /\ ShownOnce' /\ MirrorInStep' BY <1>2, <2>1, StepDevice
  <2>5. Wire' BY <1>2, <2>1, StepWire
  <2>6. Routed' BY <1>2, <2>1, <2>2, StepRouted
  <2> QED BY <2>2, <2>3, <2>4, <2>5, <2>6 DEF IInv
<1> QED BY <1>1, <1>2, PTL DEF Spec

\* What each reader shows is a touchpad's state, the queue the kernel keeps is
\* bounded, and no session is one that has not begun.
THEOREM TypeCorrect == Spec => []TypeOK
<1>1. IInv => TypeOK BY DEF IInv, Typed
<1> QED BY <1>1, Invariance, PTL

\* A touch is shown once: not by the compositor's own reader and the mirror
\* both, and never by a reader that will not hear of its end.
THEOREM TouchesAreShownOnce == Spec => []ShownOnce
<1>1. IInv => ShownOnce BY DEF IInv
<1> QED BY <1>1, Invariance, PTL

\* The router's copy follows the kernel, and the mirror follows the copy
\* exactly while control is local (Router::sample, Router::route).
THEOREM MirrorFollows == Spec => []MirrorInStep
<1>1. IInv => MirrorInStep BY DEF IInv
<1> QED BY <1>1, Invariance, PTL

\* The frames on their way lead the peer's twin to what the router shows, in
\* every session from its first frame to its end, and without a session the
\* twin shows nothing.
THEOREM TwinFollows == Spec => []TwinInStep
<1>1. IInv => TwinInStep
  <2> SUFFICES ASSUME Turned, Wire, Routed PROVE TwinInStep BY DEF IInv
  <2>1. hosting = 0 => twin = Neutral BY DEF Wire
  <2>2. role # 0 /\ router.open /\ pc # "top" => router.remote BY DEF Turned
  <2>3. (\E n \in DOMAIN wire : wire[n] = Begin(role))
            => \E n \in DOMAIN wire : wire[n].kind = "begin" /\ wire[n].session = role
    BY DEF Begin
  <2> QED BY <2>1, <2>2, <2>3 DEF TwinInStep, Routed, Hears
<1> QED BY <1>1, Invariance, PTL

-----------------------------------------------------------------------------
(* What a touchpad remembers of its contacts *)

CONSTANT Descriptors
VARIABLES descriptor, state, raw

Memory == INSTANCE TouchState

\* What Valid says of the axes a touchpad must have.
LEMMA ValidAxes ==
  ASSUME NEW d, Memory!Valid(d)
  PROVE  /\ Memory!SLOT \in d.axes /\ Memory!TRACKING \in Memory!ContactAxes(d)
         /\ Memory!SlotsOf(d) \subseteq 0..31
         /\ Memory!PlainAxes(d) \subseteq {0, 1, 24, 28}
         /\ Memory!ContactAxes(d) \subseteq 48..61
         /\ \A i \in Memory!SlotsOf(d) : Memory!InRange(d, Memory!SLOT, i)
BY DEF Memory!Valid, Memory!ContactAxes, Memory!PlainAxes, Memory!SlotsOf,
       Memory!TouchAxes, Memory!SLOT, Memory!TRACKING, Memory!InRange

\* A new memory is within its description.
LEMMA NewWithin ==
  ASSUME NEW d, Memory!Valid(d)
  PROVE  Memory!WithinOf(d, Memory!New(d), {})
<1>1. Memory!TRACKING \in Memory!ContactAxes(d) /\ 0 \in Memory!SlotsOf(d)
  BY ValidAxes DEF Memory!SlotsOf, Memory!Valid
<1>2. \A a \in Memory!PlainAxes(d) : d.low[a] \in Int /\ Memory!InRange(d, a, d.low[a])
  BY DEF Memory!Valid, Memory!PlainAxes, Memory!InRange
<1>3. Memory!NewContact(d) \in Memory!Contacts(d)
  BY <1>1 DEF Memory!NewContact, Memory!Contacts
<1>4. \A a \in Memory!NewContact(d).present :
         Memory!InRange(d, a, Memory!NewContact(d).value[a])
  BY <1>1 DEF Memory!NewContact, Memory!InRange
<1>5. Memory!TRACKING \in Memory!NewContact(d).present
  BY DEF Memory!NewContact
<1>. QED  BY <1>1, <1>2, <1>3, <1>4, <1>5 DEF Memory!WithinOf, Memory!New

\* An accepted event keeps a memory within its description: the slot it is
\* applied to exists.
LEMMA EventWithin ==
  ASSUME NEW d, NEW s, NEW r, Memory!WithinOf(d, s, r),
         NEW e \in Memory!Events, Memory!Fits(d, e)
  PROVE  Memory!WithinOf(d, Memory!Applied(s, e), Memory!Replaced(s, r, e))
<1>1. Memory!Valid(d)
  BY DEF Memory!WithinOf
<1>2. CASE e.kind = "key"
  <2>1. e.code \in d.keys
    BY <1>2 DEF Memory!Fits
  <2>2. Memory!Applied(s, e) = [slot |-> s.slot,
                         keys |-> IF e.value = 0 THEN s.keys \ {e.code}
                                  ELSE s.keys \cup {e.code},
                         axes |-> s.axes, contacts |-> s.contacts]
    BY <1>2 DEF Memory!Applied, Memory!WithinOf
  <2>. QED  BY <1>2, <2>1, <2>2 DEF Memory!WithinOf, Memory!Replaced
<1>3. CASE e.kind # "key" /\ e.code = Memory!SLOT
  <2>1. e.value \in Memory!SlotsOf(d)
    BY <1>1, <1>3
       DEF Memory!Fits, Memory!InRange, Memory!Valid, Memory!SlotsOf, Memory!SLOT,
           Memory!TRACKING
  <2>2. Memory!Applied(s, e) = [slot |-> e.value, keys |-> s.keys, axes |-> s.axes,
                         contacts |-> s.contacts]
    BY <1>3 DEF Memory!Applied, Memory!WithinOf
  <2>3. /\ \A a \in Memory!PlainAxes(d) : <<-1, a>> # <<-1, e.code>>
        /\ \A i \in Memory!SlotsOf(d), a \in Memory!ContactAxes(d) :
              <<i, a>> # <<-1, e.code>>
    BY <1>3 DEF Memory!PlainAxes, Memory!ContactAxes, Memory!SLOT
  <2>4. Memory!Replaced(s, r, e) = r \ {<<-1, e.code>>}
    BY <1>3 DEF Memory!Replaced, Memory!Place, Memory!SLOT
  <2>. QED  BY <2>1, <2>2, <2>3, <2>4 DEF Memory!WithinOf, Memory!Contacts
<1>4. CASE e.kind # "key" /\ e.code # Memory!SLOT /\ e.code > Memory!SLOT
  <2>1. /\ e.code \in Memory!ContactAxes(d) /\ e.value \in Int
        /\ Memory!InRange(d, e.code, e.value)
    BY <1>4 DEF Memory!Fits, Memory!ContactAxes, Memory!Events
  <2>. DEFINE old == s.contacts[s.slot]
              new == [present |-> old.present \cup {e.code},
                      value   |-> [old.value EXCEPT ![e.code] = e.value]]
  <2>2. s.slot \in Memory!SlotsOf(d) /\ old \in Memory!Contacts(d)
    BY DEF Memory!WithinOf
  <2>3. new \in Memory!Contacts(d)
    BY <2>1, <2>2 DEF Memory!Contacts
  <2>. DEFINE left == r \ {<<s.slot, e.code>>}
  <2>4. \A a \in new.present : Memory!InRange(d, a, new.value[a])
                                \/ <<s.slot, a>> \in left
    BY <2>1, <2>2 DEF Memory!WithinOf, Memory!Contacts
  <2>5. Memory!TRACKING \in new.present
    BY <2>2 DEF Memory!WithinOf
  <2>. HIDE DEF old
  <2>6. Memory!Applied(s, e) = [s EXCEPT !.contacts[s.slot] = new]
    BY <1>4 DEF Memory!Applied, old
  <2>. HIDE DEF new
  <2>7. Memory!Applied(s, e) = [slot |-> s.slot, keys |-> s.keys, axes |-> s.axes,
                         contacts |-> [s.contacts EXCEPT ![s.slot] = new]]
    BY <2>6 DEF Memory!WithinOf
  <2>8. [s.contacts EXCEPT ![s.slot] = new] \in [Memory!SlotsOf(d) -> Memory!Contacts(d)]
    BY <2>3 DEF Memory!WithinOf
  <2>9. Memory!Replaced(s, r, e) = left
    BY <1>4 DEF Memory!Replaced, Memory!Place
  <2>10. \A a \in Memory!PlainAxes(d) : <<-1, a>> \in r => <<-1, a>> \in left
    BY <2>2 DEF Memory!SlotsOf
  <2>11. \A i \in Memory!SlotsOf(d) : \A a : i # s.slot /\ <<i, a>> \in r => <<i, a>> \in left
    OBVIOUS
  <2>. HIDE DEF left
  <2>. QED  BY <2>2, <2>4, <2>5, <2>7, <2>8, <2>9, <2>10, <2>11 DEF Memory!WithinOf
<1>5. CASE e.kind # "key" /\ e.code # Memory!SLOT /\ ~(e.code > Memory!SLOT)
  <2>1. /\ e.code \in Memory!PlainAxes(d) /\ e.value \in Int
        /\ Memory!InRange(d, e.code, e.value)
    BY <1>5 DEF Memory!Fits, Memory!PlainAxes, Memory!Events, Memory!SLOT
  <2>2. Memory!Applied(s, e) = [slot |-> s.slot, keys |-> s.keys,
                         axes |-> [s.axes EXCEPT ![e.code] = e.value],
                         contacts |-> s.contacts]
    BY <1>5 DEF Memory!Applied, Memory!WithinOf
  <2>3. Memory!Replaced(s, r, e) = r \ {<<-1, e.code>>}
    BY <1>5 DEF Memory!Replaced, Memory!Place
  <2>4. \A i \in Memory!SlotsOf(d) : \A a : <<i, a>> # <<-1, e.code>>
    BY DEF Memory!SlotsOf
  <2>. QED  BY <2>1, <2>2, <2>3, <2>4 DEF Memory!WithinOf
<1>. QED  BY <1>2, <1>3, <1>4, <1>5

\* What the kernel says is within the description, or remembered as its own.
LEMMA ReadWithin ==
  ASSUME Memory!Within, NEW k \in Memory!Kernels, Memory!Read(k)
  PROVE  Memory!WithinOf(descriptor, state', raw')
<1>1. Memory!TRACKING \in Memory!ContactAxes(descriptor)
  BY ValidAxes DEF Memory!Within, Memory!WithinOf
<1>2. state'.contacts \in [Memory!SlotsOf(descriptor) -> Memory!Contacts(descriptor)]
  BY DEF Memory!Read, Memory!Contacts
<1>. QED  BY <1>1, <1>2 DEF Memory!Within, Memory!WithinOf, Memory!Read

\* A touchpad's memory never leaves its description, whatever is touched and
\* whatever the peer sends: no frame reaches past the contacts.
THEOREM StaysWithin == Memory!Spec => []Memory!Within
<1>1. Memory!Init => Memory!Within
  BY NewWithin DEF Memory!Init, Memory!Within
<1>2. Memory!Within /\ [Memory!Next]_Memory!vars => Memory!Within'
  <2>. SUFFICES ASSUME Memory!Within, [Memory!Next]_Memory!vars PROVE Memory!Within'
    OBVIOUS
  <2>1. ASSUME NEW e \in Memory!Events, Memory!Event(e) PROVE Memory!Within'
    BY <2>1, EventWithin DEF Memory!Event, Memory!Within
  <2>2. CASE Memory!Reset
    <3>1. Memory!Valid(descriptor)
      BY DEF Memory!Within, Memory!WithinOf
    <3>. QED  BY <2>2, <3>1, NewWithin DEF Memory!Reset, Memory!Within
  <2>3. ASSUME NEW k \in Memory!Kernels, Memory!Read(k) PROVE Memory!Within'
    BY <2>3, ReadWithin DEF Memory!Read, Memory!Within
  <2>4. CASE UNCHANGED Memory!vars
    BY <2>4 DEF Memory!Within, Memory!vars
  <2>. QED  BY <2>1, <2>2, <2>3, <2>4 DEF Memory!Next
<1>. QED  BY <1>1, <1>2, PTL DEF Memory!Spec

-----------------------------------------------------------------------------
\* Fifteen codes for each of 32 slots and fourteen shared ones: every frame
\* written from a memory has its places there.
SharedCodes == {0, 1, 24} \cup {28, Memory!SLOT, 325} \cup {272, 273, 274}
                   \cup {328, Memory!TOUCH, 330} \cup {333, 334, 335}
Room        == ((0..31) \X (47..61)) \cup ({-1} \X SharedCodes)

\* A set whose size is bounded.
AtMost(S, n) == IsFiniteSet(S) /\ Cardinality(S) \in 0..n

LEMMA AtMostUnion ==
  ASSUME NEW S, NEW T, NEW m \in Nat, NEW n \in Nat, NEW k \in Nat,
         AtMost(S, m), AtMost(T, n), m + n <= k
  PROVE  AtMost(S \cup T, k)
<1>1. /\ IsFiniteSet(S \cup T)
      /\ Cardinality(S \cup T) = Cardinality(S) + Cardinality(T) - Cardinality(S \cap T)
  BY FS_Union DEF AtMost
<1>2. IsFiniteSet(S \cap T)
  BY FS_Intersection DEF AtMost
<1>3. Cardinality(S \cap T) \in Nat /\ Cardinality(S \cup T) \in Nat
  BY <1>1, <1>2, FS_CardinalityType
<1>. QED  BY <1>1, <1>3 DEF AtMost

LEMMA AtMostOne ==
  ASSUME NEW a
  PROVE  AtMost({a}, 1)
<1>1. IsFiniteSet({a}) /\ Cardinality({a}) = 1
  BY FS_Singleton, Zenon
<1>2. 1 \in 0..1
  OBVIOUS
<1>. QED  BY <1>1, <1>2 DEF AtMost

LEMMA AtMostThree ==
  ASSUME NEW a, NEW b, NEW c
  PROVE  AtMost({a, b, c}, 3)
<1>1. AtMost({a}, 1) /\ AtMost({b}, 1) /\ AtMost({c}, 1)
  BY AtMostOne
<1>2. AtMost({a} \cup {b}, 2)
  BY <1>1, AtMostUnion
<1>3. AtMost(({a} \cup {b}) \cup {c}, 3)
  BY <1>1, <1>2, AtMostUnion
<1>4. ({a} \cup {b}) \cup {c} = {a, b, c}
  OBVIOUS
<1>. QED  BY <1>3, <1>4

LEMMA AtMostFifteen ==
  ASSUME NEW A, NEW B, NEW C, NEW D, NEW E,
         AtMost(A, 3), AtMost(B, 3), AtMost(C, 3), AtMost(D, 3), AtMost(E, 3)
  PROVE  AtMost(A \cup B \cup C \cup D \cup E, 15)
<1>1. AtMost(A \cup B, 6)
  BY AtMostUnion
<1>2. AtMost(C \cup D, 6)
  BY AtMostUnion
<1>. DEFINE F == A \cup B
            G == C \cup D
<1>3. AtMost(F, 6) /\ AtMost(G, 6)
  BY <1>1, <1>2
<1>. HIDE DEF F, G
<1>4. AtMost(F \cup G, 12)
  BY <1>3, AtMostUnion
<1>. DEFINE H == F \cup G
<1>5. AtMost(H, 12)
  BY <1>4
<1>. HIDE DEF H
<1>6. AtMost(H \cup E, 15)
  BY <1>5, AtMostUnion
<1>7. H \cup E = A \cup B \cup C \cup D \cup E
  BY DEF F, G, H
<1>. QED  BY <1>6, <1>7

\* Room is finite and smaller than a frame may be.
LEMMA RoomSize == AtMost(Room, Memory!FrameMax)
<1>1. AtMost((0..31) \X (47..61), 480)
  <2>. DEFINE a == 0
              b == 31
              c == 47
              d == 61
  <2>1. a \in Int /\ b = a + 31 /\ c \in Int /\ d = c + 14
    OBVIOUS
  <2>. HIDE DEF a, b, c, d
  <2>2. IsFiniteSet(a..b) /\ Cardinality(a..b) = 32
    BY <2>1, FS_Interval
  <2>3. IsFiniteSet(c..d) /\ Cardinality(c..d) = 15
    BY <2>1, FS_Interval
  <2>4. /\ IsFiniteSet((a..b) \X (c..d))
        /\ Cardinality((a..b) \X (c..d)) = Cardinality(a..b) * Cardinality(c..d)
    BY <2>2, <2>3, FS_Product
  <2>5. AtMost((a..b) \X (c..d), 480)
    BY <2>2, <2>3, <2>4 DEF AtMost
  <2>. QED  BY <2>5 DEF a, b, c, d
<1>2. AtMost(SharedCodes, 15)
  <2>1. AtMost({0, 1, 24}, 3)
    BY AtMostThree
  <2>2. AtMost({28, Memory!SLOT, 325}, 3)
    BY AtMostThree
  <2>3. AtMost({272, 273, 274}, 3)
    BY AtMostThree
  <2>4. AtMost({328, Memory!TOUCH, 330}, 3)
    BY AtMostThree
  <2>5. AtMost({333, 334, 335}, 3)
    BY AtMostThree
  <2>. QED  BY <2>1, <2>2, <2>3, <2>4, <2>5, AtMostFifteen DEF SharedCodes
<1>3. AtMost({-1} \X SharedCodes, 15)
  <2>1. IsFiniteSet({-1}) /\ Cardinality({-1}) = 1
    BY FS_Singleton
  <2>2. /\ IsFiniteSet({-1} \X SharedCodes)
        /\ Cardinality({-1} \X SharedCodes) = Cardinality({-1}) * Cardinality(SharedCodes)
    BY <1>2, <2>1, FS_Product DEF AtMost
  <2>. QED  BY <1>2, <2>1, <2>2 DEF AtMost
<1>4. AtMost(Room, 495)
  BY <1>1, <1>3, AtMostUnion DEF Room
<1>. QED  BY <1>4 DEF AtMost, Memory!FrameMax

\* A frame whose places are in Room, with at least one, has an accepted size.
LEMMA FrameSize ==
  ASSUME NEW P \in SUBSET Room, NEW p \in P
  PROVE  IsFiniteSet(P) /\ Cardinality(P) \in 1..Memory!FrameMax
<1>1. IsFiniteSet(P) /\ Cardinality(P) <= Cardinality(Room)
  BY RoomSize, FS_Subset DEF AtMost
<1>2. Cardinality(P) \in Nat
  BY <1>1, FS_CardinalityType
<1>3. Cardinality(P) # 0
  BY <1>1, FS_EmptySet
<1>. QED  BY <1>1, <1>2, <1>3, RoomSize DEF AtMost, Memory!FrameMax

\* The sets of an instance of TouchState are finite, and counted, as here.
LEMMA SameCount ==
  ASSUME NEW S
  PROVE  /\ Memory!IsFiniteSet(S) <=> IsFiniteSet(S)
         /\ Memory!Cardinality(S) = Cardinality(S)
<1>1. Memory!IsFiniteSet(S) <=> IsFiniteSet(S)
  BY DEF Memory!IsFiniteSet, IsFiniteSet
<1>2. Memory!Cardinality(S) = Cardinality(S)
  BY DEF Memory!Cardinality, Cardinality
<1>. QED  BY <1>1, <1>2

\* The snapshot of a memory within its description is accepted, but for what the
\* kernel reported.
LEMMA SnapshotAccepted ==
  ASSUME NEW d, NEW s, NEW r, Memory!WithinOf(d, s, r)
  PROVE  /\ Memory!Sized(Memory!Snapshot(s))
         /\ \A p \in DOMAIN Memory!Snapshot(s) :
               Memory!Fits(d, Memory!Snapshot(s)[p]) \/ p \in r
<1>1. /\ Memory!Valid(d) /\ DOMAIN s.axes = Memory!PlainAxes(d)
      /\ DOMAIN s.contacts = Memory!SlotsOf(d)
      /\ s.keys \subseteq d.keys /\ s.slot \in Memory!SlotsOf(d)
  BY DEF Memory!WithinOf
<1>2. ASSUME NEW p \in Memory!SnapshotPlaces(s)
      PROVE  p \in Room /\ (Memory!Fits(d, Memory!Snapshot(s)[p]) \/ p \in r)
  <2>1. CASE p \in {-1} \X ({Memory!TOUCH, Memory!SLOT} \cup DOMAIN s.axes \cup s.keys)
    <3>1. PICK c \in {Memory!TOUCH, Memory!SLOT} \cup Memory!PlainAxes(d) \cup s.keys :
                 p = <<-1, c>>
      BY <2>1, <1>1
    <3>2. c \in SharedCodes
      BY <1>1, ValidAxes DEF SharedCodes, Memory!Valid, Memory!TouchKeys, Memory!TOUCH, Memory!SLOT
    <3>3. p \in Room
      BY <3>1, <3>2 DEF Room
    <3>4. Memory!Snapshot(s)[p] = Memory!SharedEvent(s, c)
      BY <3>1 DEF Memory!Snapshot
    <3>5. ASSUME c = Memory!SLOT PROVE Memory!Fits(d, Memory!SharedEvent(s, c))
      BY <3>5, <1>1, ValidAxes DEF Memory!SharedEvent, Memory!Fits, Memory!Abs
    <3>6. ASSUME c # Memory!SLOT, c \in s.keys PROVE Memory!Fits(d, Memory!SharedEvent(s, c))
      BY <3>6, <1>1 DEF Memory!SharedEvent, Memory!Fits, Memory!Key
    <3>7. ASSUME c # Memory!SLOT, c \notin s.keys, c = Memory!TOUCH
          PROVE  Memory!Fits(d, Memory!SharedEvent(s, c))
      BY <3>7, <1>1 DEF Memory!SharedEvent, Memory!Fits, Memory!Key, Memory!Valid
    <3>8. ASSUME c # Memory!SLOT, c \notin s.keys, c # Memory!TOUCH
          PROVE  Memory!Fits(d, Memory!SharedEvent(s, c)) \/ p \in r
      <4>1. (Memory!InRange(d, c, s.axes[c]) \/ p \in r) /\ c \in d.axes
        BY <3>1, <3>8 DEF Memory!WithinOf, Memory!PlainAxes
      <4>. QED  BY <3>8, <4>1 DEF Memory!SharedEvent, Memory!Fits, Memory!Abs
    <3>. QED  BY <3>3, <3>4, <3>5, <3>6, <3>7, <3>8
  <2>2. CASE p \notin {-1} \X ({Memory!TOUCH, Memory!SLOT} \cup DOMAIN s.axes \cup s.keys)
    <3>1. PICK i \in Memory!Touching(s) : p \in {i} \X ({Memory!SLOT} \cup s.contacts[i].present)
      BY <2>2 DEF Memory!SnapshotPlaces
    <3>2. PICK c \in {Memory!SLOT} \cup s.contacts[i].present : p = <<i, c>>
      BY <3>1
    <3>3. i \in Memory!SlotsOf(d) /\ i \in 0..31
      BY <1>1, ValidAxes DEF Memory!Touching
    <3>4. s.contacts[i].present \subseteq Memory!ContactAxes(d)
      BY <3>3 DEF Memory!WithinOf, Memory!Contacts
    <3>5. c \in 47..61
      BY <1>1, <3>4, ValidAxes DEF Memory!SLOT
    <3>6. p \in Room
      BY <3>2, <3>3, <3>5 DEF Room
    <3>7. Memory!Snapshot(s)[p] = Memory!ContactEvent(s, i, c)
      BY <3>2, <3>3 DEF Memory!Snapshot
    <3>8. ASSUME c = Memory!SLOT PROVE Memory!Fits(d, Memory!ContactEvent(s, i, c))
      BY <3>3, <3>8, <1>1, ValidAxes DEF Memory!ContactEvent, Memory!Fits, Memory!Abs
    <3>9. ASSUME c # Memory!SLOT
          PROVE  Memory!Fits(d, Memory!ContactEvent(s, i, c)) \/ p \in r
      <4>1. c \in s.contacts[i].present /\ c \in d.axes
        BY <3>2, <3>4, <3>9 DEF Memory!ContactAxes
      <4>2. Memory!InRange(d, c, s.contacts[i].value[c]) \/ p \in r
        BY <3>2, <3>3, <4>1 DEF Memory!WithinOf
      <4>. QED  BY <3>9, <4>1, <4>2 DEF Memory!ContactEvent, Memory!Fits, Memory!Abs
    <3>. QED  BY <3>6, <3>7, <3>8, <3>9
  <2>. QED  BY <2>1, <2>2
<1>3. <<-1, Memory!SLOT>> \in Memory!SnapshotPlaces(s)
  BY DEF Memory!SnapshotPlaces
<1>4. DOMAIN Memory!Snapshot(s) = Memory!SnapshotPlaces(s)
  BY DEF Memory!Snapshot
<1>. QED  BY <1>2, <1>3, <1>4, FrameSize, SameCount DEF Memory!Sized

\* So are its releases, always.
LEMMA ReleasesAccepted ==
  ASSUME NEW d, NEW s, NEW r, Memory!WithinOf(d, s, r)
  PROVE  Memory!Emittable(d, Memory!Releases(s))
<1>1. /\ Memory!Valid(d) /\ DOMAIN s.contacts = Memory!SlotsOf(d) /\ s.keys \subseteq d.keys
      /\ Memory!TOUCH \in d.keys
  BY DEF Memory!WithinOf, Memory!Valid
<1>2. ASSUME NEW p \in Memory!ReleasePlaces(s)
      PROVE  p \in Room /\ Memory!Fits(d, Memory!Releases(s)[p])
  <2>1. CASE p \in {-1} \X ({Memory!TOUCH} \cup s.keys)
    <3>1. PICK c \in {Memory!TOUCH} \cup s.keys : p = <<-1, c>>
      BY <2>1
    <3>2. c \in d.keys /\ c \in SharedCodes
      BY <1>1 DEF Memory!Valid, Memory!TouchKeys, SharedCodes, Memory!TOUCH
    <3>3. p \in Room
      BY <3>1, <3>2 DEF Room
    <3>4. Memory!Releases(s)[p] = Memory!Key(c, 0)
      BY <3>1 DEF Memory!Releases
    <3>. QED  BY <3>2, <3>3, <3>4 DEF Memory!Fits, Memory!Key
  <2>2. CASE p \in Memory!SlotsOf(d) \X {Memory!SLOT, Memory!TRACKING}
    <3>1. PICK i \in Memory!SlotsOf(d), c \in {Memory!SLOT, Memory!TRACKING} : p = <<i, c>>
      BY <2>2
    <3>2. i \in 0..31
      BY <1>1, ValidAxes
    <3>3. p \in Room
      BY <3>1, <3>2 DEF Room, Memory!SLOT, Memory!TRACKING
    <3>4. Memory!SLOT \in d.axes /\ Memory!TRACKING \in d.axes
      BY <1>1 DEF Memory!Valid
    <3>5. Memory!Releases(s)[p] = IF c = Memory!SLOT THEN Memory!Abs(Memory!SLOT, i)
                                  ELSE Memory!Abs(Memory!TRACKING, -1)
      BY <3>1, <3>2 DEF Memory!Releases
    <3>6. Memory!InRange(d, Memory!SLOT, i) /\ Memory!InRange(d, Memory!TRACKING, -1)
      BY <1>1, ValidAxes DEF Memory!InRange
    <3>. QED  BY <3>3, <3>4, <3>5, <3>6 DEF Memory!Fits, Memory!Abs
  <2>. QED  BY <2>1, <2>2, <1>1 DEF Memory!ReleasePlaces
<1>3. <<-1, Memory!TOUCH>> \in Memory!ReleasePlaces(s)
  BY DEF Memory!ReleasePlaces
<1>4. DOMAIN Memory!Releases(s) = Memory!ReleasePlaces(s)
  BY DEF Memory!Releases
<1>. QED  BY <1>2, <1>3, <1>4, FrameSize, SameCount DEF Memory!Emittable, Memory!Sized

\* Whatever was touched, the releases that end a stroke pass the checks of emit,
\* the snapshot that hands it over stays below its limit of 512 events, and the
\* snapshot is refused only for a value that the kernel reported when the pad was
\* taken and no frame has replaced.
THEOREM HandoversAccepted == Memory!Spec => []Memory!HandoverAccepted
<1>1. Memory!Within => Memory!HandoverAccepted
  BY SnapshotAccepted, ReleasesAccepted DEF Memory!Within, Memory!HandoverAccepted
<1>. QED  BY <1>1, StaysWithin, PTL

-----------------------------------------------------------------------------
(* The times of frames *)

VARIABLES clock, side, phase, offset, last, lastTime, source

Clock == INSTANCE TouchpadClock WITH now <- clock, role <- side

\* What a frame of the peer is mapped to.
LEMMA MappedTime ==
  ASSUME Clock!Inv, NEW s \in Nat
  PROVE  /\ Clock!OffsetFor(s) \in Int /\ s + Clock!OffsetFor(s) <= clock
         /\ Clock!Mapped(s) \in 1..clock /\ Clock!Mapped(s) >= last
         /\ s + Clock!OffsetFor(s) <= Clock!Mapped(s)
         /\ phase = "mapping" => Clock!OffsetFor(s) <= offset
<1>1. Clock!OffsetFor(s) \in Int /\ Clock!OffsetFor(s) <= clock - s
  BY DEF Clock!OffsetFor, Clock!Least, Clock!Inv
<1>2. phase = "mapping" => Clock!OffsetFor(s) <= offset
  BY DEF Clock!OffsetFor, Clock!Least, Clock!Inv
<1>. QED  BY <1>1, <1>2
             DEF Clock!Mapped, Clock!Least, Clock!Greatest,
                 Clock!Inv, Clock!Sound

\* Inv is inductive.
LEMMA StepKeepsInv == Clock!Inv /\ [Clock!Next]_Clock!vars => Clock!Inv'
<1>. SUFFICES ASSUME Clock!Inv, [Clock!Next]_Clock!vars PROVE Clock!Inv'
  OBVIOUS
<1>1. CASE Clock!Tick
  BY <1>1 DEF Clock!Tick, Clock!Inv, Clock!Sound
<1>2. ASSUME NEW s \in Nat, NEW later \in Nat, Clock!Remote(s, later) PROVE Clock!Inv'
  <2>1. /\ Clock!Mapped(s) \in 1..clock /\ Clock!Mapped(s) >= last
        /\ s + Clock!OffsetFor(s) <= Clock!Mapped(s)
        /\ Clock!OffsetFor(s) \in Int
    BY MappedTime
  <2>2. phase = "unset" => Clock!Mapped(s) = clock
    BY DEF Clock!Mapped, Clock!OffsetFor, Clock!Least, Clock!Greatest, Clock!Inv,
           Clock!Sound
  <2>3. phase' = "mapping" => lastTime' = Clock!Mapped(s)
    <3>1. Clock!Mapped(s) >= lastTime
      BY <1>2, <2>1, <2>2 DEF Clock!Remote, Clock!Inv, Clock!Sound
    <3>. QED  BY <1>2, <2>1, <3>1
                 DEF Clock!Remote, Clock!InTime, Clock!Written, Clock!Least, Clock!Greatest,
                     Clock!Inv, Clock!Sound
  <2>4. lastTime' \in 0..clock'
    BY <1>2, <2>1, <2>3 DEF Clock!Remote, Clock!Inv, Clock!Sound
  <2>. QED  BY <1>2, <2>1, <2>3, <2>4 DEF Clock!Remote, Clock!Inv, Clock!Sound
<1>3. ASSUME NEW time \in Nat, NEW later \in Nat, Clock!Local(time, later) PROVE Clock!Inv'
  <2>1. lastTime' \in 0..later
    BY <1>3
       DEF Clock!Local, Clock!InTime, Clock!Written, Clock!Least, Clock!Greatest,
           Clock!Inv, Clock!Sound
  <2>. QED  BY <1>3, <2>1 DEF Clock!Local, Clock!Inv, Clock!Sound
<1>4. ASSUME NEW later \in Nat, Clock!Reset(later) PROVE Clock!Inv'
  BY <1>4
     DEF Clock!Reset, Clock!Written, Clock!Least, Clock!Greatest,
         Clock!Inv, Clock!Sound
<1>5. CASE UNCHANGED Clock!vars
  BY <1>5 DEF Clock!vars, Clock!Inv, Clock!Sound
<1>. QED  BY <1>1, <1>2, <1>3, <1>4, <1>5 DEF Clock!Next

LEMMA AlwaysInv == Clock!Spec => []Clock!Inv
<1>1. Clock!Init => Clock!Inv
  BY DEF Clock!Init, Clock!Inv, Clock!Sound
<1>. QED  BY <1>1, StepKeepsInv, PTL DEF Clock!Spec

\* No frame is ahead of the clock, no cast truncates and the offset is at most
\* every delay since the mapping began, at any clock values.
THEOREM ClockSound == Clock!Spec => []Clock!Sound /\ Clock!OffsetShrinks
<1>1. Clock!Inv => Clock!Sound
  BY DEF Clock!Inv
<1>2. Clock!Inv /\ [Clock!Next]_Clock!vars
        => [phase = "mapping" /\ phase' = "mapping" => offset' <= offset]_Clock!vars
  <2>. SUFFICES ASSUME Clock!Inv, Clock!Next, phase = "mapping", phase' = "mapping"
                PROVE  offset' <= offset
    OBVIOUS
  <2>1. offset \in Int
    BY DEF Clock!Inv
  <2>2. ASSUME NEW s \in Nat, NEW later \in Nat, Clock!Remote(s, later)
        PROVE  offset' <= offset
    BY <2>2, MappedTime DEF Clock!Remote
  <2>3. CASE Clock!Tick \/ \E time \in Nat, later \in Nat : Clock!Local(time, later)
    BY <2>1, <2>3 DEF Clock!Tick, Clock!Local
  <2>. QED  BY <2>2, <2>3 DEF Clock!Next, Clock!Reset
<1>. QED  BY <1>1, <1>2, AlwaysInv, PTL DEF Clock!Spec, Clock!OffsetShrinks

\* The compositor never sees the time of a touchpad go back.
THEOREM ClockNeverBack == Clock!Spec => Clock!NeverBack
<1>1. Clock!Inv /\ [Clock!Next]_Clock!vars => [lastTime' >= lastTime]_Clock!vars
  <2>. SUFFICES ASSUME Clock!Inv, Clock!Next PROVE lastTime' >= lastTime
    OBVIOUS
  <2>1. CASE Clock!Tick
    BY <2>1 DEF Clock!Tick, Clock!Inv, Clock!Sound
  <2>2. ASSUME NEW s \in Nat, NEW later \in Nat, Clock!Remote(s, later)
        PROVE  lastTime' >= lastTime
    BY <2>2, MappedTime
       DEF Clock!Remote, Clock!InTime, Clock!Written, Clock!Least, Clock!Greatest,
           Clock!Inv, Clock!Sound
  <2>3. ASSUME NEW time \in Nat, NEW later \in Nat, Clock!Local(time, later)
        PROVE  lastTime' >= lastTime
    BY <2>3
       DEF Clock!Local, Clock!Written, Clock!Least, Clock!Greatest,
           Clock!Inv, Clock!Sound
  <2>4. ASSUME NEW later \in Nat, Clock!Reset(later) PROVE lastTime' >= lastTime
    BY <2>4
       DEF Clock!Reset, Clock!Written, Clock!Least, Clock!Greatest,
           Clock!Inv, Clock!Sound
  <2>. QED  BY <2>1, <2>2, <2>3, <2>4 DEF Clock!Next
<1>. QED  BY <1>1, AlwaysInv, PTL DEF Clock!Spec, Clock!NeverBack

\* Intervals between frames survive the mapping of the clocks, however the
\* frames were batched on the way.
THEOREM ClockIntervals == Clock!Spec => Clock!Intervals
<1>1. Clock!Inv /\ [Clock!Next]_Clock!vars =>
        [\A s, later \in Nat :
            Clock!Remote(s, later) /\ phase = "mapping" /\ phase' = "mapping"
              => Clock!Keeps(s)]_Clock!vars
  <2>. SUFFICES ASSUME Clock!Inv, NEW s \in Nat, NEW later \in Nat,
                       Clock!Remote(s, later), phase = "mapping", phase' = "mapping"
                PROVE  Clock!Keeps(s)
    OBVIOUS
  <2>1. lastTime = last /\ last \in 1..clock /\ source + offset <= last
        /\ offset \in Int /\ source \in Nat /\ clock \in Nat
    BY DEF Clock!Remote, Clock!Inv, Clock!Sound
  <2>2. /\ Clock!OffsetFor(s) \in Int /\ s + Clock!OffsetFor(s) <= clock
        /\ Clock!Mapped(s) \in 1..clock /\ Clock!Mapped(s) >= last
        /\ Clock!OffsetFor(s) <= offset
    BY MappedTime
  <2>3. lastTime' = Clock!Mapped(s)
    BY <2>1, <2>2
       DEF Clock!Remote, Clock!InTime, Clock!Written, Clock!Least, Clock!Greatest
  <2>4. Clock!Mapped(s) = Clock!Greatest(s + Clock!OffsetFor(s), last)
    BY <2>1, <2>2 DEF Clock!Mapped, Clock!Least, Clock!Greatest
  <2>5. Clock!Mapped(s) - last <= Clock!Greatest(s - source, 0)
    BY <2>1, <2>2, <2>4 DEF Clock!Greatest
  <2>6. ASSUME last = source + offset, Clock!OffsetFor(s) = offset, s >= source
        PROVE  Clock!Mapped(s) = s + offset
    BY <2>1, <2>4, <2>6 DEF Clock!Greatest
  <2>7. offset' = Clock!OffsetFor(s) /\ source' = s
    BY DEF Clock!Remote
  <2>8. ASSUME lastTime = source + offset, offset' = offset, s >= source
        PROVE  lastTime' - lastTime = s - source /\ lastTime' = source' + offset'
    BY <2>1, <2>2, <2>3, <2>6, <2>7, <2>8
  <2>. QED  BY <2>1, <2>3, <2>5, <2>8 DEF Clock!Keeps
<1>. QED  BY <1>1, AlwaysInv, PTL DEF Clock!Spec, Clock!Intervals

=============================================================================
