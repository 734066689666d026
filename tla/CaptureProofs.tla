----------------------------- MODULE CaptureProofs -----------------------------
(***************************************************************************)
(* What holds of Capture for any codes and bounds, whatever the compositor *)
(* grants and takes away and whenever the coordinator stops.               *)
(*                                                                         *)
(* The inductive invariant IInv has a part about the worker (Owned), one   *)
(* about the coordinator and its worker (Situation), and one about what is *)
(* queued between them (Follows).  The last rests on what a sequence of    *)
(* inputs amounts to, Replay: it is composed of the parts of the sequence, *)
(* so an input may be appended at the one end and taken at the other, and  *)
(* an event of another kind may be anywhere.                               *)
(***************************************************************************)
EXTENDS Capture, FiniteSetTheorems, SequenceTheorems, TLAPS

Records ==
  [ gen : Nat, phase : {"binding", "watching", "reporting", "done"},
    failed : BOOLEAN, cancel : BOOLEAN, inside : BOOLEAN, armed : BOOLEAN,
    requested : BOOLEAN, observed : SUBSET Grants, granted : SUBSET Grants,
    ready : BOOLEAN, finished : BOOLEAN, pending : Seq(Inputs),
    pressed : SUBSET Codes ]

Events == [gen : Nat, type : {"Armed", "Started", "Ready", "Finished"}]
            \cup [gen : Nat, type : {"Input"}, input : Inputs]

-----------------------------------------------------------------------------
(* What a sequence of inputs amounts to *)

\* Inputs in two parts.
LEMMA ReplayParts ==
  ASSUME NEW q \in Seq(Events), NEW r \in Seq(Events), NEW g, NEW h
  PROVE  Replay(h, q \o r, g) = Replay(Replay(h, q, g), r, g)
<1> DEFINE m == Len(q)
           n == Len(r)
           t == q \o r
<1>1. /\ m \in Nat /\ n \in Nat /\ DOMAIN q = 1..m /\ DOMAIN r = 1..n
      /\ DOMAIN t = 1..(m + n)
      /\ \A i \in 1..m : t[i] = q[i]
      /\ \A i \in 1..n : m + i \in 1..(m + n) /\ t[m + i] = r[i]
      /\ \A i \in 1..(m + n) : i \in 1..m \/ (i - m \in 1..n /\ t[i] = r[i - m])
  OBVIOUS
<1> HIDE DEF m, n, t
<1>2. SUFFICES ASSUME NEW c \in Codes
               PROVE  c \in Replay(h, t, g) <=> c \in Replay(Replay(h, q, g), r, g)
  BY DEF Replay, t
<1>3. CASE \E j \in 1..n : About(r[j], g, c)
  <2>1. PICK j \in 1..n : About(r[j], g, c)
    BY <1>3
  <2>2. c \in Replay(Replay(h, q, g), r, g)
          <=> \E i \in 1..n : About(r[i], g, c) /\ r[i].input.pressed
                              /\ \A k \in 1..n : About(r[k], g, c) => k <= i
    BY <1>1, <2>1 DEF Replay
  <2>3. c \in Replay(h, t, g)
          <=> \E i \in 1..(m + n) : About(t[i], g, c) /\ t[i].input.pressed
                              /\ \A k \in 1..(m + n) : About(t[k], g, c) => k <= i
    BY <1>1, <2>1 DEF Replay
  <2>4. ASSUME NEW i \in 1..n, About(r[i], g, c), r[i].input.pressed,
               \A k \in 1..n : About(r[k], g, c) => k <= i
        PROVE  /\ m + i \in 1..(m + n) /\ About(t[m + i], g, c) /\ t[m + i].input.pressed
               /\ \A k \in 1..(m + n) : About(t[k], g, c) => k <= m + i
    BY <1>1, <2>4
  <2>5. ASSUME NEW i \in 1..(m + n), About(t[i], g, c), t[i].input.pressed,
               \A k \in 1..(m + n) : About(t[k], g, c) => k <= i
        PROVE  /\ i - m \in 1..n /\ About(r[i - m], g, c) /\ r[i - m].input.pressed
               /\ \A k \in 1..n : About(r[k], g, c) => k <= i - m
    <3>1. m + j <= i
      BY <1>1, <2>1, <2>5
    <3>2. i - m \in 1..n /\ t[i] = r[i - m]
      BY <1>1, <3>1
    <3>3. ASSUME NEW k \in 1..n, About(r[k], g, c) PROVE k <= i - m
      BY <1>1, <2>5, <3>3
    <3> QED
      BY <2>5, <3>2, <3>3
  <2> QED
    BY <2>2, <2>3, <2>4, <2>5
<1>4. CASE \A j \in 1..n : ~About(r[j], g, c)
  <2>1. c \in Replay(Replay(h, q, g), r, g) <=> c \in Replay(h, q, g)
    BY <1>1, <1>4 DEF Replay
  <2>2. \A i \in 1..(m + n) : About(t[i], g, c) <=> i \in 1..m /\ About(q[i], g, c)
    BY <1>1, <1>4
  <2>3. \A i \in 1..m : i \in 1..(m + n) /\ t[i] = q[i]
    BY <1>1
  <2>4. c \in Replay(h, t, g) <=> c \in Replay(h, q, g)
    BY <1>1, <2>2, <2>3 DEF Replay
  <2> QED
    BY <2>1, <2>4
<1> QED
  BY <1>3, <1>4

\* Events that are no inputs of the capture change nothing.
LEMMA ReplayOther ==
  ASSUME NEW q \in Seq(Events), NEW g, NEW h \in SUBSET Codes,
         \A i \in DOMAIN q : q[i].type = "Input" => q[i].gen # g
  PROVE  Replay(h, q, g) = h
BY DEF Replay, About

\* Codes of which it is not known whether they are held stay apart.
LEMMA ReplayWithin ==
  ASSUME NEW q, NEW g, NEW h, NEW k, NEW F, h \cap F = k \cap F
  PROVE  Replay(h, q, g) \cap F = Replay(k, q, g) \cap F
<1>1. \A c \in F : c \in h <=> c \in k
  OBVIOUS
<1> QED
  BY <1>1 DEF Replay

\* A single input.
LEMMA ReplayOne ==
  ASSUME NEW e \in Events, e.type = "Input", NEW h \in SUBSET Codes
  PROVE  Replay(h, <<e>>, e.gen)
           = IF e.input.pressed THEN h \cup {e.input.code} ELSE h \ {e.input.code}
<1>1. e.input.code \in Codes /\ e.input.pressed \in BOOLEAN
  BY DEF Events, Inputs
<1> DEFINE q == <<e>>
<1>2. DOMAIN q = {1} /\ q[1] = e
  OBVIOUS
<1> HIDE DEF q
<1>3. \A c : c \in Replay(h, q, e.gen)
               <=> c \in Codes /\ \/ c = e.input.code /\ e.input.pressed
                                  \/ c \in h /\ c # e.input.code
  BY <1>2 DEF Replay, About
<1> QED
  BY <1>1, <1>3 DEF q

LEMMA ReplayEmpty ==
  ASSUME NEW g, NEW h \in SUBSET Codes
  PROVE  Replay(h, <<>>, g) = h
<1>1. <<>> \in Seq(Events) /\ DOMAIN <<>> = {}
  OBVIOUS
<1> QED
  BY <1>1, ReplayOther

\* Presses of different codes.
LEMMA ReplayPresses ==
  ASSUME NEW q \in Seq(Events), NEW g, NEW h \in SUBSET Codes,
         \A i \in DOMAIN q : q[i].type = "Input" /\ q[i].gen = g /\ q[i].input.pressed,
         \A i, j \in DOMAIN q : q[i].input.code = q[j].input.code => i = j,
         NEW news \in SUBSET Codes, \A c \in news : \E i \in DOMAIN q : q[i].input.code = c,
         \A i \in DOMAIN q : q[i].input.code \in news
  PROVE  Replay(h, q, g) = h \cup news
<1>1. ASSUME NEW c \in Codes, c \notin news
      PROVE  c \in Replay(h, q, g) <=> c \in h
  BY <1>1 DEF Replay, About
<1>2. ASSUME NEW c \in Codes, c \in news
      PROVE  c \in Replay(h, q, g)
  <2>1. PICK i \in DOMAIN q : q[i].input.code = c
    BY <1>2
  <2>2. i \in Nat
    OBVIOUS
  <2>3. \A j \in DOMAIN q : About(q[j], g, c) => j <= i
    BY <2>1, <2>2 DEF About
  <2> QED
    BY <2>1, <2>3 DEF Replay, About
<1>3. Replay(h, q, g) \subseteq Codes
  BY DEF Replay
<1> QED
  BY <1>1, <1>2, <1>3

-----------------------------------------------------------------------------
(* The inductive invariant *)

IsStarted(e, g) == e.type = "Started" /\ e.gen = g

\* The worker by itself.  It knows what it has lost, and what it reported ready
\* it had.
Owned(w) ==
  /\ w.phase = "reporting" => w.finished
  /\ w.phase = "done" => w.granted = {}
  /\ w.phase \in {"binding", "watching"} /\ ~w.finished => w.granted = w.observed
  /\ w.ready => w.observed = Grants /\ w.pending = <<>>

\* The worker w and the queue q of the coordinator, which is sending or not and
\* has sent s.  Started tells that the worker is ready ...
Announced(w, q) == \A i \in DOMAIN q : IsStarted(q[i], w.gen) => w.ready

\* ... is there once, until it is taken, and comes before every input.
Once(w, q, sending) == \A i, j \in DOMAIN q :
  IsStarted(q[i], w.gen) /\ IsStarted(q[j], w.gen) => i = j /\ ~sending

First(w, q) ==
  /\ \A i \in DOMAIN q : q[i].type = "Input" /\ q[i].gen = w.gen =>
       \E j \in DOMAIN q : j < i /\ IsStarted(q[j], w.gen)
  /\ w.ready /\ ~w.finished => \E j \in DOMAIN q : IsStarted(q[j], w.gen)

Ordered(w, q, sending) == /\ Once(w, q, sending)
                          /\ ~sending => First(w, q)
                          /\ sending => w.ready

Mirrored(w, q, s) == ~w.finished =>
  Replay(s, Coming(w, q), w.gen) \cap Forwarded = w.pressed \cap Forwarded

Follows(w, q, sending, s) ==
  Announced(w, q) /\ Ordered(w, q, sending) /\ Mirrored(w, q, s)

Typed ==
  /\ worker \in Records /\ Len(worker.pending) <= PendingLimit
  /\ queue \in Seq(Events) /\ Len(queue) <= QueueLimit
  /\ generation \in Nat /\ generation <= MaxGeneration /\ worker.gen <= generation
  /\ capture \in BOOLEAN /\ stopping \in BOOLEAN /\ ending \in BOOLEAN
  /\ role \in {"Local", "Sending"} /\ sent \in SUBSET Codes

\* Of the captures of a connection the running one has the last generation, and
\* no worker is left when none runs and none is waited for.
Situation ==
  /\ capture => ~stopping /\ ~ending
  /\ capture \/ stopping => worker.gen = generation
  /\ ~capture /\ ~stopping => worker = Gone({})
  /\ role = "Sending" => capture /\ worker.ready
  /\ role = "Local" => sent = {}
  /\ \A i \in DOMAIN queue : queue[i].gen <= generation

IInv ==
  /\ Typed /\ Owned(worker) /\ Situation
  /\ capture => Follows(worker, queue, role = "Sending", sent)

-----------------------------------------------------------------------------
(* What the worker publishes *)

\* The worker w with the queue q becomes v with r by publishing es, or as much
\* of it as there is room for.
Publishes(w, q, es, v, r) ==
  /\ v \in {w, Finish(w)} /\ r \in Seq(Events) /\ Len(r) <= QueueLimit
  /\ \E z \in Seq(Events) : /\ r = q \o z /\ Len(z) <= Len(es)
                            /\ \A i \in 1..Len(z) : z[i] = es[i]
  /\ ~v.finished => v = w /\ r = q \o es
  /\ w.finished => v = w /\ r = q

LEMMA PublishIs ==
  ASSUME NEW w \in Records, NEW q \in Seq(Events), Len(q) <= QueueLimit,
         NEW es \in Seq(Events)
  PROVE  LET at == Publish([w |-> w, q |-> q], es) IN
         Publishes(w, q, es, at.w, at.q)
<1> DEFINE at == Publish([w |-> w, q |-> q], es)
           room == QueueLimit - Len(q)
<1> HIDE DEF at
<1> SUFFICES Publishes(w, q, es, at.w, at.q)
  BY DEF at
<1>1. room \in Nat /\ Room([w |-> w, q |-> q]) = room /\ QueueLimit \in Nat
  BY BoundsAssumption DEF BoundsAssumption, Room
<1>2. Finish(w) \in Records /\ Finish(w).finished
  BY DEF Finish, Records
<1>3. q = q \o <<>> /\ <<>> \in Seq(Events) /\ Len(<<>>) = 0
  OBVIOUS
<1>4. CASE w.finished
  <2>1. at.w = w /\ at.q = q
    BY <1>4 DEF Publish, at
  <2>2. Len(<<>>) <= Len(es) /\ \A i \in 1..Len(<<>>) : <<>>[i] = es[i]
    BY <1>3
  <2> QED
    BY <1>3, <1>4, <2>1, <2>2 DEF Publishes
<1>5. CASE ~w.finished /\ Len(es) <= room
  <2>1. at.w = w /\ at.q = q \o es
    BY <1>1, <1>5 DEF Publish, at
  <2>2. q \o es \in Seq(Events) /\ Len(q \o es) <= QueueLimit
    BY <1>1, <1>5
  <2>3. \A i \in 1..Len(es) : es[i] = es[i]
    OBVIOUS
  <2> QED
    BY <1>5, <2>1, <2>2, <2>3 DEF Publishes
<1>6. CASE ~w.finished /\ ~(Len(es) <= room)
  <2> DEFINE z == SubSeq(es, 1, room)
  <2>1. at.w = Finish(w) /\ at.q = q \o z
    BY <1>1, <1>6 DEF Publish, at
  <2>2. z \in Seq(Events) /\ Len(z) = room /\ \A i \in 1..Len(z) : z[i] = es[i]
    BY <1>1, <1>6
  <2>3. q \o z \in Seq(Events) /\ Len(q \o z) <= QueueLimit
    BY <1>1, <2>2
  <2>4. Len(z) <= Len(es)
    BY <1>1, <1>6, <2>2
  <2> HIDE DEF z
  <2> QED
    BY <1>1, <1>2, <1>6, <2>1, <2>2, <2>3, <2>4 DEF Publishes
<1> QED
  BY <1>4, <1>5, <1>6

\* All that is new in r is of the capture g.
Added(q, r, g) ==
  \A i \in DOMAIN r : r[i].gen = g \/ \E j \in DOMAIN q : r[i] = q[j]

LEMMA PublishAdded ==
  ASSUME NEW w, NEW q \in Seq(Events), NEW es \in Seq(Events), NEW v, NEW r, NEW g,
         Publishes(w, q, es, v, r), \A i \in 1..Len(es) : es[i].gen = g
  PROVE  Added(q, r, g)
<1>1. PICK z \in Seq(Events) : /\ r = q \o z /\ Len(z) <= Len(es)
                               /\ \A i \in 1..Len(z) : z[i] = es[i]
  BY DEF Publishes
<1>2. ASSUME NEW i \in DOMAIN (q \o z)
      PROVE  \/ i \in DOMAIN q /\ (q \o z)[i] = q[i]
             \/ i - Len(q) \in 1..Len(z) /\ (q \o z)[i] = z[i - Len(q)]
  BY ConcatProperties
<1>3. \A i \in 1..Len(z) : i \in 1..Len(es)
  BY <1>1
<1> QED
  BY <1>1, <1>2, <1>3 DEF Added

LEMMA AddedTwice ==
  ASSUME NEW q, NEW r, NEW t, NEW g, Added(q, r, g), Added(r, t, g)
  PROVE  Added(q, t, g)
BY DEF Added

\* Neither Started nor, before the worker is ready, inputs: the order stays.
LEMMA PublishOrdered ==
  ASSUME NEW w \in Records, NEW q \in Seq(Events), NEW es \in Seq(Events),
         NEW v, NEW r, Publishes(w, q, es, v, r), NEW sending \in BOOLEAN,
         Announced(w, q), Ordered(w, q, sending),
         \A i \in 1..Len(es) : /\ es[i].type # "Started"
                               /\ es[i].type = "Input" => w.ready
  PROVE  Announced(v, r) /\ Ordered(v, r, sending)
<1>1. PICK z \in Seq(Events) : /\ r = q \o z /\ Len(z) <= Len(es)
                               /\ \A i \in 1..Len(z) : z[i] = es[i]
  BY DEF Publishes
<1>2. v.gen = w.gen /\ v.ready = w.ready /\ (w.finished => v.finished)
  BY DEF Publishes, Finish, Records
<1>3. \A i \in DOMAIN r : \/ i \in DOMAIN q /\ r[i] = q[i]
                          \/ /\ i > Len(q) /\ i \in Nat /\ r[i].type # "Started" /\ ~w.finished
                             /\ r[i].type = "Input" => w.ready
  <2> SUFFICES ASSUME NEW i \in DOMAIN r, i \notin DOMAIN q
               PROVE  /\ i > Len(q) /\ i \in Nat /\ r[i].type # "Started" /\ ~w.finished
                      /\ r[i].type = "Input" => w.ready
    BY <1>1
  <2>1. i \in Nat /\ i > Len(q) /\ i - Len(q) \in 1..Len(z) /\ r[i] = z[i - Len(q)]
    BY <1>1
  <2>2. z[i - Len(q)] = es[i - Len(q)] /\ i - Len(q) \in 1..Len(es)
    BY <1>1, <2>1
  <2>3. ~w.finished
    BY DEF Publishes
  <2> QED
    BY <2>1, <2>2, <2>3
<1>4. \A i \in DOMAIN q : i \in DOMAIN r /\ r[i] = q[i] /\ i \in Nat /\ i <= Len(q)
  BY <1>1
<1>5. Announced(v, r)
  BY <1>2, <1>3 DEF Announced, IsStarted
<1>6. ASSUME ~sending
      PROVE  First(v, r)
  <2>1. v.ready /\ ~v.finished => \E j \in DOMAIN r : IsStarted(r[j], v.gen)
    BY <1>2, <1>4, <1>6 DEF Ordered, First
  <2>2. ASSUME NEW i \in DOMAIN r, r[i].type = "Input", r[i].gen = v.gen
        PROVE  \E j \in DOMAIN r : j < i /\ IsStarted(r[j], v.gen)
    <3>1. CASE i \in DOMAIN q /\ r[i] = q[i]
      BY <1>2, <1>4, <1>6, <2>2, <3>1 DEF Ordered, First
    <3>2. CASE i > Len(q) /\ i \in Nat /\ ~w.finished /\ w.ready
      <4>1. PICK j \in DOMAIN q : IsStarted(q[j], w.gen)
        BY <1>6, <3>2 DEF Ordered, First
      <4> QED
        BY <1>2, <1>4, <3>2, <4>1
    <3> QED
      BY <1>3, <2>2, <3>1, <3>2
  <2> QED
    BY <2>1, <2>2 DEF First
<1>7. Once(v, r, sending)
  BY <1>2, <1>3 DEF Ordered, Once, IsStarted
<1> QED
  BY <1>2, <1>5, <1>6, <1>7 DEF Ordered

LEMMA InputsOfIs ==
  ASSUME NEW w \in Records, NEW is \in Seq(Inputs)
  PROVE  /\ InputsOf(w, is) \in Seq(Events) /\ Len(InputsOf(w, is)) = Len(is)
         /\ \A i \in 1..Len(is) : InputsOf(w, is)[i] = InputOf(w, is[i])
         /\ \A i \in 1..Len(is) : /\ InputsOf(w, is)[i].type = "Input"
                                  /\ InputsOf(w, is)[i].gen = w.gen
<1>1. \A i \in Inputs : InputOf(w, i) \in Events
  BY DEF InputOf, Events, Records
<1>2. DOMAIN is = 1..Len(is) /\ \A i \in 1..Len(is) : is[i] \in Inputs
  OBVIOUS
<1>3. InputsOf(w, is) \in Seq(Events) /\ Len(InputsOf(w, is)) = Len(is)
  <2>1. InputsOf(w, is) \in [1..Len(is) -> Events]
    BY <1>1, <1>2 DEF InputsOf
  <2> QED
    BY <2>1, LenProperties
<1> QED
  BY <1>2, <1>3 DEF InputsOf, InputOf

LEMMA InputsOfParts ==
  ASSUME NEW w \in Records, NEW is \in Seq(Inputs), NEW js \in Seq(Inputs)
  PROVE  InputsOf(w, is \o js) = InputsOf(w, is) \o InputsOf(w, js)
<1> DEFINE a == InputsOf(w, is \o js)
           b == InputsOf(w, is) \o InputsOf(w, js)
<1>1. /\ a \in Seq(Events) /\ Len(a) = Len(is) + Len(js)
      /\ \A i \in 1..Len(a) : a[i] = InputOf(w, (is \o js)[i])
  <2>1. is \o js \in Seq(Inputs) /\ Len(is \o js) = Len(is) + Len(js)
    OBVIOUS
  <2> QED
    BY <2>1, InputsOfIs
<1>2. /\ InputsOf(w, is) \in Seq(Events) /\ InputsOf(w, js) \in Seq(Events)
      /\ Len(InputsOf(w, is)) = Len(is) /\ Len(InputsOf(w, js)) = Len(js)
  BY InputsOfIs
<1>3. b \in Seq(Events) /\ Len(b) = Len(is) + Len(js)
  BY <1>2
<1>4. ASSUME NEW i \in 1..Len(a) PROVE b[i] = InputOf(w, (is \o js)[i])
  <2>1. CASE i <= Len(is)
    <3>1. i \in 1..Len(is) /\ b[i] = InputsOf(w, is)[i] /\ (is \o js)[i] = is[i]
      BY <1>1, <1>2, <2>1
    <3> QED
      BY <3>1, InputsOfIs
  <2>2. CASE i > Len(is)
    <3>1. /\ i - Len(is) \in 1..Len(js) /\ b[i] = InputsOf(w, js)[i - Len(is)]
          /\ (is \o js)[i] = js[i - Len(is)]
      BY <1>1, <1>2, <2>2
    <3> QED
      BY <3>1, InputsOfIs
  <2>3. i <= Len(is) \/ i > Len(is)
    BY <1>1
  <2> HIDE DEF a, b
  <2> QED
    BY <2>1, <2>2, <2>3
<1> QED
  BY <1>1, <1>3, <1>4, SeqEqual

\* The worker u (which has noted in pressed what the inputs are about) takes
\* inputs.
Same(u, v) ==
  /\ v.gen = u.gen /\ v.phase = u.phase /\ v.granted = u.granted
  /\ v.observed = u.observed /\ v.ready = u.ready /\ v.pressed = u.pressed
  /\ u.finished => v.finished

Worked(v, r) == /\ v \in Records /\ Len(v.pending) <= PendingLimit
                /\ r \in Seq(Events) /\ Len(r) <= QueueLimit

LEMMA TakeInputsKeeps ==
  ASSUME NEW u \in Records, NEW q, Worked(u, q), NEW is \in Seq(Inputs),
         NEW live \in BOOLEAN, NEW sending \in BOOLEAN, NEW s \in SUBSET Codes, Owned(u),
         live => /\ Announced(u, q) /\ Ordered(u, q, sending)
                 /\ ~u.finished =>
                      Replay(s, Coming(u, q) \o InputsOf(u, is), u.gen) \cap Forwarded
                        = u.pressed \cap Forwarded
  PROVE  LET at == TakeInputs([w |-> u, q |-> q], is) IN
         /\ Same(u, at.w) /\ Worked(at.w, at.q) /\ Owned(at.w) /\ Added(q, at.q, u.gen)
         /\ live => Follows(at.w, at.q, sending, s)
<1> DEFINE at == TakeInputs([w |-> u, q |-> q], is)
<1> HIDE DEF at
<1> SUFFICES /\ Same(u, at.w) /\ Worked(at.w, at.q) /\ Owned(at.w)
             /\ Added(q, at.q, u.gen)
             /\ live => Follows(at.w, at.q, sending, s)
  BY DEF at
<1>1. q \in Seq(Events) /\ Len(q) <= QueueLimit
  BY DEF Worked
<1>2. InputsOf(u, is) \in Seq(Events) /\ Len(InputsOf(u, is)) = Len(is)
  BY InputsOfIs
<1>3. CASE u.ready
  <2> DEFINE es == InputsOf(u, is)
  <2>1. at = Publish([w |-> u, q |-> q], es)
    BY <1>3 DEF TakeInputs, at
  <2>2. Publishes(u, q, es, at.w, at.q)
    BY <1>1, <1>2, <2>1, PublishIs
  <2>3. \A i \in 1..Len(es) : es[i].type # "Started"
    BY <1>2, InputsOfIs
  <2>4. ASSUME live PROVE Announced(at.w, at.q) /\ Ordered(at.w, at.q, sending)
    BY <1>1, <1>2, <1>3, <2>2, <2>3, <2>4, PublishOrdered
  <2>5. Same(u, at.w) /\ Worked(at.w, at.q) /\ Owned(at.w)
    BY <2>2 DEF Same, Worked, Owned, Publishes, Finish, Records
  <2>6. ASSUME ~at.w.finished
        PROVE  Coming(at.w, at.q) = Coming(u, q) \o es /\ at.w = u /\ ~u.finished
    <3>1. at.w = u /\ at.q = q \o es /\ u.pending = <<>>
      BY <1>3, <2>2, <2>6 DEF Publishes, Owned
    <3>2. InputsOf(u, u.pending) = <<>>
      BY <3>1 DEF InputsOf
    <3> QED
      BY <1>1, <1>2, <2>6, <3>1, <3>2 DEF Coming
  <2>7. ASSUME live PROVE Mirrored(at.w, at.q, s)
    BY <2>6, <2>7 DEF Mirrored
  <2>8. Added(q, at.q, u.gen)
    BY <1>1, <1>2, <2>2, PublishAdded, InputsOfIs
  <2> QED
    BY <2>4, <2>5, <2>7, <2>8 DEF Follows
<1>4. CASE ~u.ready
  <2> DEFINE p == u.pending
             room == PendingLimit - Len(p)
  <2>1. p \in Seq(Inputs) /\ Len(p) <= PendingLimit /\ room \in Nat /\ PendingLimit \in Nat
    BY BoundsAssumption DEF BoundsAssumption, Worked, Records
  <2>2. CASE Len(is) <= room
    <3>1. at.w = [u EXCEPT !.pending = @ \o is] /\ at.q = q
      BY <1>4, <2>2 DEF TakeInputs, at
    <3>2. p \o is \in Seq(Inputs) /\ Len(p \o is) <= PendingLimit
      BY <2>1, <2>2
    <3>3. /\ at.w \in Records /\ at.w.pending = p \o is
          /\ Same(u, at.w) /\ at.w.finished = u.finished /\ at.w.pressed = u.pressed
      BY <3>1, <3>2 DEF Records, Same
    <3>4. Worked(at.w, at.q) /\ Owned(at.w)
      BY <1>1, <1>4, <3>1, <3>2, <3>3 DEF Worked, Owned, Same
    <3>5. ASSUME live PROVE Announced(at.w, at.q) /\ Ordered(at.w, at.q, sending)
      BY <3>1, <3>3, <3>5 DEF Announced, Ordered, Once, First, Same
    <3>6. InputsOf(at.w, p \o is) = InputsOf(u, p \o is)
      BY <3>3 DEF InputsOf, InputOf, Same
    <3>7. Coming(at.w, at.q) = Coming(u, q) \o InputsOf(u, is)
      <4>1. InputsOf(u, p \o is) = InputsOf(u, p) \o InputsOf(u, is)
        BY <2>1, InputsOfParts
      <4>2. InputsOf(u, p) \in Seq(Events)
        BY <2>1, InputsOfIs
      <4>3. ASSUME NEW a \in Seq(Events), NEW b \in Seq(Events), NEW c \in Seq(Events)
            PROVE  a \o (b \o c) = (a \o b) \o c
        OBVIOUS
      <4>4. q \o (InputsOf(u, p) \o InputsOf(u, is)) = (q \o InputsOf(u, p)) \o InputsOf(u, is)
        BY <1>1, <1>2, <4>2, <4>3
      <4>5. Coming(at.w, at.q) = q \o InputsOf(u, p \o is)
        BY <3>1, <3>3, <3>6 DEF Coming
      <4> QED
        BY <4>1, <4>4, <4>5 DEF Coming
    <3>8. ASSUME live PROVE Mirrored(at.w, at.q, s)
      BY <3>3, <3>7, <3>8 DEF Mirrored, Same
    <3>9. Added(q, at.q, u.gen)
      BY <3>1 DEF Added
    <3> QED
      BY <3>3, <3>4, <3>5, <3>8, <3>9 DEF Follows
  <2>3. CASE ~(Len(is) <= room)
    <3> DEFINE z == SubSeq(is, 1, room)
    <3>1. at.w = [u EXCEPT !.finished = TRUE, !.pending = p \o z] /\ at.q = q
      BY <1>4, <2>3 DEF TakeInputs, at
    <3>2. p \o z \in Seq(Inputs) /\ Len(p \o z) <= PendingLimit
      <4>1. Len(is) \in Nat /\ room <= Len(is)
        BY <2>1, <2>3
      <4>2. z \in Seq(Inputs) /\ Len(z) = room
        <5>1. \A k \in Nat : k <= Len(is) =>
                SubSeq(is, 1, k) \in Seq(Inputs) /\ Len(SubSeq(is, 1, k)) = k
          OBVIOUS
        <5> HIDE DEF room
        <5> QED
          BY <2>1, <4>1, <5>1
      <4> HIDE DEF z, p
      <4>3. p \o z \in Seq(Inputs) /\ Len(p \o z) = Len(p) + Len(z)
        BY <2>1, <4>2
      <4> QED
        BY <2>1, <4>2, <4>3
    <3>3. at.w \in Records /\ at.w.pending = p \o z /\ Same(u, at.w) /\ at.w.finished
      <4> HIDE DEF z
      <4> QED
        BY <3>1, <3>2 DEF Records, Same
    <3>4. Worked(at.w, at.q) /\ Owned(at.w)
      BY <1>1, <1>4, <3>1, <3>2, <3>3 DEF Worked, Owned, Same
    <3>5. ASSUME live
          PROVE  Announced(at.w, at.q) /\ Ordered(at.w, at.q, sending) /\ Mirrored(at.w, at.q, s)
      BY <3>1, <3>3, <3>5 DEF Announced, Ordered, Once, First, Mirrored, Same
    <3>6. Added(q, at.q, u.gen)
      BY <3>1 DEF Added
    <3> QED
      BY <3>3, <3>4, <3>5, <3>6 DEF Follows
  <2> QED
    BY <2>2, <2>3
<1> QED
  BY <1>3, <1>4 DEF Records

\* What the worker u reports when it becomes ready.
Announcement(u) == <<Event(u, "Started")>> \o InputsOf(u, u.pending) \o <<Event(u, "Ready")>>

LEMMA ReportIs ==
  ASSUME NEW u \in Records
  PROVE  /\ Announcement(u) \in Seq(Events) /\ Len(Announcement(u)) >= 1
         /\ Announcement(u)[1] = Event(u, "Started")
         /\ \A i \in 1..Len(Announcement(u)) : Announcement(u)[i].gen = u.gen
         /\ \A i \in 2..Len(Announcement(u)) : Announcement(u)[i].type # "Started"
         /\ \A h \in SUBSET Codes :
              Replay(h, Announcement(u), u.gen) = Replay(h, InputsOf(u, u.pending), u.gen)
<1> DEFINE a == <<Event(u, "Started")>>
           b == InputsOf(u, u.pending)
           c == <<Event(u, "Ready")>>
<1>1. /\ Event(u, "Started") \in Events /\ Event(u, "Started").type = "Started"
      /\ Event(u, "Ready") \in Events /\ Event(u, "Ready").type = "Ready"
  BY DEF Event, Events, Records
<1>2. a \in Seq(Events) /\ DOMAIN a = {1} /\ a[1] = Event(u, "Started") /\ Len(a) = 1
  BY <1>1
<1>3. c \in Seq(Events) /\ DOMAIN c = {1} /\ c[1] = Event(u, "Ready") /\ Len(c) = 1
  BY <1>1
<1>4. b \in Seq(Events)
  BY InputsOfIs DEF Records
<1> HIDE DEF a, b, c
<1>5. Announcement(u) = (a \o b) \o c
  BY DEF Announcement, a, b, c
<1>6. a \o b \in Seq(Events) /\ Len(a \o b) = 1 + Len(b) /\ (a \o b)[1] = a[1]
  <2>1. ASSUME NEW x \in Seq(Events), NEW y \in Seq(Events), Len(x) = 1
        PROVE  x \o y \in Seq(Events) /\ Len(x \o y) = 1 + Len(y) /\ (x \o y)[1] = x[1]
    BY <2>1, ConcatProperties
  <2> QED
    BY <1>2, <1>4, <2>1
<1>7. /\ (a \o b) \o c \in Seq(Events) /\ Len((a \o b) \o c) >= 1
      /\ ((a \o b) \o c)[1] = (a \o b)[1]
  BY <1>3, <1>4, <1>6
<1>8. ASSUME NEW h \in SUBSET Codes
      PROVE  Replay(h, (a \o b) \o c, u.gen) = Replay(h, b, u.gen)
  <2>1. Replay(h, a, u.gen) = h
    BY <1>1, <1>2, ReplayOther
  <2>2. Replay(h, a \o b, u.gen) = Replay(h, b, u.gen)
    <3>1. Replay(h, a \o b, u.gen) = Replay(Replay(h, a, u.gen), b, u.gen)
      BY <1>2, <1>4, ReplayParts
    <3> QED
      BY <2>1, <3>1
  <2>3. Replay(h, b, u.gen) \in SUBSET Codes
    BY DEF Replay
  <2>4. Replay(Replay(h, b, u.gen), c, u.gen) = Replay(h, b, u.gen)
    BY <1>1, <1>3, <2>3, ReplayOther
  <2>5. Replay(h, (a \o b) \o c, u.gen) = Replay(Replay(h, a \o b, u.gen), c, u.gen)
    <3>1. \A x, y \in Seq(Events) :
            Replay(h, x \o y, u.gen) = Replay(Replay(h, x, u.gen), y, u.gen)
      BY ReplayParts
    <3>2. a \o b \in Seq(Events) /\ c \in Seq(Events)
      BY <1>3, <1>6
    <3> QED
      BY <3>1, <3>2
  <2> QED
    BY <2>2, <2>4, <2>5
<1>9. ASSUME NEW i \in 1..Len((a \o b) \o c) PROVE ((a \o b) \o c)[i].gen = u.gen
  <2>1. \A k \in 1..Len(b) : b[k].gen = u.gen
    BY InputsOfIs DEF b, Records
  <2>2. a[1].gen = u.gen /\ c[1].gen = u.gen
    BY <1>2, <1>3 DEF Event
  <2>3. ASSUME NEW x \in Seq(Events), NEW y \in Seq(Events),
               \A k \in 1..Len(x) : x[k].gen = u.gen, \A k \in 1..Len(y) : y[k].gen = u.gen,
               NEW j \in 1..Len(x \o y)
        PROVE  (x \o y)[j].gen = u.gen
    BY <2>3, ConcatProperties
  <2> QED
    BY <1>2, <1>3, <1>4, <1>6, <2>1, <2>2, <2>3
<1>10. ASSUME NEW i \in 2..Len((a \o b) \o c) PROVE ((a \o b) \o c)[i].type # "Started"
  <2>1. \A k \in 1..Len(b) : b[k].type # "Started"
    BY InputsOfIs DEF b, Records
  <2>2. \A k \in 2..Len(a \o b) : (a \o b)[k].type # "Started"
    BY <1>2, <1>4, <2>1, ConcatProperties
  <2> QED
    BY <1>1, <1>3, <1>6, <2>2, ConcatProperties
<1> QED
  BY <1>2, <1>5, <1>6, <1>7, <1>8, <1>9, <1>10 DEF b

LEMMA ReportReadyKeeps ==
  ASSUME NEW u \in Records, NEW q, Worked(u, q),
         NEW live \in BOOLEAN, NEW sending \in BOOLEAN, NEW s \in SUBSET Codes,
         Owned(u), live => Follows(u, q, sending, s)
  PROVE  LET at == ReportReady([w |-> u, q |-> q]) IN
         /\ Worked(at.w, at.q) /\ Owned(at.w) /\ Added(q, at.q, u.gen)
         /\ live => Follows(at.w, at.q, sending, s)
         /\ at.w.gen = u.gen /\ (u.ready => at.w.ready)
<1> DEFINE at == ReportReady([w |-> u, q |-> q])
<1> HIDE DEF at
<1> SUFFICES /\ Worked(at.w, at.q) /\ Owned(at.w) /\ Added(q, at.q, u.gen)
             /\ live => Follows(at.w, at.q, sending, s)
             /\ at.w.gen = u.gen /\ (u.ready => at.w.ready)
  BY DEF at
<1>1. CASE u.ready \/ u.observed # Grants
  <2>1. at = [w |-> u, q |-> q]
    BY <1>1 DEF ReportReady, at
  <2> QED
    BY <2>1 DEF Added
<1>2. CASE ~u.ready /\ u.observed = Grants
  <2> DEFINE v == [u EXCEPT !.ready = TRUE, !.pending = <<>>]
             es == Announcement(u)
  <2>1. /\ v \in Records /\ v.ready /\ v.pending = <<>> /\ v.gen = u.gen
        /\ v.finished = u.finished /\ v.pressed = u.pressed /\ v.phase = u.phase
        /\ v.granted = u.granted /\ v.observed = u.observed
    <3>1. <<>> \in Seq(Inputs)
      OBVIOUS
    <3> QED
      BY <3>1 DEF Records
  <2>2. at = Publish([w |-> v, q |-> q], es)
    BY <1>2 DEF ReportReady, at, Announcement
  <2> HIDE DEF v, es
  <2>3. q \in Seq(Events) /\ Len(q) <= QueueLimit
    BY DEF Worked
  <2>4. es \in Seq(Events) /\ Len(es) >= 1 /\ es[1] = Event(u, "Started")
    BY ReportIs DEF es
  <2>5. Publishes(v, q, es, at.w, at.q)
    BY <2>1, <2>2, <2>3, <2>4, PublishIs
  <2>6. /\ at.w \in Records /\ at.w.ready /\ at.w.pending = <<>> /\ at.w.gen = u.gen
        /\ u.finished => at.w.finished
        /\ at.w.pressed = u.pressed /\ at.w.phase = u.phase
        /\ at.w.granted = u.granted /\ at.w.observed = u.observed
    BY <2>1, <2>5 DEF Publishes, Finish, Records
  <2>7. Worked(at.w, at.q)
    BY <2>5, <2>6, BoundsAssumption DEF Publishes, Worked, BoundsAssumption
  <2>8. Owned(at.w)
    BY <1>2, <2>6 DEF Owned
  <2>9. Announced(at.w, at.q)
    BY <2>6 DEF Announced
  <2>10. ASSUME live PROVE Ordered(at.w, at.q, sending)
    <3>1. PICK z \in Seq(Events) : /\ at.q = q \o z /\ Len(z) <= Len(es)
                                   /\ \A i \in 1..Len(z) : z[i] = es[i]
      BY <2>5 DEF Publishes
    <3>2. \A i \in DOMAIN q : i \in DOMAIN at.q /\ at.q[i] = q[i] /\ i \in Nat
      BY <2>3, <3>1
    <3>3. ASSUME NEW i \in DOMAIN at.q, i \notin DOMAIN q,
                 at.q[i].type = "Input"
          PROVE  \E j \in DOMAIN at.q : j < i /\ IsStarted(at.q[j], u.gen)
      <4>1. /\ i \in Nat /\ i - Len(q) \in 1..Len(z) /\ at.q[i] = z[i - Len(q)]
            /\ Len(q) \in Nat
        <5>1. ASSUME NEW x \in Seq(Events), NEW y \in Seq(Events), NEW k \in DOMAIN (x \o y),
                     k \notin DOMAIN x
              PROVE  /\ k \in Nat /\ k - Len(x) \in 1..Len(y)
                     /\ (x \o y)[k] = y[k - Len(x)] /\ Len(x) \in Nat
          BY <5>1
        <5> QED
          BY <2>3, <3>1, <3>3, <5>1
      <4>2. 1 \in 1..Len(z) /\ z[1] = Event(u, "Started")
        BY <2>4, <3>1, <4>1
      <4>3. i - Len(q) # 1
        BY <3>3, <4>1, <4>2 DEF Event
      <4>4. Len(q) + 1 \in DOMAIN at.q /\ Len(q) + 1 < i /\ at.q[Len(q) + 1] = z[1]
        BY <2>3, <3>1, <4>1, <4>2, <4>3
      <4> QED
        BY <4>2, <4>4 DEF IsStarted, Event
    <3>4. ASSUME ~sending, NEW i \in DOMAIN q, q[i].type = "Input", q[i].gen = u.gen
          PROVE  \E j \in DOMAIN at.q : j < i /\ IsStarted(at.q[j], u.gen)
      <4>1. PICK j \in DOMAIN q : j < i /\ IsStarted(q[j], u.gen)
        BY <2>10, <3>4 DEF Follows, Ordered, First
      <4> QED
        BY <3>2, <4>1
    <3>5. ASSUME ~at.w.finished
          PROVE  \E j \in DOMAIN at.q : IsStarted(at.q[j], u.gen)
      <4>1. at.q = q \o es
        BY <2>5, <3>5 DEF Publishes
      <4>2. Len(q) + 1 \in DOMAIN at.q /\ at.q[Len(q) + 1] = es[1]
        BY <2>3, <2>4, <4>1
      <4> QED
        BY <2>4, <4>2 DEF IsStarted, Event
    <3>6. Once(at.w, at.q, sending)
      <4>1. ASSUME NEW i \in DOMAIN at.q, IsStarted(at.q[i], u.gen)
            PROVE  i = Len(q) + 1
        <5>1. i \notin DOMAIN q
          BY <1>2, <2>10, <3>2, <4>1 DEF Follows, Announced
        <5>2. /\ i \in Nat /\ i - Len(q) \in 1..Len(z) /\ at.q[i] = z[i - Len(q)]
              /\ Len(q) \in Nat
          BY <2>3, <3>1, <5>1, ConcatProperties
        <5>3. i - Len(q) \notin 2..Len(es)
          BY <2>4, <3>1, <4>1, <5>2, ReportIs DEF es, IsStarted
        <5> QED
          BY <2>4, <3>1, <5>2, <5>3
      <4>2. ~sending
        BY <1>2, <2>10 DEF Follows, Ordered
      <4> QED
        BY <2>6, <4>1, <4>2 DEF Once
    <3>7. ~sending => First(at.w, at.q)
      BY <2>6, <3>2, <3>3, <3>4, <3>5 DEF First
    <3> QED
      BY <2>6, <3>6, <3>7 DEF Ordered
  <2>11. ASSUME live, ~at.w.finished
         PROVE  Replay(s, Coming(at.w, at.q), at.w.gen) \cap Forwarded
                  = at.w.pressed \cap Forwarded
    <3>1. at.q = q \o es /\ ~u.finished
      BY <2>5, <2>6, <2>11 DEF Publishes
    <3>2. Coming(at.w, at.q) = at.q
      <4>1. InputsOf(at.w, at.w.pending) = <<>>
        BY <2>6 DEF InputsOf
      <4>2. at.q \in Seq(Events)
        BY <2>5 DEF Publishes
      <4> QED
        BY <4>1, <4>2 DEF Coming
    <3>3. Replay(s, q, u.gen) \in SUBSET Codes
      BY DEF Replay
    <3>4. Replay(s, q \o es, u.gen)
            = Replay(Replay(s, q, u.gen), InputsOf(u, u.pending), u.gen)
      <4>1. Replay(s, q \o es, u.gen) = Replay(Replay(s, q, u.gen), es, u.gen)
        BY <2>3, <2>4, ReplayParts
      <4> QED
        BY <3>3, <4>1, ReportIs DEF es
    <3>5. InputsOf(u, u.pending) \in Seq(Events)
      BY InputsOfIs DEF Records
    <3>6. Replay(s, q \o es, u.gen) = Replay(s, Coming(u, q), u.gen)
      BY <2>3, <3>4, <3>5, ReplayParts DEF Coming
    <3> QED
      BY <2>6, <2>11, <3>1, <3>2, <3>6 DEF Follows, Mirrored
  <2>12. ASSUME live PROVE Mirrored(at.w, at.q, s)
    BY <2>11, <2>12 DEF Mirrored
  <2>13. Added(q, at.q, u.gen)
    <3>1. \A i \in 1..Len(es) : es[i].gen = u.gen
      BY ReportIs DEF es
    <3> QED
      BY <2>3, <2>4, <2>5, <3>1, PublishAdded
  <2> QED
    BY <1>2, <2>6, <2>7, <2>8, <2>9, <2>10, <2>12, <2>13 DEF Follows
<1> QED
  BY <1>1, <1>2 DEF Records

-----------------------------------------------------------------------------
(* Steps of the worker *)

LEMMA RunningWorker == IInv /\ worker.phase # "done" => capture \/ stopping
BY DEF IInv, Situation, Gone, Spawned

\* A step of the worker.
LEMMA WorkerMoves ==
  ASSUME IInv, UNCHANGED coordinator, capture \/ stopping,
         Worked(worker', queue'), Owned(worker'), worker'.gen = worker.gen,
         worker.ready => worker'.ready, Added(queue, queue', worker.gen),
         capture => Follows(worker', queue', role = "Sending", sent)
  PROVE  IInv'
<1>1. Typed'
  BY DEF IInv, Typed, Worked, coordinator
<1>2. \A i \in DOMAIN queue' : queue'[i].gen <= generation
  <2>1. \A i \in DOMAIN queue : queue[i].gen <= generation
    BY DEF IInv, Situation
  <2>2. worker.gen <= generation
    BY DEF IInv, Typed
  <2> QED
    BY <2>1, <2>2 DEF Added
<1>3. Situation'
  BY <1>2 DEF IInv, Situation, coordinator
<1> QED
  BY <1>1, <1>3 DEF IInv, coordinator

\* What does not concern inputs and readiness does not concern the coordinator.
LEMMA StillFollows ==
  ASSUME NEW w, NEW v, NEW q, NEW sending, NEW s, Follows(w, q, sending, s),
         v.gen = w.gen, v.ready = w.ready, v.pending = w.pending, v.pressed = w.pressed,
         w.finished => v.finished
  PROVE  Follows(v, q, sending, s)
<1>1. Announced(v, q) /\ Ordered(v, q, sending)
  BY DEF Follows, Announced, Ordered, Once, First
<1>2. InputsOf(v, v.pending) = InputsOf(w, w.pending)
  BY DEF InputsOf, InputOf
<1>3. Coming(v, q) = Coming(w, q)
  BY <1>2 DEF Coming
<1>4. Mirrored(v, q, s)
  BY <1>3 DEF Follows, Mirrored
<1> QED
  BY <1>1, <1>4 DEF Follows

LEMMA WorkerQuiet ==
  ASSUME IInv, UNCHANGED coordinator, worker.phase # "done", NEW v \in Records,
         worker' = v, queue' = queue, Owned(v),
         v.gen = worker.gen, v.ready = worker.ready, v.pending = worker.pending,
         v.pressed = worker.pressed, worker.finished => v.finished
  PROVE  IInv'
<1>1. capture => Follows(worker', queue', role = "Sending", sent)
  BY StillFollows DEF IInv
<1>2. Worked(worker', queue') /\ Added(queue, queue', worker.gen)
  BY DEF IInv, Typed, Worked, Added
<1> QED
  BY <1>1, <1>2, RunningWorker, WorkerMoves

LEMMA QuietSteps ==
  ASSUME IInv,
         FailToBind \/ PointerEnters \/ PointerLeaves \/ Cleanup
           \/ (\E g \in Grants : Lost(g)) \/ \E failed \in BOOLEAN : GiveUp(failed)
  PROVE  IInv'
<1>1. worker \in Records /\ Owned(worker)
  BY DEF IInv, Typed
<1>2. CASE FailToBind
  <2> DEFINE v == [worker EXCEPT !.phase = "done", !.failed = TRUE, !.granted = {}]
  <2>1. /\ v \in Records /\ Owned(v) /\ v.gen = worker.gen /\ v.ready = worker.ready
        /\ v.pending = worker.pending /\ v.pressed = worker.pressed
        /\ v.finished = worker.finished
    BY <1>1 DEF Records, Owned
  <2>2. worker' = v /\ queue' = queue /\ UNCHANGED coordinator /\ worker.phase # "done"
    BY <1>2 DEF FailToBind, Worker
  <2> HIDE DEF v
  <2> QED
    BY <2>1, <2>2, WorkerQuiet
<1>3. CASE PointerEnters
  <2> DEFINE w == [worker EXCEPT !.inside = TRUE]
             v == IF ~w.armed \/ w.requested THEN w
                  ELSE IF w.cancel THEN Finish(w) ELSE [w EXCEPT !.requested = TRUE]
  <2>1. /\ w \in Records /\ w.phase = worker.phase /\ w.granted = worker.granted
        /\ w.observed = worker.observed /\ w.gen = worker.gen /\ w.ready = worker.ready
        /\ w.pending = worker.pending /\ w.pressed = worker.pressed
        /\ w.finished = worker.finished
    BY <1>1 DEF Records
  <2> HIDE DEF w
  <2>2. /\ v \in Records /\ v.phase = worker.phase /\ v.granted = worker.granted
        /\ v.observed = worker.observed /\ v.gen = worker.gen /\ v.ready = worker.ready
        /\ v.pending = worker.pending /\ v.pressed = worker.pressed
        /\ worker.finished => v.finished
    BY <2>1 DEF Records, Finish
  <2>3. Owned(v)
    BY <1>1, <2>2 DEF Owned
  <2>4. worker' = v /\ queue' = queue /\ UNCHANGED coordinator /\ worker.phase # "done"
    BY <1>3 DEF PointerEnters, Worker, Listening, w
  <2> HIDE DEF v
  <2> QED
    BY <2>2, <2>3, <2>4, WorkerQuiet
<1>4. CASE PointerLeaves
  <2> DEFINE v == [worker EXCEPT !.inside = FALSE, !.armed = TRUE]
  <2>1. /\ v \in Records /\ Owned(v) /\ v.gen = worker.gen /\ v.ready = worker.ready
        /\ v.pending = worker.pending /\ v.pressed = worker.pressed
        /\ v.finished = worker.finished
    BY <1>1 DEF Records, Owned
  <2>2. worker' = v /\ queue' = queue /\ UNCHANGED coordinator /\ worker.phase # "done"
    BY <1>4 DEF PointerLeaves, Worker, Listening
  <2> HIDE DEF v
  <2> QED
    BY <2>1, <2>2, WorkerQuiet
<1>5. CASE Cleanup
  <2> DEFINE v == [Finish(worker) EXCEPT !.phase = "reporting"]
  <2>1. /\ v \in Records /\ Owned(v) /\ v.gen = worker.gen /\ v.ready = worker.ready
        /\ v.pending = worker.pending /\ v.pressed = worker.pressed /\ v.finished
    BY <1>1 DEF Records, Owned, Finish
  <2>2. worker' = v /\ queue' = queue /\ UNCHANGED coordinator /\ worker.phase # "done"
    BY <1>5 DEF Cleanup, Worker
  <2> HIDE DEF v
  <2> QED
    BY <2>1, <2>2, WorkerQuiet
<1>6. ASSUME NEW g \in Grants, Lost(g) PROVE IInv'
  <2> DEFINE v == Finish([worker EXCEPT !.granted = @ \ {g}])
  <2>1. /\ v \in Records /\ v.gen = worker.gen /\ v.ready = worker.ready
        /\ v.pending = worker.pending /\ v.pressed = worker.pressed /\ v.finished
        /\ v.phase = worker.phase /\ v.observed = worker.observed
    BY <1>1 DEF Records, Finish
  <2>2. /\ worker' = v /\ queue' = queue /\ UNCHANGED coordinator
        /\ worker.phase \in {"binding", "watching"}
    BY <1>6 DEF Lost, Worker, Listening
  <2>3. Owned(v)
    BY <1>1, <2>1, <2>2 DEF Owned
  <2> HIDE DEF v
  <2> QED
    BY <2>1, <2>2, <2>3, WorkerQuiet
<1>7. ASSUME NEW failed \in BOOLEAN, GiveUp(failed) PROVE IInv'
  <2> DEFINE v == Finish([worker EXCEPT !.failed = failed])
  <2>1. /\ v \in Records /\ v.gen = worker.gen /\ v.ready = worker.ready
        /\ v.pending = worker.pending /\ v.pressed = worker.pressed /\ v.finished
        /\ v.phase = worker.phase /\ v.observed = worker.observed
        /\ v.granted = worker.granted
    BY <1>1 DEF Records, Finish
  <2>2. worker' = v /\ queue' = queue /\ UNCHANGED coordinator /\ worker.phase # "done"
    BY <1>7 DEF GiveUp, Worker, Listening
  <2>3. Owned(v)
    BY <1>1, <2>1 DEF Owned
  <2> HIDE DEF v
  <2> QED
    BY <2>1, <2>2, <2>3, WorkerQuiet
<1> QED
  BY <1>2, <1>3, <1>4, <1>5, <1>6, <1>7

\* Events that are no inputs and do not start a session.
LEMMA PublishKeeps ==
  ASSUME NEW u \in Records, NEW q \in Seq(Events), NEW e \in Events, e.gen = u.gen,
         e.type \notin {"Started", "Input"}, NEW v, NEW r,
         Publishes(u, q, <<e>>, v, r), NEW sending \in BOOLEAN, NEW s \in SUBSET Codes,
         Follows(u, q, sending, s)
  PROVE  Follows(v, r, sending, s)
<1> DEFINE es == <<e>>
<1>1. es \in Seq(Events) /\ Len(es) = 1 /\ es[1] = e /\ DOMAIN es = {1}
  OBVIOUS
<1> HIDE DEF es
<1>2. Publishes(u, q, es, v, r)
  BY DEF es
<1>3. Announced(v, r) /\ Ordered(v, r, sending)
  BY <1>1, <1>2, PublishOrdered DEF Follows
<1>4. ASSUME ~v.finished
      PROVE  Replay(s, Coming(v, r), v.gen) \cap Forwarded = v.pressed \cap Forwarded
  <2> DEFINE b == InputsOf(u, u.pending)
             m == Replay(s, q, u.gen)
  <2>1. v = u /\ r = q \o es /\ b \in Seq(Events)
    BY <1>2, <1>4, InputsOfIs DEF Publishes, Records
  <2>2. m \in SUBSET Codes
    BY DEF Replay
  <2> HIDE DEF b, m
  <2>3. Replay(m, es, u.gen) = m
    BY <1>1, <2>2, ReplayOther
  <2>4. Replay(s, q \o es, u.gen) = m
    BY <1>1, <2>3, ReplayParts DEF m
  <2>5. q \o es \in Seq(Events)
    BY <1>1
  <2>6. Replay(s, (q \o es) \o b, u.gen) = Replay(m, b, u.gen)
    <3>1. Replay(s, (q \o es) \o b, u.gen) = Replay(Replay(s, q \o es, u.gen), b, u.gen)
      <4>1. \A x \in Seq(Events) :
              Replay(s, x \o b, u.gen) = Replay(Replay(s, x, u.gen), b, u.gen)
        BY <2>1, ReplayParts
      <4> QED
        BY <2>5, <4>1
    <3> QED
      BY <2>4, <3>1
  <2>7. Replay(s, q \o b, u.gen) = Replay(m, b, u.gen)
    BY <2>1, ReplayParts DEF m
  <2>8. Coming(v, r) = (q \o es) \o b /\ Coming(u, q) = q \o b
    BY <2>1 DEF Coming, b
  <2> QED
    BY <1>4, <2>1, <2>6, <2>7, <2>8 DEF Follows, Mirrored
<1> QED
  BY <1>3, <1>4 DEF Follows, Mirrored

LEMMA WatchKeeps ==
  ASSUME IInv, Watch
  PROVE  IInv'
<1> DEFINE u == [worker EXCEPT !.phase = "watching", !.armed = ~worker.inside]
           e == Event(u, "Armed")
<1>1. worker \in Records /\ Owned(worker) /\ worker.phase = "binding"
  BY DEF IInv, Typed, Watch
<1>2. /\ u \in Records /\ Owned(u) /\ u.gen = worker.gen /\ u.ready = worker.ready
      /\ u.pending = worker.pending /\ u.pressed = worker.pressed
      /\ u.finished = worker.finished
  BY <1>1 DEF Records, Owned
<1>3. /\ worker' = Publish([w |-> u, q |-> queue], <<e>>).w
      /\ queue' = Publish([w |-> u, q |-> queue], <<e>>).q
      /\ UNCHANGED coordinator
  BY DEF Watch, Becomes, At
<1> HIDE DEF u
<1>4. e \in Events /\ e.gen = worker.gen /\ e.type = "Armed"
  BY <1>2 DEF Event, Events, Records
<1> HIDE DEF e
<1>5. /\ <<e>> \in Seq(Events) /\ Len(<<e>>) = 1
      /\ \A i \in 1..Len(<<e>>) : <<e>>[i].gen = worker.gen
  BY <1>4
<1>6. queue \in Seq(Events) /\ Len(queue) <= QueueLimit
  BY DEF IInv, Typed
<1>7. Publishes(u, queue, <<e>>, worker', queue')
  BY <1>2, <1>3, <1>5, <1>6, PublishIs
<1>8. Added(queue, queue', worker.gen)
  BY <1>5, <1>6, <1>7, PublishAdded
<1>9. /\ Worked(worker', queue') /\ Owned(worker') /\ worker'.gen = worker.gen
      /\ worker.ready => worker'.ready
  BY <1>2, <1>7 DEF Publishes, Worked, Owned, Finish, Records, IInv, Typed
<1>10. ASSUME capture PROVE Follows(worker', queue', role = "Sending", sent)
  <2>1. Follows(u, queue, role = "Sending", sent)
    BY <1>2, <1>10, StillFollows DEF IInv
  <2>2. sent \in SUBSET Codes /\ (role = "Sending") \in BOOLEAN
    BY DEF IInv, Typed
  <2> QED
    BY <1>2, <1>4, <1>6, <1>7, <2>1, <2>2, PublishKeeps
<1> QED
  BY <1>1, <1>3, <1>8, <1>9, <1>10, RunningWorker, WorkerMoves

LEMMA ReportKeeps ==
  ASSUME IInv, Report
  PROVE  IInv'
<1> DEFINE v == [worker EXCEPT !.phase = "done", !.granted = {}]
           e == Event(worker, "Finished")
<1>1. worker \in Records /\ Owned(worker) /\ worker.phase = "reporting" /\ worker.finished
  BY DEF IInv, Typed, Report, Owned
<1>2. /\ v \in Records /\ Owned(v) /\ v.gen = worker.gen /\ v.ready = worker.ready
      /\ v.pending = worker.pending /\ v.pressed = worker.pressed /\ v.finished
  BY <1>1 DEF Records, Owned
<1>3. e \in Events /\ e.gen = worker.gen /\ e.type = "Finished"
  BY <1>1 DEF Event, Events, Records
<1>4. worker' = v /\ UNCHANGED coordinator /\ worker.phase # "done"
  BY <1>1 DEF Report
<1>5. queue \in Seq(Events) /\ Len(queue) <= QueueLimit /\ QueueLimit \in Nat
  BY BoundsAssumption DEF IInv, Typed, BoundsAssumption
<1>6. CASE queue' = queue
  BY <1>2, <1>4, <1>6, WorkerQuiet
<1>7. CASE Len(queue) < QueueLimit /\ queue' = Append(queue, e)
  <2> HIDE DEF v, e
  <2>1. queue' \in Seq(Events) /\ Len(queue') <= QueueLimit
    BY <1>3, <1>5, <1>7
  <2>2. \A i \in DOMAIN queue' : \/ i \in DOMAIN queue /\ queue'[i] = queue[i]
                                 \/ queue'[i] = e
    BY <1>5, <1>7
  <2>3. \A i \in DOMAIN queue : i \in DOMAIN queue' /\ queue'[i] = queue[i]
    BY <1>5, <1>7
  <2>4. Added(queue, queue', worker.gen)
    BY <1>3, <2>2 DEF Added
  <2>5. ASSUME capture PROVE Follows(v, queue', role = "Sending", sent)
    <3>1. Announced(v, queue')
      BY <1>2, <1>3, <2>2, <2>5 DEF IInv, Follows, Announced, IsStarted
    <3>2. Once(v, queue', role = "Sending")
      BY <1>2, <1>3, <2>2, <2>5 DEF IInv, Follows, Ordered, Once, IsStarted
    <3>3. role # "Sending" => First(v, queue')
      BY <1>2, <1>3, <2>2, <2>3, <2>5 DEF IInv, Follows, Ordered, First
    <3>4. Ordered(v, queue', role = "Sending")
      BY <1>2, <2>5, <3>2, <3>3 DEF IInv, Follows, Ordered
    <3> QED
      BY <1>2, <3>1, <3>4 DEF Follows, Mirrored
  <2>6. Worked(v, queue')
    BY <1>2, <2>1 DEF Worked, IInv, Typed
  <2> QED
    BY <1>2, <1>4, <2>4, <2>5, <2>6, RunningWorker, WorkerMoves
<1> QED
  BY <1>6, <1>7 DEF Report

\* What follows the inputs that were coming.
LEMMA ComingParts ==
  ASSUME NEW w \in Records, NEW q \in Seq(Events), NEW es \in Seq(Events), NEW s
  PROVE  Replay(s, Coming(w, q) \o es, w.gen) = Replay(Replay(s, Coming(w, q), w.gen), es, w.gen)
<1>1. InputsOf(w, w.pending) \in Seq(Events)
  BY InputsOfIs DEF Records
<1>2. Coming(w, q) \in Seq(Events)
  BY <1>1 DEF Coming
<1> QED
  BY <1>2, ReplayParts

LEMMA ReportedKeeps ==
  ASSUME IInv, NEW i \in Inputs, Reported(i)
  PROVE  IInv'
<1> DEFINE p == IF i.pressed THEN worker.pressed \cup {i.code} ELSE worker.pressed \ {i.code}
           u == [worker EXCEPT !.pressed = p]
           is == <<i>>
<1>1. worker \in Records /\ Owned(worker) /\ worker.phase # "done"
  BY DEF IInv, Typed, Reported, Listening
<1>2. p \in SUBSET Codes /\ i.code \in Codes /\ i.pressed \in BOOLEAN
  BY <1>1 DEF Records, Inputs
<1>3. /\ u.pressed = p /\ UNCHANGED coordinator
      /\ \/ worker' = worker /\ queue' = queue
         \/ /\ worker' = TakeInputs([w |-> u, q |-> queue], is).w
            /\ queue' = TakeInputs([w |-> u, q |-> queue], is).q
  <2>1. u.pressed = p /\ UNCHANGED coordinator
    BY <1>1 DEF Reported, Records
  <2> HIDE DEF p
  <2>2. \/ /\ worker' = [w |-> worker, q |-> queue].w
           /\ queue' = [w |-> worker, q |-> queue].q
        \/ /\ worker' = TakeInputs([w |-> u, q |-> queue], is).w
           /\ queue' = TakeInputs([w |-> u, q |-> queue], is).q
    BY DEF Reported, Becomes, At, p
  <2> QED
    BY <2>1, <2>2
<1> HIDE DEF p
<1>4. /\ u \in Records /\ Owned(u) /\ u.gen = worker.gen /\ u.ready = worker.ready
      /\ u.pending = worker.pending /\ u.finished = worker.finished
  BY <1>1, <1>2 DEF Records, Owned
<1>5. is \in Seq(Inputs) /\ Len(is) = 1 /\ is[1] = i
  OBVIOUS
<1> HIDE DEF u, is
<1>6. CASE worker' = worker /\ queue' = queue
  BY <1>1, <1>3, <1>6, WorkerQuiet
<1>7. CASE /\ worker' = TakeInputs([w |-> u, q |-> queue], is).w
           /\ queue' = TakeInputs([w |-> u, q |-> queue], is).q
  <2>1. queue \in Seq(Events) /\ sent \in SUBSET Codes /\ (role = "Sending") \in BOOLEAN
        /\ capture \in BOOLEAN
    BY DEF IInv, Typed
  <2>2. Worked(u, queue)
    BY <1>4 DEF Worked, IInv, Typed
  <2>3. Coming(u, queue) = Coming(worker, queue)
    BY <1>4 DEF Coming, InputsOf, InputOf
  <2>4. ASSUME capture, ~u.finished
        PROVE  Replay(sent, Coming(u, queue) \o InputsOf(u, is), u.gen) \cap Forwarded
                 = u.pressed \cap Forwarded
    <3> DEFINE m == Replay(sent, Coming(worker, queue), worker.gen)
               e == InputOf(u, i)
    <3>1. m \in SUBSET Codes /\ m \cap Forwarded = worker.pressed \cap Forwarded
      BY <1>4, <2>4 DEF Replay, IInv, Follows, Mirrored
    <3>2. e \in Events /\ e.type = "Input" /\ e.gen = u.gen /\ e.input = i
      BY <1>4 DEF InputOf, Events, Records
    <3>3. InputsOf(u, is) = <<e>>
      <4>1. DOMAIN is = {1}
        BY <1>5
      <4> QED
        BY <1>5, <4>1, InputsOfIs, <1>4
    <3> HIDE DEF m, e
    <3>4. <<e>> \in Seq(Events)
      BY <3>2
    <3>5. Replay(sent, Coming(u, queue) \o <<e>>, u.gen) = Replay(m, <<e>>, u.gen)
      <4>1. Replay(sent, Coming(u, queue) \o <<e>>, u.gen)
              = Replay(Replay(sent, Coming(u, queue), u.gen), <<e>>, u.gen)
        BY <1>4, <2>1, <3>4, ComingParts
      <4>2. m = Replay(sent, Coming(u, queue), u.gen)
        BY <1>4, <2>3 DEF m
      <4> QED
        BY <4>1, <4>2
    <3>6. Replay(m, <<e>>, u.gen) = IF i.pressed THEN m \cup {i.code} ELSE m \ {i.code}
      BY <3>1, <3>2, ReplayOne
    <3>7. u.pressed = p
      BY <1>3
    <3> QED
      BY <3>1, <3>3, <3>5, <3>6, <3>7 DEF p
  <2>5. capture => /\ Announced(u, queue) /\ Ordered(u, queue, role = "Sending")
    BY <1>4 DEF IInv, Follows, Announced, Ordered, Once, First
  <2>6. /\ Same(u, worker') /\ Worked(worker', queue') /\ Owned(worker')
        /\ Added(queue, queue', u.gen)
        /\ capture => Follows(worker', queue', role = "Sending", sent)
    BY <1>4, <1>5, <1>7, <2>1, <2>2, <2>4, <2>5, TakeInputsKeeps
  <2> QED
    BY <1>1, <1>3, <1>4, <2>6, RunningWorker, WorkerMoves DEF Same
<1> QED
  BY <1>3, <1>6, <1>7

LEMMA PressesIs ==
  ASSUME NEW news \in SUBSET Keys,
         NEW is \in Bijection(1..Cardinality(news), Presses(news))
  PROVE  /\ is \in Seq(Inputs)
         /\ \A k \in DOMAIN is : is[k].pressed
         /\ \A j, k \in DOMAIN is : is[j].code = is[k].code => j = k
         /\ \A c \in news : \E k \in DOMAIN is : is[k].code = c
         /\ \A k \in DOMAIN is : is[k].code \in news
<1>1. Cardinality(news) \in Nat
  BY CodesAssumption, FS_Subset, FS_CardinalityType DEF CodesAssumption
<1>2. /\ is \in [1..Cardinality(news) -> Presses(news)]
      /\ \A a, b \in DOMAIN is : is[a] = is[b] => a = b
      /\ \A t \in Presses(news) : \E k \in 1..Cardinality(news) : is[k] = t
  BY DEF Bijection, Injection, Surjection, IsInjective
<1>3. \A t \in Presses(news) : t \in Inputs /\ t.pressed /\ t.code \in news
  <2> SUFFICES ASSUME NEW t \in Presses(news)
               PROVE  t \in Inputs /\ t.pressed /\ t.code \in news
    OBVIOUS
  <2>1. PICK k \in news : t = [code |-> k, pressed |-> TRUE]
    BY DEF Presses
  <2> QED
    BY <2>1 DEF Inputs, Codes
<1>4. is \in Seq(Inputs)
  <2>1. is \in [1..Cardinality(news) -> Inputs]
    BY <1>2, <1>3
  <2> QED
    BY <1>1, <2>1
<1>5. ASSUME NEW t \in Presses(news), NEW r \in Presses(news), t.code = r.code
      PROVE  t = r
  <2>1. PICK k \in news : t = [code |-> k, pressed |-> TRUE]
    BY DEF Presses
  <2>2. PICK j \in news : r = [code |-> j, pressed |-> TRUE]
    BY DEF Presses
  <2>3. t.code = k /\ r.code = j
    BY <2>1, <2>2
  <2> QED
    BY <1>5, <2>1, <2>2, <2>3
<1>6. ASSUME NEW c \in news
      PROVE  \E k \in DOMAIN is : is[k].code = c
  <2>1. [code |-> c, pressed |-> TRUE] \in Presses(news)
    BY DEF Presses
  <2>2. PICK k \in 1..Cardinality(news) : is[k] = [code |-> c, pressed |-> TRUE]
    BY <1>2, <2>1
  <2> QED
    BY <1>2, <2>2
<1>7. \A k \in DOMAIN is : is[k] \in Presses(news)
  BY <1>2
<1> QED
  BY <1>2, <1>3, <1>4, <1>5, <1>6, <1>7

LEMMA GrantedKeeps ==
  ASSUME IInv, NEW g \in Grants, Granted(g)
  PROVE  IInv'
<1>1. /\ worker \in Records /\ Owned(worker) /\ worker.phase \in {"binding", "watching"}
      /\ ~worker.finished /\ queue \in Seq(Events) /\ sent \in SUBSET Codes
      /\ (role = "Sending") \in BOOLEAN /\ capture \in BOOLEAN
  BY DEF IInv, Typed, Granted, Listening
<1>2. PICK held \in SUBSET Keys :
        LET w    == [worker EXCEPT !.observed = @ \cup {g}, !.granted = @ \cup {g},
                                   !.pressed = @ \cup held]
            news == held \ worker.pressed
        IN \E is \in Bijection(1..Cardinality(news), Presses(news)) :
             Becomes(ReportReady(TakeInputs([At EXCEPT !.w = w], is)))
  <2>1. {{}} \subseteq SUBSET Keys
    OBVIOUS
  <2> QED
    BY <2>1 DEF Granted
<1> DEFINE u == [worker EXCEPT !.observed = @ \cup {g}, !.granted = @ \cup {g},
                               !.pressed = @ \cup held]
           news == held \ worker.pressed
<1>3. PICK is \in Bijection(1..Cardinality(news), Presses(news)) :
        Becomes(ReportReady(TakeInputs([w |-> u, q |-> queue], is)))
  BY <1>2 DEF At
<1> DEFINE at == TakeInputs([w |-> u, q |-> queue], is)
<1>4. /\ u \in Records /\ Owned(u) /\ u.gen = worker.gen /\ u.ready = worker.ready
      /\ u.pending = worker.pending /\ u.finished = worker.finished
      /\ u.pressed = worker.pressed \cup held
  <2>1. held \subseteq Codes
    BY DEF Codes
  <2>2. /\ u \in Records /\ u.gen = worker.gen /\ u.ready = worker.ready
        /\ u.pending = worker.pending /\ u.finished = worker.finished
        /\ u.pressed = worker.pressed \cup held /\ u.phase = worker.phase
        /\ u.observed = worker.observed \cup {g} /\ u.granted = worker.granted \cup {g}
    BY <1>1, <2>1 DEF Records
  <2>3. worker.observed \subseteq Grants
    BY <1>1 DEF Records
  <2> HIDE DEF u
  <2>4. Owned(u)
    BY <1>1, <2>2, <2>3 DEF Owned
  <2> QED
    BY <2>2, <2>4
<1>5. /\ is \in Seq(Inputs) /\ \A k \in DOMAIN is : is[k].pressed
      /\ \A j, k \in DOMAIN is : is[j].code = is[k].code => j = k
      /\ \A c \in news : \E k \in DOMAIN is : is[k].code = c
      /\ \A k \in DOMAIN is : is[k].code \in news
  BY PressesIs
<1>6. news \subseteq Codes /\ u.pressed = worker.pressed \cup news
  BY <1>4 DEF Codes
<1> HIDE DEF u, news
<1>7. Worked(u, queue)
  BY <1>4 DEF Worked, IInv, Typed
<1>8. Coming(u, queue) = Coming(worker, queue)
  BY <1>4 DEF Coming, InputsOf, InputOf
<1>9. ASSUME capture, ~u.finished
      PROVE  Replay(sent, Coming(u, queue) \o InputsOf(u, is), u.gen) \cap Forwarded
               = u.pressed \cap Forwarded
  <2> DEFINE m  == Replay(sent, Coming(worker, queue), worker.gen)
             es == InputsOf(u, is)
  <2>1. m \in SUBSET Codes /\ m \cap Forwarded = worker.pressed \cap Forwarded
    BY <1>4, <1>9 DEF Replay, IInv, Follows, Mirrored
  <2>2. /\ es \in Seq(Events) /\ DOMAIN es = DOMAIN is
        /\ \A k \in DOMAIN es : es[k].type = "Input" /\ es[k].gen = u.gen /\ es[k].input = is[k]
    <3>1. /\ es \in Seq(Events) /\ Len(es) = Len(is)
          /\ \A k \in 1..Len(is) : es[k] = InputOf(u, is[k])
      BY <1>4, <1>5, InputsOfIs
    <3> HIDE DEF es
    <3>2. DOMAIN es = 1..Len(es) /\ DOMAIN is = 1..Len(is)
      BY <1>5, <3>1
    <3> QED
      BY <3>1, <3>2 DEF InputOf
  <2> HIDE DEF m, es
  <2>3. Replay(sent, Coming(u, queue) \o es, u.gen) = Replay(m, es, u.gen)
    <3>1. Replay(sent, Coming(u, queue) \o es, u.gen)
            = Replay(Replay(sent, Coming(u, queue), u.gen), es, u.gen)
      BY <1>1, <1>4, <2>2, ComingParts
    <3>2. m = Replay(sent, Coming(u, queue), u.gen)
      BY <1>4, <1>8 DEF m
    <3> QED
      BY <3>1, <3>2
  <2>4. /\ \A k \in DOMAIN es : es[k].input.pressed
        /\ \A j, k \in DOMAIN es : es[j].input.code = es[k].input.code => j = k
        /\ \A c \in news : \E k \in DOMAIN es : es[k].input.code = c
        /\ \A k \in DOMAIN es : es[k].input.code \in news
    BY <1>5, <2>2
  <2>5. Replay(m, es, u.gen) = m \cup news
    <3>1. \A k \in DOMAIN es : /\ es[k].type = "Input" /\ es[k].gen = u.gen
                               /\ es[k].input.pressed
      BY <2>2, <2>4
    <3>2. news \in SUBSET Codes
      BY <1>6
    <3> QED
      BY <2>1, <2>2, <2>4, <3>1, <3>2, ReplayPresses
  <2> QED
    BY <1>6, <2>1, <2>3, <2>5 DEF es
<1>10. capture => /\ Announced(u, queue) /\ Ordered(u, queue, role = "Sending")
  BY <1>4 DEF IInv, Follows, Announced, Ordered, Once, First
<1>11. /\ Same(u, at.w) /\ Worked(at.w, at.q) /\ Owned(at.w)
       /\ Added(queue, at.q, u.gen)
       /\ capture => Follows(at.w, at.q, role = "Sending", sent)
  BY <1>1, <1>4, <1>5, <1>7, <1>9, <1>10, TakeInputsKeeps
<1>12. at = [w |-> at.w, q |-> at.q]
  <2>1. \/ \E v, r : at = [w |-> v, q |-> r]
    BY <1>4 DEF TakeInputs, Publish
  <2> QED
    BY <2>1
<1> DEFINE b == ReportReady([w |-> at.w, q |-> at.q])
<1>13. worker' = b.w /\ queue' = b.q /\ UNCHANGED coordinator
  BY <1>3, <1>12 DEF Becomes, Granted
<1>14. /\ Worked(b.w, b.q) /\ Owned(b.w) /\ Added(at.q, b.q, at.w.gen)
       /\ capture => Follows(b.w, b.q, role = "Sending", sent)
       /\ b.w.gen = at.w.gen /\ (at.w.ready => b.w.ready)
  <2>1. at.w \in Records
    BY <1>11 DEF Worked
  <2> HIDE DEF at
  <2> QED
    BY <1>1, <1>11, <2>1, ReportReadyKeeps
<1> HIDE DEF b, at
<1>15. Added(queue, b.q, worker.gen)
  BY <1>4, <1>11, <1>14, AddedTwice DEF Same
<1> QED
  BY <1>1, <1>4, <1>11, <1>13, <1>14, <1>15, RunningWorker, WorkerMoves DEF Same

-----------------------------------------------------------------------------
(* Steps of the coordinator *)

\* The coordinator stops the capture, if there is one.
LEMMA StopKeeps ==
  ASSUME IInv, ~stopping, worker' = [worker EXCEPT !.cancel = capture],
         role' = "Local", sent' = {}, capture' = FALSE, stopping' = capture,
         generation' = generation, ending' \in BOOLEAN,
         queue' = queue \/ (queue # <<>> /\ queue' = Tail(queue))
  PROVE  IInv'
<1> DEFINE v == [worker EXCEPT !.cancel = capture]
<1>1. worker \in Records /\ Owned(worker) /\ capture \in BOOLEAN /\ queue \in Seq(Events)
  BY DEF IInv, Typed
<1>2. /\ v \in Records /\ Owned(v) /\ v.gen = worker.gen /\ v.pending = worker.pending
      /\ ~capture => (worker = Gone({}) => v = Gone({}))
  BY <1>1 DEF Records, Owned, Gone, Spawned
<1>3. worker' = v
  OBVIOUS
<1> HIDE DEF v
<1>4. /\ queue' \in Seq(Events) /\ Len(queue') <= Len(queue)
      /\ \A i \in DOMAIN queue' : \E j \in DOMAIN queue : queue'[i] = queue[j]
  <2>1. CASE queue' = queue
    BY <1>1, <2>1
  <2>2. CASE queue # <<>> /\ queue' = Tail(queue)
    BY <1>1, <2>2
  <2> QED
    BY <2>1, <2>2
<1>5. Typed'
  <2>1. Len(queue') <= QueueLimit
    BY <1>1, <1>4, BoundsAssumption DEF IInv, Typed, BoundsAssumption
  <2>2. {} \in SUBSET Codes /\ FALSE \in BOOLEAN
    OBVIOUS
  <2> QED
    BY <1>1, <1>2, <1>3, <1>4, <2>1, <2>2 DEF IInv, Typed
<1>6. \A i \in DOMAIN queue' : queue'[i].gen <= generation
  BY <1>4 DEF IInv, Situation
<1>7. Situation'
  BY <1>1, <1>2, <1>3, <1>6 DEF IInv, Situation
<1> QED
  BY <1>2, <1>3, <1>5, <1>7 DEF IInv

LEMMA StopSteps ==
  ASSUME IInv, Interrupt \/ Disconnect \/ TakeFinished \/ WorkerGone
  PROVE  IInv'
<1>1. ending \in BOOLEAN /\ TRUE \in BOOLEAN
  BY DEF IInv, Typed
<1>2. CASE Interrupt
  BY <1>1, <1>2, StopKeeps DEF Interrupt, Stop, Running
<1>3. CASE Disconnect
  BY <1>1, <1>3, StopKeeps DEF Disconnect, Running
<1>4. CASE TakeFinished
  BY <1>1, <1>4, StopKeeps DEF TakeFinished, Taken, Stop, Running
<1>5. CASE WorkerGone
  BY <1>1, <1>5, StopKeeps DEF WorkerGone, Stop, Running
<1> QED
  BY <1>2, <1>3, <1>4, <1>5

LEMMA TailIs ==
  ASSUME NEW q \in Seq(Events), q # <<>>
  PROVE  /\ Head(q) \in Events /\ Head(q) = q[1] /\ 1 \in DOMAIN q
         /\ Tail(q) \in Seq(Events) /\ Len(Tail(q)) <= Len(q)
         /\ q = <<Head(q)>> \o Tail(q)
         /\ \A i \in DOMAIN Tail(q) : /\ i + 1 \in DOMAIN q /\ Tail(q)[i] = q[i + 1]
                                      /\ i \in Nat
         /\ \A i \in DOMAIN q : \/ i = 1
                                \/ /\ i - 1 \in DOMAIN Tail(q) /\ i \in Nat
                                   /\ Tail(q)[i - 1] = q[i]
<1>1. /\ Head(q) \in Events /\ Head(q) = q[1] /\ 1 \in DOMAIN q
      /\ Tail(q) \in Seq(Events) /\ Len(Tail(q)) = Len(q) - 1 /\ Len(q) \in Nat
      /\ \A i \in 1..Len(Tail(q)) : Tail(q)[i] = q[i + 1]
      /\ DOMAIN q = 1..Len(q) /\ DOMAIN Tail(q) = 1..Len(Tail(q))
  OBVIOUS
<1>2. q = <<Head(q)>> \o Tail(q)
  <2> DEFINE a == <<Head(q)>>
             t == Tail(q)
  <2>1. a \in Seq(Events) /\ Len(a) = 1 /\ a[1] = q[1]
    BY <1>1
  <2> HIDE DEF a, t
  <2>2. t \in Seq(Events) /\ Len(t) = Len(q) - 1 /\ \A i \in 1..Len(t) : t[i] = q[i + 1]
    BY <1>1 DEF t
  <2>3. a \o t \in Seq(Events) /\ Len(a \o t) = Len(q)
    <3>1. a \o t \in Seq(Events) /\ Len(a \o t) = Len(a) + Len(t)
      BY <2>1, <2>2, ConcatProperties
    <3>2. Len(a) + Len(t) = Len(q)
      BY <1>1, <2>1, <2>2
    <3> QED
      BY <3>1, <3>2
  <2>4. ASSUME NEW i \in 1..Len(q) PROVE (a \o t)[i] = q[i]
    <3>1. (a \o t)[i] = IF i <= 1 THEN a[i] ELSE t[i - 1]
      <4>1. ASSUME NEW x \in Seq(Events), NEW y \in Seq(Events), NEW k \in 1..(Len(x) + Len(y))
            PROVE  (x \o y)[k] = IF k <= Len(x) THEN x[k] ELSE y[k - Len(x)]
        BY ConcatProperties
      <4>2. Len(a) + Len(t) = Len(q) /\ Len(a) = 1
        BY <1>1, <2>1, <2>2
      <4>3. i \in 1..(Len(a) + Len(t))
        BY <4>2
      <4> QED
        BY <2>1, <2>2, <4>1, <4>2, <4>3
    <3>2. i = 1 \/ i - 1 \in 1..Len(t)
      BY <1>1, <2>2
    <3> QED
      BY <1>1, <2>1, <2>2, <3>1, <3>2
  <2>5. a \o t = q
    BY <2>3, <2>4, SeqEqual
  <2> QED
    BY <2>5 DEF a, t
<1>3. \A i \in 1..Len(q) : i = 1 \/ i - 1 \in 1..Len(Tail(q))
  BY <1>1
<1>4. \A i \in 1..Len(Tail(q)) : i + 1 \in 1..Len(q) /\ i \in Nat
  BY <1>1
<1>5. \A i \in 1..Len(q) : i - 1 \in 1..Len(Tail(q)) => Tail(q)[i - 1] = q[i]
  <2>1. \A i \in 1..Len(q) : (i - 1) + 1 = i /\ i \in Nat
    BY <1>1
  <2> QED
    BY <1>1, <2>1
<1> QED
  BY <1>1, <1>2, <1>3, <1>4, <1>5

LEMMA ComingHead ==
  ASSUME NEW w \in Records, NEW q \in Seq(Events), q # <<>>, NEW s
  PROVE  Replay(s, Coming(w, q), w.gen)
           = Replay(Replay(s, <<Head(q)>>, w.gen), Coming(w, Tail(q)), w.gen)
<1> DEFINE b == InputsOf(w, w.pending)
           h == <<Head(q)>>
           t == Tail(q)
<1>1. b \in Seq(Events)
  BY InputsOfIs DEF Records
<1>2. t \in Seq(Events) /\ q = h \o t
  BY TailIs
<1>3. h \in Seq(Events)
  BY TailIs
<1> HIDE DEF b, h, t
<1>4. t \o b \in Seq(Events) /\ h \o (t \o b) = (h \o t) \o b
  BY <1>1, <1>2, <1>3
<1>5. Coming(w, q) = h \o (t \o b)
  BY <1>2, <1>4 DEF Coming, b
<1>6. Replay(s, h \o (t \o b), w.gen) = Replay(Replay(s, h, w.gen), t \o b, w.gen)
  <2>1. \A x \in Seq(Events) :
          Replay(s, h \o x, w.gen) = Replay(Replay(s, h, w.gen), x, w.gen)
    BY <1>3, ReplayParts
  <2> QED
    BY <1>4, <2>1
<1> QED
  BY <1>5, <1>6 DEF Coming, b, h, t

\* The first event is taken, and is not one that the coordinator acts on.
LEMMA TailFollows ==
  ASSUME NEW w \in Records, NEW q \in Seq(Events), q # <<>>, NEW sending \in BOOLEAN,
         NEW s \in SUBSET Codes, Follows(w, q, sending, s),
         Head(q).gen = w.gen => Head(q).type \notin {"Started", "Input"}
  PROVE  Follows(w, Tail(q), sending, s)
<1> DEFINE t == Tail(q)
           e == Head(q)
<1>1. /\ e \in Events /\ e = q[1] /\ 1 \in DOMAIN q /\ t \in Seq(Events)
      /\ \A i \in DOMAIN t : i + 1 \in DOMAIN q /\ t[i] = q[i + 1] /\ i \in Nat
      /\ \A i \in DOMAIN q : i = 1 \/ (i - 1 \in DOMAIN t /\ i \in Nat /\ t[i - 1] = q[i])
  BY TailIs
<1> HIDE DEF e, t
<1>2. Announced(w, t)
  BY <1>1 DEF Follows, Announced
<1>3. Once(w, t, sending)
  <2>1. \A i, j \in DOMAIN t : i + 1 = j + 1 => i = j
    BY <1>1
  <2> QED
    BY <1>1, <2>1 DEF Follows, Ordered, Once
<1>4. ASSUME NEW j \in DOMAIN q, IsStarted(q[j], w.gen)
      PROVE  j - 1 \in DOMAIN t /\ IsStarted(t[j - 1], w.gen) /\ j \in Nat
  BY <1>1, <1>4 DEF IsStarted, e
<1>5. ASSUME First(w, q) PROVE First(w, t)
  <2>1. ASSUME NEW i \in DOMAIN t, t[i].type = "Input", t[i].gen = w.gen
        PROVE  \E j \in DOMAIN t : j < i /\ IsStarted(t[j], w.gen)
    <3>1. PICK j \in DOMAIN q : j < i + 1 /\ IsStarted(q[j], w.gen)
      BY <1>1, <1>5, <2>1 DEF First
    <3>2. j - 1 \in DOMAIN t /\ IsStarted(t[j - 1], w.gen) /\ j - 1 < i
      BY <1>1, <1>4, <3>1
    <3> QED
      BY <3>2
  <2> QED
    BY <1>4, <1>5, <2>1 DEF First
<1>6. Mirrored(w, t, s)
  <2>1. Replay(s, <<e>>, w.gen) = s
    <3>1. <<e>> \in Seq(Events) /\ DOMAIN <<e>> = {1} /\ <<e>>[1] = e
      BY <1>1
    <3> QED
      <4>1. e.type = "Input" => e.gen # w.gen
        BY DEF e
      <4> DEFINE h == <<e>>
      <4>2. h \in Seq(Events) /\ \A i \in DOMAIN h : h[i].type = "Input" => h[i].gen # w.gen
        BY <3>1, <4>1
      <4> HIDE DEF h
      <4>3. Replay(s, h, w.gen) = s
        BY <4>2, ReplayOther
      <4> QED
        BY <4>3 DEF h
  <2>2. Replay(s, Coming(w, q), w.gen) = Replay(s, Coming(w, t), w.gen)
    BY <2>1, ComingHead DEF e, t
  <2> QED
    BY <2>2 DEF Follows, Mirrored
<1> QED
  BY <1>2, <1>3, <1>5, <1>6 DEF Follows, Ordered, t

\* An event is taken and the capture goes on.
LEMMA TakenKeeps ==
  ASSUME IInv, queue # <<>>, queue' = Tail(queue),
         UNCHANGED <<worker, generation, capture, stopping, ending>>,
         role' \in {"Local", "Sending"}, sent' \in SUBSET Codes,
         role' = "Sending" => capture /\ worker.ready, role' = "Local" => sent' = {},
         capture => Follows(worker, Tail(queue), role' = "Sending", sent')
  PROVE  IInv'
<1>1. queue \in Seq(Events) /\ Len(queue) <= QueueLimit
  BY DEF IInv, Typed
<1>2. /\ queue' \in Seq(Events) /\ Len(queue') <= Len(queue)
      /\ \A i \in DOMAIN queue' : \E j \in DOMAIN queue : queue'[i] = queue[j]
  BY <1>1, TailIs
<1>3. Len(queue') <= QueueLimit
  BY <1>1, <1>2, BoundsAssumption DEF BoundsAssumption
<1>4. Typed'
  BY <1>2, <1>3 DEF IInv, Typed
<1>5. \A i \in DOMAIN queue' : queue'[i].gen <= generation
  BY <1>2 DEF IInv, Situation
<1>6. Situation'
  BY <1>5 DEF IInv, Situation
<1> QED
  BY <1>4, <1>6 DEF IInv

LEMMA TakeSteps ==
  ASSUME IInv, TakeStale \/ TakeOther \/ TakeInputEvent \/ TakeStarted
  PROVE  IInv'
<1>1. /\ worker \in Records /\ queue \in Seq(Events) /\ sent \in SUBSET Codes
      /\ (role = "Sending") \in BOOLEAN /\ role \in {"Local", "Sending"}
      /\ role = "Sending" => capture /\ worker.ready
      /\ role = "Local" => sent = {}
      /\ capture => /\ worker.gen = generation /\ ~stopping
                    /\ Follows(worker, queue, role = "Sending", sent)
  BY DEF IInv, Typed, Situation
<1>2. queue # <<>> /\ queue' = Tail(queue)
  BY DEF TakeStale, TakeOther, TakeInputEvent, TakeStarted, Taken
<1> DEFINE e == Head(queue)
<1>3. e \in Events /\ e = queue[1] /\ 1 \in DOMAIN queue /\ \A i \in DOMAIN queue : i >= 1
  BY <1>1, <1>2, TailIs
<1> HIDE DEF e
<1>4. CASE TakeStale \/ TakeOther
  <2>1. UNCHANGED coordinator /\ worker' = worker
    BY <1>4 DEF TakeStale, TakeOther
  <2>2. capture => (e.gen = worker.gen => e.type \notin {"Started", "Input"})
    BY <1>1, <1>4 DEF TakeStale, TakeOther, Taken, Current, e
  <2>3. capture => Follows(worker, Tail(queue), role = "Sending", sent)
    BY <1>1, <1>2, <2>2, TailFollows DEF e
  <2> QED
    BY <1>1, <1>2, <2>1, <2>3, TakenKeeps DEF coordinator
<1>5. CASE TakeInputEvent
  <2> DEFINE i == e.input
  <2>1. /\ capture /\ e.gen = generation /\ e.type = "Input" /\ i \in Inputs
        /\ UNCHANGED <<worker, generation, capture, stopping, ending, role>>
    BY <1>3, <1>5 DEF TakeInputEvent, Taken, Current, e, Events
  <2>2. role = "Sending"
    <3>1. ASSUME role # "Sending" PROVE FALSE
      <4>1. First(worker, queue)
        BY <1>1, <2>1, <3>1 DEF Follows, Ordered
      <4>2. \E j \in DOMAIN queue : j < 1 /\ IsStarted(queue[j], worker.gen)
        BY <1>1, <1>3, <2>1, <4>1 DEF First
      <4>3. \A j \in DOMAIN queue : ~(j < 1)
        BY <1>1
      <4> QED
        BY <4>2, <4>3
    <3> QED
      BY <3>1
  <2>3. sent' = IF PhysicalKeyboard /\ i.code \in Keys THEN sent
                ELSE IF i.pressed THEN sent \cup {i.code} ELSE sent \ {i.code}
    BY <1>5, <2>2 DEF TakeInputEvent, e
  <2>4. i.code \in Codes /\ i.pressed \in BOOLEAN
    BY <2>1 DEF Inputs
  <2> HIDE DEF i
  <2>5. sent' \in SUBSET Codes
    BY <1>1, <2>3, <2>4
  <2> DEFINE t == Tail(queue)
             h == IF i.pressed THEN sent \cup {i.code} ELSE sent \ {i.code}
  <2>6. t \in Seq(Events) /\ \A k \in DOMAIN t : k + 1 \in DOMAIN queue /\ t[k] = queue[k + 1]
                                                 /\ k \in Nat
    BY <1>1, <1>2, TailIs
  <2> HIDE DEF t
  <2>7. Announced(worker, t)
    BY <1>1, <2>1, <2>6 DEF Follows, Announced
  <2>8. Ordered(worker, t, TRUE)
    BY <1>1, <2>1, <2>2, <2>6 DEF Follows, Ordered, Once
  <2>9. h \cap Forwarded = sent' \cap Forwarded
    BY <2>3, CodesAssumption DEF Forwarded, CodesAssumption
  <2>10. Mirrored(worker, t, sent')
    <3>1. Replay(sent, <<e>>, worker.gen) = h
      BY <1>1, <1>3, <2>1, ReplayOne DEF i
    <3>2. Replay(sent, Coming(worker, queue), worker.gen)
            = Replay(h, Coming(worker, t), worker.gen)
      BY <1>1, <1>2, <3>1, ComingHead DEF e, t
    <3>3. Replay(h, Coming(worker, t), worker.gen) \cap Forwarded
            = Replay(sent', Coming(worker, t), worker.gen) \cap Forwarded
      BY <2>9, ReplayWithin
    <3> QED
      BY <1>1, <2>1, <3>2, <3>3 DEF Follows, Mirrored
  <2>11. Follows(worker, Tail(queue), TRUE, sent')
    BY <2>7, <2>8, <2>10 DEF Follows, t
  <2>12. /\ role' = "Sending" /\ worker' = worker /\ generation' = generation
         /\ capture' = capture /\ stopping' = stopping /\ ending' = ending
    BY <2>1, <2>2
  <2> QED
    BY <1>1, <1>2, <2>2, <2>5, <2>11, <2>12, TakenKeeps
<1>6. CASE TakeStarted
  <2>1. capture /\ e.gen = generation /\ e.type = "Started"
    BY <1>6 DEF TakeStarted, Taken, Current, e
  <2>2. IsStarted(queue[1], worker.gen)
    BY <1>1, <1>3, <2>1 DEF IsStarted
  <2>3. role = "Local" /\ worker.ready /\ sent = {}
    BY <1>1, <1>3, <2>1, <2>2 DEF Follows, Ordered, Once, Announced
  <2>4. CASE Stop(role)
    <3>1. ending \in BOOLEAN
      BY DEF IInv, Typed
    <3> QED
      BY <1>1, <1>2, <2>1, <2>3, <2>4, <3>1, StopKeeps DEF Stop
  <2>5. CASE /\ role' = "Sending" /\ sent' = {}
             /\ UNCHANGED <<worker, generation, capture, stopping, ending>>
    <3> DEFINE t == Tail(queue)
    <3>1. t \in Seq(Events) /\ \A k \in DOMAIN t : k + 1 \in DOMAIN queue /\ t[k] = queue[k + 1]
                                                   /\ k \in Nat
      BY <1>1, <1>2, TailIs
    <3> HIDE DEF t
    <3>2. Announced(worker, t)
      BY <1>1, <2>1, <3>1 DEF Follows, Announced
    <3>3. \A k \in DOMAIN t : ~IsStarted(t[k], worker.gen)
      <4>1. \A k \in DOMAIN t : k + 1 # 1
        BY <3>1
      <4> QED
        BY <1>1, <1>3, <2>1, <2>2, <3>1, <4>1 DEF Follows, Ordered, Once
    <3>4. Ordered(worker, t, TRUE)
      BY <2>3, <3>3 DEF Ordered, Once
    <3>5. Mirrored(worker, t, {})
      <4> DEFINE h == <<e>>
      <4>1. h \in Seq(Events) /\ \A k \in DOMAIN h : h[k].type = "Input" => h[k].gen # worker.gen
        BY <1>3, <2>1
      <4> HIDE DEF h
      <4>2. Replay(sent, h, worker.gen) = sent
        BY <1>1, <4>1, ReplayOther
      <4>3. Replay(sent, Coming(worker, queue), worker.gen)
              = Replay(sent, Coming(worker, t), worker.gen)
        BY <1>1, <1>2, <4>2, ComingHead DEF e, t, h
      <4> QED
        BY <1>1, <2>1, <2>3, <4>3 DEF Follows, Mirrored
    <3>6. Follows(worker, Tail(queue), TRUE, {})
      BY <3>2, <3>4, <3>5 DEF Follows, t
    <3>7. /\ role' = "Sending" /\ sent' = {} /\ worker' = worker /\ generation' = generation
          /\ capture' = capture /\ stopping' = stopping /\ ending' = ending
      BY <2>5
    <3> QED
      BY <1>2, <2>1, <2>3, <3>6, <3>7, TakenKeeps
  <2> QED
    BY <1>6, <2>4, <2>5 DEF TakeStarted
<1> QED
  BY <1>4, <1>5, <1>6

LEMMA GoneIs == /\ Gone({}) \in Records /\ Owned(Gone({})) /\ Gone({}).gen = 0
                /\ Len(Gone({}).pending) <= PendingLimit
<1>1. <<>> \in Seq(Inputs) /\ Len(<<>>) <= PendingLimit
  BY BoundsAssumption DEF BoundsAssumption
<1>2. Gone({}).pending = <<>>
  BY DEF Gone, Spawned
<1> QED
  BY <1>1, <1>2 DEF Gone, Spawned, Records, Owned

LEMMA GoneTyped ==
  ASSUME worker' = Gone({}), queue' \in Seq(Events), Len(queue') <= QueueLimit,
         generation' \in Nat, generation' <= MaxGeneration, capture' \in BOOLEAN,
         stopping' \in BOOLEAN, ending' \in BOOLEAN, role' \in {"Local", "Sending"},
         sent' \in SUBSET Codes
  PROVE  Typed'
<1>1. worker' \in Records /\ Len(worker'.pending) <= PendingLimit
  BY GoneIs
<1>2. worker'.gen <= generation'
  BY GoneIs
<1> QED
  BY <1>1, <1>2 DEF Typed

LEMMA StartKeeps ==
  ASSUME IInv, Start
  PROVE  IInv'
<1> DEFINE g == generation + 1
           v == Spawned(g)
<1>1. /\ queue \in Seq(Events) /\ Len(queue) <= QueueLimit /\ generation \in Nat
      /\ generation < MaxGeneration /\ MaxGeneration \in Nat /\ PendingLimit \in Nat
      /\ ~capture /\ ~stopping /\ ~ending /\ role = "Local" /\ sent = {}
      /\ \A i \in DOMAIN queue : queue[i].gen <= generation
  BY BoundsAssumption DEF IInv, Typed, Situation, Start, Running, BoundsAssumption
<1>2. /\ worker' = v /\ generation' = g /\ capture' = TRUE
      /\ queue' = queue /\ stopping' = stopping /\ ending' = ending /\ role' = role
      /\ sent' = sent
  BY DEF Start
<1>3. /\ v \in Records /\ Owned(v) /\ v.gen = g /\ v.pending = <<>> /\ v.pressed = {}
      /\ ~v.ready
  <2>1. <<>> \in Seq(Inputs) /\ g \in Nat
    BY <1>1
  <2> HIDE DEF g
  <2> QED
    BY <2>1 DEF Spawned, Records, Owned
<1> HIDE DEF v
<1>4. \A i \in DOMAIN queue : queue[i].gen # g
  <2>1. \A i \in DOMAIN queue : queue[i].gen \in Nat
    BY <1>1 DEF Events
  <2> QED
    BY <1>1, <2>1
<1>5. g \in Nat /\ g <= MaxGeneration /\ Len(<<>>) <= PendingLimit
      /\ \A k \in Nat : k <= generation => k <= g
  BY <1>1
<1>6. Typed'
  BY <1>1, <1>2, <1>3, <1>5 DEF IInv, Typed
<1>7. Situation'
  <2>1. \A i \in DOMAIN queue : queue[i].gen <= g
    <3>1. \A i \in DOMAIN queue : queue[i].gen \in Nat
      BY <1>1 DEF Events
    <3> QED
      BY <1>1, <1>5, <3>1
  <2> HIDE DEF g
  <2> QED
    BY <1>1, <1>2, <1>3, <2>1 DEF Situation
<1>8. Follows(v, queue, FALSE, {})
  <2> HIDE DEF g
  <2>1. Announced(v, queue) /\ Ordered(v, queue, FALSE)
    BY <1>3, <1>4 DEF Announced, Ordered, Once, First, IsStarted
  <2>2. Coming(v, queue) = queue
    BY <1>1, <1>3 DEF Coming, InputsOf
  <2>3. Replay({}, queue, g) = {}
    BY <1>1, <1>4, ReplayOther
  <2> QED
    BY <1>3, <2>1, <2>2, <2>3 DEF Follows, Mirrored
<1> QED
  BY <1>1, <1>2, <1>3, <1>6, <1>7, <1>8 DEF IInv

LEMMA EndSteps ==
  ASSUME IInv, Joined \/ StopTimesOut \/ Reconnect
  PROVE  IInv'
<1>1. 0 \in Nat /\ 0 <= MaxGeneration /\ PendingLimit \in Nat /\ QueueLimit \in Nat
      /\ <<>> \in Seq(Events) /\ Len(<<>>) = 0 /\ DOMAIN <<>> = {}
      /\ Len(<<>>) <= QueueLimit /\ Len(<<>>) <= PendingLimit
  BY BoundsAssumption DEF BoundsAssumption
<1>2. CASE Joined
  <2>1. ~capture /\ worker.granted = {} /\ worker.failed \in BOOLEAN /\ ending \in BOOLEAN
        /\ role = "Local"
    BY <1>2 DEF IInv, Situation, Owned, Joined, Typed, Records
  <2>2. /\ worker' = Gone({}) /\ stopping' = FALSE /\ ending' \in BOOLEAN
        /\ queue' = queue /\ generation' = generation /\ capture' = capture /\ role' = role
        /\ sent' = sent
    BY <1>2, <2>1 DEF Joined
  <2>3. Typed'
    BY <1>1, <2>2, GoneTyped DEF IInv, Typed
  <2>4. Situation'
    BY <2>1, <2>2 DEF IInv, Situation
  <2> QED
    BY <2>1, <2>2, <2>3, <2>4, GoneIs DEF IInv
<1>3. CASE StopTimesOut
  <2>1. ~capture /\ role = "Local"
    BY <1>3 DEF IInv, Situation, StopTimesOut, Typed
  <2>2. /\ worker' = Gone({}) /\ stopping' = FALSE /\ ending' = FALSE
        /\ queue' = <<>> /\ generation' = 0 /\ capture' = capture /\ role' = role
        /\ sent' = sent
    BY <1>3 DEF StopTimesOut
  <2>3. Typed'
    BY <1>1, <2>2, GoneTyped DEF IInv, Typed
  <2>4. Situation'
    BY <1>1, <2>1, <2>2 DEF IInv, Situation
  <2> QED
    BY <2>1, <2>2, <2>3, <2>4, GoneIs DEF IInv
<1>4. CASE Reconnect
  <2>1. ~capture /\ role = "Local" /\ ~stopping /\ worker = Gone({})
    BY <1>4 DEF IInv, Situation, Reconnect, Typed
  <2>2. /\ worker' = worker /\ stopping' = stopping /\ ending' = FALSE
        /\ queue' = <<>> /\ generation' = 0 /\ capture' = capture /\ role' = role
        /\ sent' = sent
    BY <1>4 DEF Reconnect
  <2>3. Typed'
    BY <1>1, <2>1, <2>2, GoneTyped DEF IInv, Typed
  <2>4. Situation'
    BY <1>1, <2>1, <2>2 DEF IInv, Situation
  <2> QED
    BY <2>1, <2>2, <2>3, <2>4, GoneIs DEF IInv
<1> QED
  BY <1>2, <1>3, <1>4

-----------------------------------------------------------------------------
(* Theorems *)

LEMMA Initially == Init => IInv
<1> SUFFICES ASSUME Init PROVE IInv
  OBVIOUS
<1>1. 0 \in Nat /\ 0 <= MaxGeneration /\ <<>> \in Seq(Events) /\ Len(<<>>) = 0
      /\ DOMAIN <<>> = {} /\ Len(<<>>) <= QueueLimit /\ Len(<<>>) <= PendingLimit
  BY BoundsAssumption DEF BoundsAssumption
<1>2. Typed
  <2>1. worker \in Records /\ Len(worker.pending) <= PendingLimit
    BY GoneIs DEF Init
  <2>2. queue \in Seq(Events) /\ Len(queue) <= QueueLimit
    BY <1>1 DEF Init
  <2>3. generation \in Nat /\ generation <= MaxGeneration /\ worker.gen <= generation
    BY <1>1, GoneIs DEF Init
  <2>4. capture \in BOOLEAN /\ stopping \in BOOLEAN /\ ending \in BOOLEAN
        /\ role \in {"Local", "Sending"} /\ sent \in SUBSET Codes
    BY DEF Init
  <2> QED
    BY <2>1, <2>2, <2>3, <2>4 DEF Typed
<1>3. Situation
  BY <1>1 DEF Init, Situation
<1> QED
  BY <1>2, <1>3, GoneIs DEF Init, IInv

LEMMA StepKeeps == IInv /\ [Next]_vars => IInv'
<1> SUFFICES ASSUME IInv, [Next]_vars PROVE IInv'
  OBVIOUS
<1>1. CASE UNCHANGED vars
  BY <1>1 DEF vars, coordinator, IInv, Typed, Situation
<1>2. CASE RoundTrip \/ Cleanup
  BY <1>2, WatchKeeps, QuietSteps, ReportKeeps DEF RoundTrip
<1>3. CASE Compositor
  BY <1>3, QuietSteps, GrantedKeeps, ReportedKeeps DEF Compositor
<1>4. CASE Take
  BY <1>4, TakeSteps, StopSteps DEF Take
<1>5. CASE Start \/ Interrupt \/ Disconnect \/ Reconnect \/ Joined \/ StopTimesOut \/ WorkerGone
  BY <1>5, StartKeeps, StopSteps, EndSteps
<1> QED
  BY <1>1, <1>2, <1>3, <1>4, <1>5 DEF Next

\* What the other theorems rest on.
THEOREM Invariance == Spec => []IInv
<1> QED
  BY Initially, StepKeeps, PTL DEF Spec

\* The queue and the inputs held back stay within their limits, and what is
\* pressed, granted and sent within what there is.
THEOREM TypeCorrect == Spec => []TypeOK
<1>1. IInv => TypeOK
  <2> SUFFICES ASSUME IInv PROVE TypeOK
    OBVIOUS
  <2>1. worker \in Records /\ Len(worker.pending) <= PendingLimit /\ PendingLimit \in Nat
        /\ worker.gen <= generation /\ generation <= MaxGeneration /\ generation \in Nat
        /\ MaxGeneration \in Nat
    BY BoundsAssumption DEF IInv, Typed, BoundsAssumption
  <2>2. worker.gen \in 0..MaxGeneration /\ generation \in 0..MaxGeneration
    BY <2>1 DEF Records
  <2>3. worker.pending \in UNION {[1..k -> Inputs] : k \in 0..PendingLimit}
    <3>1. /\ worker.pending \in [1..Len(worker.pending) -> Inputs]
          /\ Len(worker.pending) \in 0..PendingLimit
      BY <2>1 DEF Records
    <3> QED
      BY <3>1
  <2>4. worker \in Workers
    BY <2>1, <2>2, <2>3 DEF Records, Workers
  <2> QED
    BY <2>2, <2>4 DEF IInv, Typed, TypeOK
<1> QED
  BY <1>1, Invariance, PTL

\* Local control is real: when no capture runs and none is waited for, the
\* worker has ended and the compositor grants nothing.
THEOREM InputIsReturned == Spec => []InputReturned
<1>1. IInv => InputReturned
  BY DEF IInv, Situation, InputReturned, Gone, Spawned
<1> QED
  BY <1>1, Invariance, PTL

\* A capture that reported itself ready and goes on owns pointer, keyboard and
\* shortcuts.
THEOREM CaptureIsOwned == Spec => []OwnedWhileReady
<1>1. IInv => OwnedWhileReady
  BY DEF IInv, Typed, Records, Owned, OwnedWhileReady
<1> QED
  BY <1>1, Invariance, PTL

\* A session is driven by the capture that runs.
THEOREM SessionsAreCurrent == Spec => []SessionIsCurrent
<1>1. IInv => SessionIsCurrent
  BY DEF IInv, Situation, SessionIsCurrent
<1> QED
  BY <1>1, Invariance, PTL

\* No input is lost, repeated or reordered on its way, for any codes and any
\* limits of the queue and of the inputs held back.
THEOREM InputsAreMirrored == Spec => []MirrorsCapture
<1>1. IInv => MirrorsCapture
  BY DEF IInv, Follows, Mirrored, MirrorsCapture
<1> QED
  BY <1>1, Invariance, PTL
=============================================================================
