----------------------------- MODULE LayoutProofs -----------------------------
(***************************************************************************)
(* What holds of Layout for any bounds and under any of its faults: a      *)
(* client is never told that a layout is saved when it is not, or refused  *)
(* when it is in a file; two files never come apart unnoticed; and an edit *)
(* by hand is only lost between a comparison and its rename.  Then what a  *)
(* saved layout means on both desktops (Boundaries), for every layout the  *)
(* program accepts and every size of an output: which edges are active,    *)
(* how far their strips are apart, and where the pointer enters.           *)
(***************************************************************************)
EXTENDS Layout, Boundaries, SequenceTheorems, TLAPS

-----------------------------------------------------------------------------
(* The inductive invariant *)

Mail ==
  {Prepare(t, r) : t \in Transactions, r \in Contents}
  \cup {Prepared(t, ok) : t \in Transactions, ok \in BOOLEAN}
  \cup {Commit(t) : t \in Transactions}
  \cup {Result(t, ok) : t \in Transactions, ok \in BOOLEAN}
  \cup {Abort(t) : t \in Transactions}

Values ==
  /\ file \in [Nodes -> Contents] /\ up \in [Nodes -> BOOLEAN]
  /\ seen \in [Nodes -> Contents]
  /\ pending \in [Nodes -> Pending] /\ dropped \in [Nodes -> Pending]
  /\ reply \in [Transactions ->
                  {"unasked", "waiting", "saved", "refused", "unconfirmed"}]
  /\ stuck \subseteq Nodes \X Transactions
Boxes == inbox \in [Nodes -> Seq(Mail)]

\* A token: a message that moves a layout on.
Token(n, i) == i \in DOMAIN inbox[n] /\ inbox[n][i].type # "Abort"
Tokens(n) == {inbox[n][i] : i \in {i \in DOMAIN inbox[n] : Token(n, i)}}

\* Each layout has at most one.
OneToken ==
  \A m, n \in Nodes : \A i, j \in Nat :
    Token(m, i) /\ Token(n, j) /\ inbox[m][i].id = inbox[n][j].id => m = n /\ i = j

\* A layout being saved is in the file of the side that asked once that side
\* has committed, and it was not there before.
Saving(n) ==
  LET p == pending[n] IN
  /\ p.id = 0 => p = Nothing
  /\ p.committed => p.asked
  /\ p.id # 0 => /\ up[n]
                 /\ dropped[n] = Nothing
                 /\ p.before.layout # p.id
                 /\ file[n].layout = IF p.committed THEN p.id ELSE p.before.layout
                 /\ reply[p.id] # "unasked"
  /\ p.asked => /\ reply[p.id] = "waiting"
                /\ pending[Peer(n)].id = p.id => ~pending[Peer(n)].asked

\* A layout that is being dropped is in the file, and its client has been told.
Dropping(n) ==
  LET d == dropped[n] IN
  /\ d.id = 0 => d = Nothing
  /\ d.id # 0 => /\ d.committed
                 /\ d.before.layout # d.id
                 /\ file[n].layout = d.id
                 /\ reply[d.id] \in {"refused", "unconfirmed"}

\* n has, or would restore, layout t.
Knows(n, t) ==
  file[n].layout = t \/ pending[n].before.layout = t \/ dropped[n].before.layout = t

Fresh(t) ==
  reply[t] = "unasked" =>
    \A n \in Nodes : /\ ~Knows(n, t)
                     /\ \A m \in Tokens(n) : m.id # t

\* What a token on its way to n says of both sides.
Means(n, m) ==
  LET p == Peer(n) t == m.id IN
  /\ m.type = "Prepare" =>
       /\ ~Knows(n, t) /\ ~Knows(p, t)
       /\ pending[n].id # t
       /\ pending[p].id = t => pending[p].asked
  /\ m.type = "Prepared" =>
       /\ ~Knows(n, t) /\ ~Knows(p, t)
       /\ pending[n].id = t => pending[n].asked
       /\ pending[p].id = t => ~pending[p].asked
  /\ m.type = "Commit" =>
       /\ ~Knows(n, t)
       /\ pending[n].id = t => ~pending[n].asked
       /\ \/ pending[p].id = t /\ pending[p].committed
          \/ reply[t] = "unconfirmed"
  /\ m.type = "Result" =>
       /\ pending[n].id = t /\ pending[n].asked => pending[n].committed
       /\ IF m.ok THEN ~up[p] /\ dropped[p] = Nothing /\ file[p].layout = t
                  ELSE ~Knows(p, t) /\ pending[p].id # t

\* n could not undo layout t, or has yet to.
Left(n, t) == <<n, t>> \in stuck \/ dropped[n].id = t
Refused(n, t) == reply[t] = "refused" /\ Knows(n, t) => Left(n, t)

\* The layout of n when what it is saving, or dropping, is undone, and the excuses
\* for it not to be the peer's.
Base(n) == IF pending[n].committed THEN pending[n].before.layout
           ELSE IF dropped[n].id # 0 THEN dropped[n].before.layout
           ELSE file[n].layout
Told(n) == /\ Base(n) # 0
           /\ reply[Base(n)] = "unconfirmed" \/ <<n, Base(n)>> \in stuck
Ahead(n) == /\ pending[Peer(n)].committed /\ ~up[n]
            /\ Base(n) = pending[Peer(n)].id
Together ==
  \/ \A m, n \in Nodes : Base(m) = Base(n)
  \/ \E n \in Nodes : Told(n) \/ Ahead(n)

Safe ==
  /\ \A n \in Nodes : Saving(n) /\ Dropping(n)
  /\ \A t \in Transactions : Fresh(t)
  /\ \A n \in Nodes : \A m \in Tokens(n) : Means(n, m)
  /\ \A n \in Nodes, t \in Transactions : Refused(n, t)
  /\ Together

Core == Values /\ Boxes /\ OneToken /\ Safe

\* Whether n is busy with its file, and the edits by hand.
Aside ==
  /\ made \in [Nodes -> 0..MaxEdits] /\ late \in [Nodes -> SUBSET (1..MaxEdits)]
  /\ phase \in [Nodes -> {"free", "commit", "drop", "undo"}]
Phases == \A n \in Nodes : phase[n] \in {"drop", "undo"} <=> dropped[n].id # 0

IInv == Core /\ Aside /\ Phases

-----------------------------------------------------------------------------
(* Messages *)

LEMMA PeerIn == \A n \in Nodes : /\ Peer(n) \in Nodes /\ Peer(n) # n
                                 /\ \A m \in Nodes : m = n \/ m = Peer(n)
BY NodesAssumption DEF NodesAssumption, Peer

\* What is in flight after n has handled done messages and sent out: what was,
\* without what it handled, and what it sent.
LEMMA Moved ==
  ASSUME inbox \in [Nodes -> Seq(Mail)], NEW n \in Nodes, NEW done, NEW out \in Seq(Mail),
         done \in {0, Len(inbox[n])} \/ (done = 1 /\ inbox[n] # <<>>),
         out = <<>> \/ \E m \in Mail : out = <<m>>,
         Sends(n, done, out)
  PROVE  /\ inbox' \in [Nodes -> Seq(Mail)]
         /\ inbox'[n] \in Seq(Mail) /\ done \in 0..Len(inbox[n])
         /\ \A i \in DOMAIN inbox'[n] : /\ i + done \in DOMAIN inbox[n]
                                        /\ inbox'[n][i] = inbox[n][i + done]
         /\ \A i \in DOMAIN inbox'[Peer(n)] :
              \/ /\ i \in DOMAIN inbox[Peer(n)]
                 /\ inbox'[Peer(n)][i] = inbox[Peer(n)][i]
              \/ /\ i = Len(inbox[Peer(n)]) + 1
                 /\ out = <<inbox'[Peer(n)][i]>>
<1> DEFINE p == Peer(n)
           S == inbox[n]
           Q == inbox[p]
<1>1. p \in Nodes /\ p # n /\ S \in Seq(Mail) /\ Q \in Seq(Mail)
  BY PeerIn
<1>2. done \in 0..Len(S) /\ Len(S) \in Nat
  BY <1>1, LenProperties, EmptySeq
<1>3. /\ inbox'[n] = SubSeq(S, done + 1, Len(S))
      /\ inbox'[p] = IF up[p] THEN Q \o out ELSE Q
      /\ DOMAIN inbox' = Nodes
      /\ inbox' = [inbox EXCEPT ![n] = inbox'[n], ![p] = inbox'[p]]
  BY <1>1 DEF Sends
<1>4. /\ SubSeq(S, done + 1, Len(S)) \in Seq(Mail)
      /\ DOMAIN SubSeq(S, done + 1, Len(S)) = 1..(Len(S) - done)
      /\ \A i \in 1..(Len(S) - done) : /\ i + done \in DOMAIN S
           /\ SubSeq(S, done + 1, Len(S))[i] = S[i + done]
  BY <1>1, <1>2
<1>5. Q \o out \in Seq(Mail)
  BY <1>1
<1>6. \A i \in DOMAIN (Q \o out) :
        \/ i \in DOMAIN Q /\ (Q \o out)[i] = Q[i]
        \/ i = Len(Q) + 1 /\ out = <<(Q \o out)[i]>>
  BY <1>1
<1>7. inbox' \in [Nodes -> Seq(Mail)]
  BY <1>1, <1>3, <1>4, <1>5
<1> QED
  BY <1>1, <1>2, <1>3, <1>4, <1>6, <1>7

\* A layout's token moves with the message that carries it: it is taken from
\* the head of an inbox, or the layout had none.
Takes(n, done, t) == done # 0 /\ Token(n, 1) /\ inbox[n][1].id = t
Untold(t) == \A n \in Nodes : \A m \in Tokens(n) : m.id # t

LEMMA TokenFlow ==
  ASSUME inbox \in [Nodes -> Seq(Mail)], OneToken, NEW n \in Nodes,
         NEW done, NEW out \in Seq(Mail),
         done \in {0, Len(inbox[n])} \/ (done = 1 /\ inbox[n] # <<>>),
         out = <<>> \/ \E m \in Mail : out = <<m>>,
         \A m : out = <<m>> =>
           m.type = "Abort" \/ Takes(n, done, m.id) \/ Untold(m.id),
         Sends(n, done, out)
  PROVE  /\ inbox' \in [Nodes -> Seq(Mail)] /\ OneToken'
         /\ \A q \in Nodes : \A m \in Tokens(q)' :
              \/ m \in Tokens(q) /\ ~Takes(n, done, m.id)
              \/ q = Peer(n) /\ out = <<m>> /\ m.type # "Abort"
<1> DEFINE p == Peer(n)
<1>1. p \in Nodes /\ p # n /\ \A q \in Nodes : q = n \/ q = p
  BY PeerIn
<1>2. /\ inbox' \in [Nodes -> Seq(Mail)]
      /\ done \in 0..Len(inbox[n])
      /\ \A i \in DOMAIN inbox'[n] : /\ i + done \in DOMAIN inbox[n]
                                     /\ inbox'[n][i] = inbox[n][i + done]
      /\ \A i \in DOMAIN inbox'[p] :
           \/ i \in DOMAIN inbox[p] /\ inbox'[p][i] = inbox[p][i]
           \/ i = Len(inbox[p]) + 1 /\ out = <<inbox'[p][i]>>
  BY Moved
<1>3. \A q \in Nodes : /\ Len(inbox[q]) \in Nat
                       /\ DOMAIN inbox[q] = 1..Len(inbox[q])
                       /\ DOMAIN inbox'[q] \subseteq Nat \ {0}
  BY <1>2, LenProperties
<1> DEFINE Old(q, i, j) == /\ j \in Nat /\ Token(q, j) /\ inbox'[q][i] = inbox[q][j]
                           /\ ~Takes(n, done, inbox[q][j].id)
                           /\ j = IF q = n THEN i + done ELSE i
           New(q, i) == /\ q = p /\ i = Len(inbox[p]) + 1 /\ out = <<inbox'[q][i]>>
<1>4. ASSUME NEW q \in Nodes, NEW i \in Nat, Token(q, i)'
      PROVE  (\E j : Old(q, i, j)) \/ New(q, i)
  <2>1. i \in DOMAIN inbox'[q] /\ inbox'[q][i].type # "Abort" /\ i # 0
    BY <1>4, <1>3 DEF Token
  <2>2. CASE q = n
    <3>1. Token(n, i + done) /\ inbox'[n][i] = inbox[n][i + done] /\ i + done \in Nat
      BY <2>1, <2>2, <1>2 DEF Token
    <3>2. done # 0 => i + done # 1
      BY <2>1, <1>2
    <3>3. ~Takes(n, done, inbox[n][i + done].id)
      BY <3>1, <3>2 DEF Takes, OneToken
    <3> QED
      BY <2>2, <3>1, <3>3
  <2>3. CASE q = p
    <3>1. CASE i \in DOMAIN inbox[p] /\ inbox'[p][i] = inbox[p][i]
      <4>1. Token(p, i)
        BY <3>1, <2>1, <2>3 DEF Token
      <4>2. ~Takes(n, done, inbox[p][i].id)
        BY <4>1, <1>1 DEF Takes, OneToken
      <4> QED
        BY <4>1, <4>2, <3>1, <2>3, <1>1
    <3> QED
      BY <3>1, <2>1, <2>3, <1>2
  <2> QED
    BY <2>2, <2>3, <1>1
<1>5. OneToken'
  <2> SUFFICES ASSUME NEW q \in Nodes, NEW r \in Nodes, NEW i \in Nat, NEW j \in Nat,
                      Token(q, i)', Token(r, j)', inbox'[q][i].id = inbox'[r][j].id
               PROVE  q = r /\ i = j
    BY DEF OneToken
  <2>1. \A m : out = <<m>> /\ m.type # "Abort" => Takes(n, done, m.id) \/ Untold(m.id)
    OBVIOUS
  <2>2. inbox'[q][i].type # "Abort" /\ inbox'[r][j].type # "Abort"
    BY DEF Token
  <2>3. ASSUME NEW k, NEW u \in Nodes, NEW v \in Nodes, NEW x \in Nat, NEW y \in Nat,
               Old(u, x, k), New(v, y), inbox'[u][x].id = inbox'[v][y].id,
               inbox'[v][y].type # "Abort"
        PROVE  FALSE
    <3>1. inbox[u][k] \in Tokens(u)
      BY <2>3 DEF Tokens, Token
    <3> QED
      BY <2>1, <2>3, <3>1 DEF Untold
  <2>4. CASE New(q, i) /\ New(r, j)
    BY <2>4
  <2>5. CASE (\E k : Old(q, i, k)) /\ (\E l : Old(r, j, l))
    <3>1. PICK k : Old(q, i, k)
      BY <2>5
    <3>2. PICK l : Old(r, j, l)
      BY <2>5
    <3>3. q = r /\ k = l
      BY <3>1, <3>2 DEF OneToken
    <3> QED
      BY <3>1, <3>2, <3>3, <1>2
  <2> QED
    BY <1>4, <2>2, <2>3, <2>4, <2>5
<1>6. ASSUME NEW q \in Nodes, NEW m \in Tokens(q)'
      PROVE  \/ m \in Tokens(q) /\ ~Takes(n, done, m.id)
             \/ q = p /\ out = <<m>> /\ m.type # "Abort"
  <2>1. PICK i : Token(q, i)' /\ m = inbox'[q][i]
    BY DEF Tokens
  <2>2. i \in Nat
    BY <2>1, <1>3 DEF Token
  <2>3. CASE \E j : Old(q, i, j)
    BY <2>1, <2>3 DEF Tokens, Token
  <2>4. CASE New(q, i)
    BY <2>1, <2>4 DEF Token
  <2> QED
    BY <1>4, <2>1, <2>2, <2>3, <2>4
<1> QED
  BY <1>2, <1>5, <1>6

-----------------------------------------------------------------------------
(* Giving up *)

LEMMA Fields ==
  /\ \A c \in Contents : c.layout \in Nat /\ c.edits \subseteq 1..MaxEdits
  /\ \A p \in Pending : /\ p.id = 0 \/ p.id \in Transactions
                        /\ p.asked \in BOOLEAN /\ p.committed \in BOOLEAN
                        /\ p.before \in Contents
  /\ Nothing \in Pending /\ ~Nothing.asked /\ ~Nothing.committed
  /\ Nothing.id = 0 /\ Nothing.before = Initial /\ Initial.layout = 0
  /\ Initial \in Contents
  /\ \A t \in Transactions : t \in Nat /\ t # 0
<1>1. MaxTransactions \in Nat /\ MaxEdits \in Nat
  BY BoundsAssumption DEF BoundsAssumption
<1> QED
  BY <1>1 DEF Contents, Pending, Nothing, Initial, Transactions

LEMMA MailFields ==
  \A m \in Mail : m.id \in Transactions
BY DEF Mail, Prepare, Prepared, Commit, Result, Abort

LEMMA BaseIn ==
  ASSUME Values, NEW q \in Nodes
  PROVE  Base(q) = 0 \/ Base(q) \in Transactions
<1>1. \A c \in Contents : c.layout = 0 \/ c.layout \in Transactions
  BY BoundsAssumption DEF BoundsAssumption, Contents, Transactions
<1> QED
  BY <1>1, Fields DEF Values, Base

\* n gives up what it was saving: it will drop a commit, or is stuck with it.
GivesUp(n) ==
  /\ pending' = [pending EXCEPT ![n] = Nothing]
  /\ \/ /\ pending[n].committed /\ UNCHANGED stuck
        /\ dropped' = [dropped EXCEPT ![n] = pending[n]]
     \/ /\ pending[n].committed /\ UNCHANGED dropped
        /\ stuck' = stuck \cup {<<n, pending[n].id>>}
     \/ ~pending[n].committed /\ UNCHANGED <<dropped, stuck>>

\* ... and tells its client so, who is not told that it is refused while there
\* may be a commit at the peer.
Tells(n, r) ==
  /\ reply' = IF pending[n].asked THEN [reply EXCEPT ![pending[n].id] = r] ELSE reply
  /\ \/ r = "unconfirmed"
     \/ /\ r = "refused" /\ pending[n].asked /\ ~Knows(Peer(n), pending[n].id)
        /\ \A q \in Nodes : \A m \in Tokens(q)' : m.id # pending[n].id

\* A message in flight was so before, or is one that may be.
May(q, m) ==
  m \in Mail /\ (m \in Tokens(q) \/ (Means(q, m)' /\ reply[m.id] # "unasked"))

LEMMA GivesUpSafe ==
  ASSUME Values, Safe, NEW n \in Nodes, NEW r, GivesUp(n), Tells(n, r), UNCHANGED file,
         up' = up \/ up' = [up EXCEPT ![n] = FALSE],
         \A q \in Nodes : \A m \in Tokens(q)' : May(q, m)
  PROVE  Safe'
<1> DEFINE p == Peer(n)
           o == pending[n]
<1>1. p \in Nodes /\ p # n /\ Peer(p) = n /\ \A q \in Nodes : q = n \/ q = p
  BY PeerIn
<1>2. /\ file[n] \in Contents /\ file[p] \in Contents
      /\ o \in Pending /\ pending[p] \in Pending
      /\ DOMAIN dropped = Nodes /\ DOMAIN pending = Nodes /\ DOMAIN reply = Transactions
      /\ DOMAIN up = Nodes /\ up[n] \in BOOLEAN /\ up[p] \in BOOLEAN
  BY <1>1 DEF Values
<1>3. /\ pending'[n] = Nothing /\ pending'[p] = pending[p] /\ file' = file
      /\ dropped'[p] = dropped[p]
      /\ up'[p] = up[p] /\ (~up[n] => ~up'[n])
      /\ \/ dropped'[n] = o /\ o.committed /\ stuck' = stuck
         \/ dropped'[n] = dropped[n] /\ o.committed /\ stuck' = stuck \cup {<<n, o.id>>}
         \/ dropped'[n] = dropped[n] /\ ~o.committed /\ stuck' = stuck
  BY <1>1, <1>2 DEF GivesUp
<1>4. /\ o.committed => o.asked
      /\ o.asked => o.id \in Transactions /\ reply[o.id] = "waiting"
      /\ o.id # 0 => /\ o.before.layout # o.id /\ dropped[n] = Nothing
                     /\ file[n].layout = IF o.committed THEN o.id ELSE o.before.layout
  BY <1>1, <1>2, Fields DEF Safe, Saving
<1>5. \A t \in Transactions : reply'[t] = IF o.asked /\ t = o.id THEN r ELSE reply[t]
  BY <1>2, <1>4 DEF Tells
<1>6. r \in {"unconfirmed", "refused"}
  BY DEF Tells
<1>7. \A t \in Transactions : /\ Knows(n, t)' => Knows(n, t)
                              /\ Knows(p, t)' <=> Knows(p, t)
  BY <1>3, Fields DEF Knows
<1>8. \A q \in Nodes : Saving(q)' /\ Dropping(q)'
  <2>1. Saving(n)'
    BY <1>1, <1>3, Fields DEF Saving
  <2>2. Saving(p)
    BY <1>1 DEF Safe
  <2>3. pending[p].asked => pending[p].id \in Transactions
    BY <1>2, <2>2, Fields DEF Saving
  <2>4. o.asked /\ pending[p].id = o.id => ~pending[p].asked
    BY <1>1 DEF Safe, Saving
  <2>5. pending[p].id \in Transactions =>
          reply'[pending[p].id] = IF o.asked /\ pending[p].id = o.id THEN r
                                  ELSE reply[pending[p].id]
    BY <1>5
  <2>6. pending[p].id = 0 \/ pending[p].id \in Transactions
    BY <1>2, Fields
  <2>7. Saving(p)'
    BY <1>1, <1>3, <1>6, <2>2, <2>3, <2>4, <2>5, <2>6, Fields DEF Saving
  <2>8. ASSUME NEW q \in Nodes, dropped'[q] = dropped[q]
        PROVE  Dropping(q)'
    <3>1. Dropping(q) /\ (dropped[q].id = 0 \/ dropped[q].id \in Transactions)
      BY Fields DEF Safe, Values
    <3>2. o.asked /\ dropped[q].id # 0 => dropped[q].id # o.id
      BY <3>1, <1>4 DEF Dropping
    <3>3. dropped[q].id # 0 => reply'[dropped[q].id] = reply[dropped[q].id]
      BY <3>1, <3>2, <1>5
    <3> QED
      BY <3>1, <3>3, <2>8, <1>3 DEF Dropping
  <2>9. ASSUME dropped'[n] = o, o.committed
        PROVE  Dropping(n)'
    BY <2>9, <1>3, <1>4, <1>5, <1>6, Fields DEF Dropping
  <2> QED
    BY <1>1, <1>3, <2>1, <2>7, <2>8, <2>9
<1>9. \A t \in Transactions : Fresh(t)'
  <2> SUFFICES ASSUME NEW t \in Transactions, reply'[t] = "unasked"
               PROVE  \A q \in Nodes : ~Knows(q, t)' /\ \A m \in Tokens(q)' : m.id # t
    BY DEF Fresh
  <2>1. reply[t] = "unasked"
    BY <1>4, <1>5, <1>6
  <2> QED
    BY <2>1, <1>1, <1>7 DEF Safe, Fresh, May
<1>10. ASSUME NEW q \in Nodes, NEW m \in Tokens(q)', m \in Tokens(q)
       PROVE  Means(q, m)'
  <2>1. Means(q, m) /\ m.id \in Transactions
    BY <1>10, MailFields DEF Safe, May
  <2>2. o.asked /\ o.id = m.id => r = "unconfirmed"
    BY <1>10 DEF Tells
  <2>3. pending'[n].id # m.id /\ ~pending'[n].committed
    BY <1>3, <2>1, Fields
  <2>4. CASE q = n
    <3>1. reply[m.id] = "unconfirmed" => reply'[m.id] = "unconfirmed"
      BY <2>1, <1>4, <1>5
    <3> QED
      BY <2>1, <2>2, <2>3, <2>4, <3>1, <1>1, <1>3, <1>7 DEF Means
  <2>5. CASE q = p
    <3>1. reply[m.id] = "unconfirmed" => reply'[m.id] = "unconfirmed"
      BY <2>1, <1>4, <1>5
    <3>2. o.id = m.id /\ o.committed => reply'[m.id] = "unconfirmed"
      BY <2>1, <2>2, <1>4, <1>5
    <3>3. m.type = "Result" /\ m.ok
            => ~up'[n] /\ dropped'[n] = Nothing /\ file'[n].layout = m.id
      <4> SUFFICES ASSUME m.type = "Result", m.ok
                   PROVE  ~up'[n] /\ dropped'[n] = Nothing /\ file'[n].layout = m.id
        OBVIOUS
      <4>1. ~up[n] /\ dropped[n] = Nothing /\ file[n].layout = m.id
        BY <2>1, <2>5, <1>1 DEF Means
      <4>2. o.id = 0
        BY <4>1, <1>1 DEF Safe, Saving
      <4>3. ~o.committed
        BY <4>2, <1>4, Fields
      <4> QED
        BY <4>1, <4>3, <1>3
    <3> QED
      BY <2>1, <2>2, <2>3, <2>5, <3>1, <3>2, <3>3, <1>1, <1>3, <1>7 DEF Means
  <2> QED
    BY <1>1, <2>4, <2>5
<1>11. ASSUME NEW q \in Nodes, NEW t \in Transactions
       PROVE  Refused(q, t)'
  <2> SUFFICES ASSUME reply'[t] = "refused", Knows(q, t)'
               PROVE  Left(q, t)'
    BY DEF Refused
  <2>1. CASE o.asked /\ t = o.id
    <3>1. r = "refused" /\ ~Knows(p, t)
      BY <2>1, <1>5 DEF Tells
    <3>2. q = n
      BY <3>1, <1>1, <1>7
    <3>3. file[n].layout = t /\ o.committed
      BY <2>1, <3>2, <1>3, <1>4, Fields DEF Knows
    <3> QED
      BY <2>1, <3>2, <3>3, <1>3 DEF Left
  <2>2. CASE ~(o.asked /\ t = o.id)
    <3>1. reply[t] = "refused" /\ Knows(q, t)
      BY <2>2, <1>1, <1>5, <1>7
    <3>2. Left(q, t)
      BY <3>1 DEF Safe, Refused
    <3>3. o.committed => o.id # 0 /\ dropped[n].id = 0
      BY <1>4, Fields
    <3> QED
      BY <3>2, <3>3, <1>1, <1>3, Fields DEF Left
  <2> QED
    BY <2>1, <2>2
<1>12. Together'
  <2>1. /\ Base(p)' = Base(p)
        /\ \/ Base(n)' = Base(n)
           \/ o.committed /\ Base(n)' = o.id /\ <<n, o.id>> \in stuck'
    BY <1>3, <1>4, Fields DEF Base
  <2>0. \A q \in Nodes : Base(q) = 0 \/ Base(q) \in Transactions
    BY BaseIn
  <2>2. ASSUME Told(p)
        PROVE  Told(p)'
    BY <2>0, <2>1, <2>2, <1>1, <1>3, <1>4, <1>5 DEF Told
  <2>3. ASSUME Told(n), Base(n)' = Base(n)
        PROVE  Told(n)'
    BY <2>0, <2>1, <2>3, <1>3, <1>4, <1>5 DEF Told
  <2>4. ASSUME Ahead(p)
        PROVE  Told(p)'
    <3>1. o.committed /\ Base(p) = o.id
      BY <2>4, <1>1 DEF Ahead
    <3>2. Knows(p, o.id)
      BY <3>1 DEF Base, Knows
    <3>3. r = "unconfirmed"
      BY <3>2 DEF Tells
    <3> QED
      BY <2>1, <3>1, <3>3, <1>4, <1>5, Fields DEF Told
  <2>5. ASSUME Ahead(n)
        PROVE  Ahead(n)'
    <3>1. ~up[n] /\ pending[p].committed /\ Base(n) = pending[p].id
      BY <2>5 DEF Ahead
    <3>2. ~o.committed
      BY <3>1, <1>1, <1>4, Fields DEF Safe, Saving
    <3> QED
      BY <2>1, <3>1, <3>2, <1>1, <1>3 DEF Ahead
  <2>6. ASSUME Base(n)' # Base(n)
        PROVE  Told(n)'
    BY <2>1, <2>6, <1>4, Fields DEF Told
  <2>7. (\A q1, q2 \in Nodes : Base(q1) = Base(q2)) \/ Told(n) \/ Told(p) \/ Ahead(n) \/ Ahead(p)
    BY <1>1 DEF Safe, Together
  <2>8. CASE (\A q1, q2 \in Nodes : Base(q1) = Base(q2)) /\ Base(n)' = Base(n)
    <3>1. \A q1, q2 \in Nodes : Base(q1)' = Base(q2)'
      BY <2>1, <2>8, <1>1
    <3> QED
      BY <3>1 DEF Together
  <2> QED
    BY <2>2, <2>3, <2>4, <2>5, <2>6, <2>7, <2>8, <1>1 DEF Together
<1> QED
  BY <1>8, <1>9, <1>10, <1>11, <1>12 DEF Safe, May

-----------------------------------------------------------------------------
(* The other ways in which what is saved may change *)

\* Nothing but edits by hand and messages changes, or the pair connects.
LEMMA SameSafe ==
  ASSUME Values, Safe, UNCHANGED <<pending, dropped, reply, stuck>>,
         \A q \in Nodes : file'[q].layout = file[q].layout,
         UNCHANGED up \/ \A q \in Nodes : ~up[q] /\ up'[q] /\ Tokens(q)' = {},
         \A q \in Nodes : \A m \in Tokens(q)' : May(q, m)
  PROVE  Safe'
<1>1. \A q \in Nodes : \A t \in Transactions : Knows(q, t)' <=> Knows(q, t)
  BY DEF Knows
<1>2. \A q \in Nodes : pending[q].id # 0 => up'[q]
  BY DEF Safe, Saving
<1>3. \A q \in Nodes : Saving(q)' /\ Dropping(q)'
  BY <1>2 DEF Safe, Saving, Dropping
<1>4. \A t \in Transactions : Fresh(t)'
  <2> SUFFICES ASSUME NEW t \in Transactions, reply[t] = "unasked"
               PROVE  \A q \in Nodes : ~Knows(q, t)' /\ \A m \in Tokens(q)' : m.id # t
    BY DEF Fresh
  <2> QED
    BY <1>1 DEF Safe, Fresh, May
<1>5. ASSUME NEW q \in Nodes, NEW m \in Tokens(q)', m \in Tokens(q)
      PROVE  Means(q, m)'
  <2>1. UNCHANGED up /\ Means(q, m) /\ m.id \in Transactions /\ Peer(q) \in Nodes
    BY <1>5, PeerIn, MailFields DEF Safe, May
  <2> QED
    BY <2>1, <1>1 DEF Means
<1>6. \A q \in Nodes, t \in Transactions : Refused(q, t)'
  BY <1>1 DEF Safe, Refused, Left
<1>7. Together'
  <2>1. \A q \in Nodes : Base(q)' = Base(q)
    BY DEF Base
  <2>2. \A q \in Nodes : Told(q)' <=> Told(q)
    BY <2>1 DEF Told
  <2>3. ASSUME NEW q \in Nodes, Ahead(q)
        PROVE  Ahead(q)'
    <3>1. Peer(q) \in Nodes /\ pending[Peer(q)].committed
      BY <2>3, PeerIn DEF Ahead
    <3>2. up[Peer(q)]
      BY <3>1, Fields DEF Safe, Saving
    <3> QED
      BY <2>1, <2>3, <3>1, <3>2 DEF Ahead
  <2> QED
    BY <2>1, <2>2, <2>3 DEF Safe, Together
<1> QED
  BY <1>3, <1>4, <1>5, <1>6, <1>7 DEF Safe, May

\* n undoes what it dropped, or has to leave it.
LEMMA DroppedSafe ==
  ASSUME Values, Safe, NEW n \in Nodes, dropped[n].id # 0,
         dropped' = [dropped EXCEPT ![n] = Nothing], UNCHANGED <<pending, reply>>,
         \/ UNCHANGED stuck /\ file' = [file EXCEPT ![n] = dropped[n].before]
         \/ UNCHANGED file /\ stuck' = stuck \cup {<<n, dropped[n].id>>},
         up' = up \/ up' = [up EXCEPT ![n] = FALSE],
         \A q \in Nodes : \A m \in Tokens(q)' : May(q, m) /\ m \in Tokens(q)
  PROVE  Safe'
<1> DEFINE p == Peer(n)
           d == dropped[n]
<1>1. p \in Nodes /\ p # n /\ Peer(p) = n /\ \A q \in Nodes : q = n \/ q = p
  BY PeerIn
<1>2. /\ d \in Pending /\ d.id \in Transactions /\ d.before.layout # d.id
      /\ file[n].layout = d.id /\ pending[n] = Nothing
  <2>1. Saving(n) /\ Dropping(n) /\ d \in Pending
    BY DEF Safe, Values
  <2> QED
    BY <2>1, Fields DEF Saving, Dropping
<1>3. /\ dropped'[n] = Nothing /\ dropped'[p] = dropped[p] /\ file'[p] = file[p]
      /\ up'[p] = up[p] /\ (~up[n] => ~up'[n])
      /\ \/ file'[n] = d.before /\ stuck' = stuck
         \/ file'[n] = file[n] /\ stuck' = stuck \cup {<<n, d.id>>}
  BY <1>1 DEF Values
<1>4. \A t \in Transactions : /\ Knows(n, t)' => Knows(n, t)
                              /\ Knows(p, t)' <=> Knows(p, t)
  BY <1>2, <1>3, Fields DEF Knows
<1>5. \A q \in Nodes : Saving(q)' /\ Dropping(q)'
  <2>1. Saving(n)' /\ Dropping(n)'
    BY <1>2, <1>3, Fields DEF Saving, Dropping
  <2>2. Saving(p) /\ Dropping(p)
    BY <1>1 DEF Safe
  <2>3. Saving(p)' /\ Dropping(p)'
    BY <1>1, <1>2, <1>3, <2>2 DEF Saving, Dropping
  <2> QED
    BY <1>1, <2>1, <2>3
<1>6. \A t \in Transactions : Fresh(t)'
  BY <1>1, <1>4 DEF Safe, Fresh
<1>7. ASSUME NEW q \in Nodes, NEW m \in Tokens(q)'
      PROVE  Means(q, m)'
  <2>1. Means(q, m) /\ m.id \in Transactions
    BY MailFields DEF Safe, May
  <2>2. CASE q = n
    BY <2>1, <2>2, <1>1, <1>3, <1>4 DEF Means
  <2>3. CASE q = p
    <3>1. dropped[n] # Nothing
      BY Fields
    <3> QED
      BY <2>1, <2>3, <3>1, <1>1, <1>3, <1>4 DEF Means
  <2> QED
    BY <1>1, <2>2, <2>3
<1>8. ASSUME NEW q \in Nodes, NEW t \in Transactions
      PROVE  Refused(q, t)'
  <2> SUFFICES ASSUME reply[t] = "refused", Knows(q, t)'
               PROVE  Left(q, t)'
    BY DEF Refused
  <2>1. Left(q, t)
    BY <1>1, <1>4 DEF Safe, Refused
  <2>2. CASE q = p
    BY <2>1, <2>2, <1>3 DEF Left
  <2>3. CASE q = n
    <3>1. file'[n].layout = t
      BY <2>3, <1>2, <1>3, Fields DEF Knows
    <3> QED
      BY <2>1, <2>3, <3>1, <1>2, <1>3 DEF Left
  <2> QED
    BY <1>1, <2>2, <2>3
<1>9. Together'
  <2>1. /\ Base(p)' = Base(p)
        /\ \/ Base(n)' = Base(n)
           \/ Base(n)' = d.id /\ <<n, d.id>> \in stuck'
    BY <1>2, <1>3, Fields DEF Base
  <2>2. CASE Base(n)' # Base(n)
    BY <2>1, <2>2, <1>2, Fields DEF Told, Together
  <2>3. CASE Base(n)' = Base(n)
    <3>1. \A q \in Nodes : Base(q)' = Base(q)
      BY <1>1, <2>1, <2>3
    <3>2. \A q \in Nodes : Told(q) => Told(q)'
      BY <1>1, <1>3, <3>1 DEF Told
    <3>3. ~Ahead(p)
      BY <1>1, <1>2, Fields DEF Ahead
    <3>4. Ahead(n) => Ahead(n)'
      BY <1>1, <1>3, <3>1 DEF Ahead
    <3> QED
      BY <1>1, <3>1, <3>2, <3>3, <3>4 DEF Safe, Together
  <2> QED
    BY <2>2, <2>3
<1> QED
  BY <1>5, <1>6, <1>7, <1>8, <1>9 DEF Safe

\* A token of another layout stays, and t's new one is what it should be.
Hands(t) ==
  \A q \in Nodes : \A m \in Tokens(q)' :
    \/ m \in Mail /\ m \in Tokens(q) /\ m.id # t
    \/ Means(q, m)' /\ m.id = t

\* n prepares layout t, asked for by its client or by the peer.
LEMMA BeginsSafe ==
  ASSUME Values, Safe, NEW n \in Nodes, NEW t \in Transactions, NEW asked \in BOOLEAN,
         up[n], pending[n] = Nothing, dropped[n] = Nothing,
         UNCHANGED <<file, dropped, up, stuck>>,
         pending' = [pending EXCEPT ![n] = [id |-> t, asked |-> asked,
                                            before |-> file[n], committed |-> FALSE]],
         IF asked THEN reply[t] = "unasked" /\ reply' = [reply EXCEPT ![t] = "waiting"]
                  ELSE reply[t] # "unasked" /\ UNCHANGED reply,
         \A q \in Nodes : ~Knows(q, t), Hands(t)
  PROVE  Safe'
<1> DEFINE p == Peer(n)
           o == [id |-> t, asked |-> asked, before |-> file[n], committed |-> FALSE]
<1>1. p \in Nodes /\ p # n /\ Peer(p) = n /\ \A q \in Nodes : q = n \/ q = p
  BY PeerIn
<1>2. /\ file[n] \in Contents /\ file[p] \in Contents /\ pending[p] \in Pending
      /\ DOMAIN pending = Nodes /\ DOMAIN reply = Transactions
  BY <1>1 DEF Values
<1>3. /\ pending'[n].id = t /\ pending'[n].asked = asked /\ ~pending'[n].committed
      /\ pending'[n].before = file[n] /\ pending'[p] = pending[p] /\ pending'[n] # Nothing
  BY <1>1, <1>2, Fields
<1>4. \A u \in Transactions :
        /\ reply'[u] = IF asked /\ u = t THEN "waiting" ELSE reply[u]
        /\ reply'[u] = "unasked" => u # t /\ reply[u] = "unasked"
  BY <1>2
<1>5. \A q \in Nodes, u \in Transactions : Knows(q, u)' => Knows(q, u)
  BY <1>1, <1>3 DEF Knows
<1>6. file[n].layout # t /\ t # 0 /\ ~Nothing.committed /\ ~Nothing.asked /\ Nothing.id = 0
  BY Fields DEF Knows
<1>7. Saving(p) /\ (pending[p].id = 0 \/ pending[p].id \in Transactions)
  BY <1>1, <1>2, Fields DEF Safe
<1>8. asked => pending[p].id # t
  BY <1>6, <1>7 DEF Saving
<1>9. \A q \in Nodes : Saving(q)' /\ Dropping(q)'
  <2>1. reply'[t] # "unasked" /\ (asked => reply'[t] = "waiting")
    BY <1>4
  <2>2. Saving(n)'
    BY <1>1, <1>3, <1>6, <1>8, <2>1 DEF Saving
  <2>3. /\ pending[p].id # 0 => reply'[pending[p].id] # "unasked"
        /\ pending[p].asked => reply'[pending[p].id] = "waiting"
    BY <1>4, <1>6, <1>7, <1>8, Fields DEF Saving
  <2>4. Saving(p)'
    BY <1>1, <1>3, <1>6, <1>7, <1>8, <2>3 DEF Saving
  <2>5. \A q \in Nodes : Dropping(q)'
    <3> SUFFICES ASSUME NEW q \in Nodes
                 PROVE  Dropping(q)'
      OBVIOUS
    <3>1. Dropping(q) /\ (dropped[q].id = 0 \/ dropped[q].id \in Transactions)
      BY Fields DEF Safe, Values
    <3>2. dropped[q].id # 0 => reply'[dropped[q].id] = reply[dropped[q].id]
      BY <3>1, <1>4 DEF Dropping
    <3> QED
      BY <3>1, <3>2 DEF Dropping
  <2> QED
    BY <1>1, <2>2, <2>4, <2>5
<1>10. \A u \in Transactions : Fresh(u)'
  <2> SUFFICES ASSUME NEW u \in Transactions, reply'[u] = "unasked"
               PROVE  \A q \in Nodes : ~Knows(q, u)' /\ \A m \in Tokens(q)' : m.id # u
    BY DEF Fresh
  <2> QED
    BY <1>4, <1>5 DEF Safe, Fresh, Hands
<1>11. ASSUME NEW q \in Nodes, NEW m \in Tokens(q)', m \in Mail, m \in Tokens(q), m.id # t
       PROVE  Means(q, m)'
  <2>1. Means(q, m) /\ m.id \in Transactions /\ reply'[m.id] = reply[m.id]
    BY <1>4, <1>11, MailFields DEF Safe
  <2>2. Knows(q, m.id)' => Knows(q, m.id)
    BY <1>5, <2>1
  <2>3. Knows(Peer(q), m.id)' => Knows(Peer(q), m.id)
    BY <1>1, <1>5, <2>1
  <2>4. CASE q = n
    BY <2>1, <2>2, <2>3, <2>4, <1>1, <1>3, <1>6, <1>11 DEF Means
  <2>5. CASE q = p
    BY <2>1, <2>2, <2>3, <2>5, <1>1, <1>3, <1>6, <1>11 DEF Means
  <2> QED
    BY <1>1, <2>4, <2>5
<1>12. \A q \in Nodes, u \in Transactions : Refused(q, u)'
  BY <1>4, <1>5 DEF Safe, Refused, Left
<1>13. Together'
  <2>1. \A q \in Nodes : Base(q)' = Base(q)
    BY <1>1, <1>3, <1>6 DEF Base
  <2>2. ASSUME NEW q \in Nodes, Told(q)
        PROVE  Told(q)'
    <3>1. Base(q) \in Transactions
      BY <2>2, BaseIn DEF Told
    <3> QED
      BY <2>1, <2>2, <3>1, <1>4 DEF Told
  <2>3. \A q \in Nodes : Ahead(q) => q # n /\ q # p
    BY <1>1, <1>6 DEF Ahead
  <2> QED
    BY <1>1, <2>1, <2>2, <2>3 DEF Safe, Together
<1> QED
  BY <1>9, <1>10, <1>11, <1>12, <1>13 DEF Safe, Hands

\* The side that asked commits.
LEMMA CommitsHereSafe ==
  ASSUME Values, Safe, NEW n \in Nodes, NEW t \in Transactions,
         pending[n].id = t, pending[n].asked, \A q \in Nodes : ~Knows(q, t),
         file' = [file EXCEPT ![n] = After(pending[n])],
         pending' = [pending EXCEPT ![n].committed = TRUE],
         UNCHANGED <<up, dropped, reply, stuck>>, Hands(t)
  PROVE  Safe'
<1> DEFINE p == Peer(n)
           o == pending[n]
<1>1. p \in Nodes /\ p # n /\ Peer(p) = n /\ \A q \in Nodes : q = n \/ q = p
  BY PeerIn
<1>2. /\ file[n] \in Contents /\ file[p] \in Contents
      /\ o \in Pending /\ pending[p] \in Pending
      /\ DOMAIN file = Nodes /\ DOMAIN pending = Nodes /\ t # 0
  BY <1>1, Fields DEF Values
<1>3. After(o).layout = t
  BY <1>2 DEF After, Pending, Contents
<1>4. /\ pending'[n].id = t /\ pending'[n].asked /\ pending'[n].committed
      /\ pending'[n].before = o.before /\ pending'[p] = pending[p]
      /\ file'[n].layout = t /\ file'[p] = file[p]
  BY <1>1, <1>2, <1>3 DEF Pending
<1>5. /\ Saving(n) /\ Saving(p) /\ up[n] /\ reply[t] = "waiting"
      /\ ~o.committed /\ file[n].layout = o.before.layout /\ o.before.layout # t
      /\ dropped[n] = Nothing
  BY <1>1, <1>2 DEF Safe, Saving, Knows
<1>6. /\ Knows(p, t)' <=> Knows(p, t)
      /\ \A u \in Transactions : u # t => \A q \in Nodes : Knows(q, u)' => Knows(q, u)
  BY <1>1, <1>4 DEF Knows
<1>7. \A q \in Nodes : Saving(q)' /\ Dropping(q)'
  <2>1. Saving(n)' /\ Dropping(n)'
    BY <1>1, <1>2, <1>4, <1>5, Fields DEF Saving, Dropping
  <2>2. Saving(p)' /\ Dropping(p)'
    BY <1>1, <1>2, <1>4, <1>5 DEF Safe, Saving, Dropping
  <2> QED
    BY <1>1, <2>1, <2>2
<1>8. \A u \in Transactions : Fresh(u)'
  BY <1>5, <1>6 DEF Safe, Fresh, Hands
<1>9. ASSUME NEW q \in Nodes, NEW m \in Tokens(q)', m \in Mail, m \in Tokens(q), m.id # t
      PROVE  Means(q, m)'
  <2>1. Means(q, m) /\ m.id \in Transactions
    BY <1>9, MailFields DEF Safe
  <2>2. Knows(q, m.id)' => Knows(q, m.id)
    BY <1>6, <2>1, <1>9
  <2>3. Knows(Peer(q), m.id)' => Knows(Peer(q), m.id)
    BY <1>1, <1>6, <2>1, <1>9
  <2>4. CASE q = n
    BY <2>1, <2>2, <2>3, <2>4, <1>1, <1>4, <1>5, <1>9 DEF Means
  <2>5. CASE q = p
    BY <2>1, <2>2, <2>3, <2>5, <1>1, <1>4, <1>5, <1>9 DEF Means
  <2> QED
    BY <1>1, <2>4, <2>5
<1>10. \A q \in Nodes, u \in Transactions : Refused(q, u)'
  BY <1>5, <1>6 DEF Safe, Refused, Left
<1>11. Together'
  <2>1. \A q \in Nodes : Base(q)' = Base(q)
    BY <1>1, <1>4, <1>5, Fields DEF Base
  <2>2. \A q \in Nodes : Told(q)' <=> Told(q)
    BY <2>1 DEF Told
  <2>3. \A q \in Nodes : Ahead(q) => q # n /\ q # p
    BY <1>1, <1>5 DEF Ahead
  <2> QED
    BY <1>1, <2>1, <2>2, <2>3 DEF Safe, Together
<1> QED
  BY <1>7, <1>8, <1>9, <1>10, <1>11 DEF Safe, Hands

\* The other side commits, and leaves.
LEMMA CommitsThereSafe ==
  ASSUME Values, Safe, NEW n \in Nodes, NEW t \in Transactions,
         pending[n].id = t, ~pending[n].asked,
         \/ pending[Peer(n)].id = t /\ pending[Peer(n)].committed
         \/ reply[t] = "unconfirmed",
         file' = [file EXCEPT ![n] = After(pending[n])],
         pending' = [pending EXCEPT ![n] = Nothing], up' = [up EXCEPT ![n] = FALSE],
         UNCHANGED <<dropped, reply, stuck>>, Hands(t)
  PROVE  Safe'
<1> DEFINE p == Peer(n)
           o == pending[n]
<1>1. p \in Nodes /\ p # n /\ Peer(p) = n /\ \A q \in Nodes : q = n \/ q = p
  BY PeerIn
<1>2. /\ file[n] \in Contents /\ file[p] \in Contents
      /\ o \in Pending /\ pending[p] \in Pending
      /\ DOMAIN file = Nodes /\ DOMAIN pending = Nodes /\ DOMAIN up = Nodes /\ t # 0
  BY <1>1, Fields DEF Values
<1>3. After(o).layout = t
  BY <1>2 DEF After, Pending, Contents
<1>4. /\ pending'[n] = Nothing /\ pending'[p] = pending[p]
      /\ file'[n].layout = t /\ file'[p] = file[p] /\ ~up'[n] /\ up'[p] = up[p]
  BY <1>1, <1>2, <1>3
<1>5. /\ Saving(n) /\ Saving(p) /\ up[n] /\ ~o.committed /\ dropped[n] = Nothing
      /\ reply[t] \in {"waiting", "unconfirmed"}
  BY <1>1, <1>2 DEF Safe, Saving
<1>6. \A u \in Transactions : u # t => \A q \in Nodes : Knows(q, u)' => Knows(q, u)
  BY <1>1, <1>4, Fields DEF Knows
<1>7. \A q \in Nodes : Saving(q)' /\ Dropping(q)'
  <2>1. Saving(n)' /\ Dropping(n)'
    BY <1>1, <1>4, <1>5, Fields DEF Saving, Dropping
  <2>2. Saving(p)' /\ Dropping(p)'
    BY <1>1, <1>4, <1>5, Fields DEF Safe, Saving, Dropping
  <2> QED
    BY <1>1, <2>1, <2>2
<1>8. \A u \in Transactions : Fresh(u)'
  BY <1>5, <1>6 DEF Safe, Fresh, Hands
<1>9. ASSUME NEW q \in Nodes, NEW m \in Tokens(q)', m \in Mail, m \in Tokens(q), m.id # t
      PROVE  Means(q, m)'
  <2>1. Means(q, m) /\ m.id \in Transactions
    BY <1>9, MailFields DEF Safe
  <2>2. Knows(q, m.id)' => Knows(q, m.id)
    BY <1>6, <2>1, <1>9
  <2>3. Knows(Peer(q), m.id)' => Knows(Peer(q), m.id)
    BY <1>1, <1>6, <2>1, <1>9
  <2>4. CASE q = n
    BY <2>1, <2>2, <2>3, <2>4, <1>1, <1>4, <1>5, <1>9, Fields DEF Means
  <2>5. CASE q = p
    BY <2>1, <2>2, <2>3, <2>5, <1>1, <1>4, <1>5, <1>9, Fields DEF Means
  <2> QED
    BY <1>1, <2>4, <2>5
<1>10. \A q \in Nodes, u \in Transactions : Refused(q, u)'
  BY <1>5, <1>6 DEF Safe, Refused, Left
<1>11. Together'
  <2>1. Base(n)' = t
    BY <1>4, <1>5, Fields DEF Base
  <2>2. CASE pending[p].id = t /\ pending[p].committed
    BY <2>1, <2>2, <1>1, <1>4 DEF Ahead, Together
  <2>3. CASE reply[t] = "unconfirmed"
    BY <2>1, <2>3, <1>2 DEF Told, Together
  <2> QED
    BY <2>2, <2>3
<1> QED
  BY <1>7, <1>8, <1>9, <1>10, <1>11 DEF Safe, Hands

\* The side that asked hears that both have committed, and leaves.
LEMMA SavedSafe ==
  ASSUME Values, Safe, NEW n \in Nodes, NEW t \in Transactions,
         pending[n].id = t, pending[n].asked, pending[n].committed,
         ~up[Peer(n)], dropped[Peer(n)] = Nothing, file[Peer(n)].layout = t,
         pending' = [pending EXCEPT ![n] = Nothing], up' = [up EXCEPT ![n] = FALSE],
         reply' = [reply EXCEPT ![t] = "saved"], UNCHANGED <<file, dropped, stuck>>,
         Hands(t)
  PROVE  Safe'
<1> DEFINE p == Peer(n)
           o == pending[n]
<1>1. p \in Nodes /\ p # n /\ Peer(p) = n /\ \A q \in Nodes : q = n \/ q = p
  BY PeerIn
<1>2. /\ pending[p] \in Pending /\ DOMAIN pending = Nodes /\ DOMAIN up = Nodes
      /\ DOMAIN reply = Transactions
  BY <1>1 DEF Values
<1>3. /\ pending'[n] = Nothing /\ pending'[p] = pending[p] /\ ~up'[n] /\ up'[p] = up[p]
      /\ \A u \in Transactions : reply'[u] = IF u = t THEN "saved" ELSE reply[u]
  BY <1>1, <1>2
<1>4. pending[p] = Nothing /\ file[n].layout = t /\ dropped[n] = Nothing
  BY <1>1, Fields DEF Safe, Saving
<1>5. \A u \in Transactions : \A q \in Nodes : Knows(q, u)' => Knows(q, u)
  BY <1>1, <1>3, Fields DEF Knows
<1>6. \A q \in Nodes : Saving(q)' /\ Dropping(q)'
  BY <1>1, <1>3, <1>4, Fields DEF Saving, Dropping
<1>7. \A u \in Transactions : Fresh(u)'
  BY <1>3, <1>5 DEF Safe, Fresh, Hands
<1>8. ASSUME NEW q \in Nodes, NEW m \in Tokens(q)', m \in Mail, m \in Tokens(q), m.id # t
      PROVE  Means(q, m)'
  <2>1. Means(q, m) /\ m.id \in Transactions /\ reply'[m.id] = reply[m.id]
    BY <1>3, <1>8, MailFields DEF Safe
  <2>2. Knows(q, m.id)' => Knows(q, m.id)
    BY <1>5, <2>1
  <2>3. Knows(Peer(q), m.id)' => Knows(Peer(q), m.id)
    BY <1>1, <1>5, <2>1
  <2>4. CASE q = n
    BY <2>1, <2>2, <2>3, <2>4, <1>1, <1>3, <1>4, <1>8, Fields DEF Means
  <2>5. CASE q = p
    BY <2>1, <2>2, <2>3, <2>5, <1>1, <1>3, <1>4, <1>8, Fields DEF Means
  <2> QED
    BY <1>1, <2>4, <2>5
<1>9. \A q \in Nodes, u \in Transactions : Refused(q, u)'
  BY <1>3, <1>5 DEF Safe, Refused, Left
<1>10. Together'
  <2>1. Base(n)' = t /\ Base(p)' = t
    BY <1>1, <1>3, <1>4, Fields DEF Base
  <2> QED
    BY <1>1, <2>1 DEF Together
<1> QED
  BY <1>6, <1>7, <1>8, <1>9, <1>10 DEF Safe, Hands

-----------------------------------------------------------------------------
(* Every action keeps the invariant *)

LEMMA TokensIn ==
  ASSUME Boxes, NEW n \in Nodes, NEW m \in Tokens(n)
  PROVE  m \in Mail /\ m.type # "Abort" /\ m.id \in Transactions
<1>1. PICK i : i \in DOMAIN inbox[n] /\ inbox[n][i].type # "Abort" /\ m = inbox[n][i]
  BY DEF Tokens, Token
<1>2. inbox[n] \in Seq(Mail) /\ i \in 1..Len(inbox[n])
  BY <1>1, LenProperties DEF Boxes
<1>3. m \in Mail
  BY <1>1, <1>2, ElementOfSeq
<1> QED
  BY <1>1, <1>3, MailFields

LEMMA HeadIn ==
  ASSUME Boxes, NEW n \in Nodes, NEW type, Receives(n, type)
  PROVE  /\ up[n] /\ inbox[n] # <<>> /\ Len(inbox[n]) # 0 /\ Id(n) \in Transactions
         /\ Head(inbox[n]) \in Mail /\ Head(inbox[n]).type = type
         /\ type # "Abort" => /\ Head(inbox[n]) \in Tokens(n)
                              /\ Takes(n, 1, Id(n)) /\ Takes(n, Len(inbox[n]), Id(n))
<1>1. inbox[n] \in Seq(Mail) /\ inbox[n] # <<>> /\ up[n] /\ Head(inbox[n]).type = type
  BY DEF Boxes, Receives
<1>2. Head(inbox[n]) = inbox[n][1] /\ 1 \in DOMAIN inbox[n] /\ Len(inbox[n]) # 0
  BY <1>1
<1>3. Head(inbox[n]) \in Mail
  BY <1>1
<1> QED
  BY <1>1, <1>2, <1>3, MailFields DEF Id, Takes, Tokens, Token

\* What n sends, and what of it is a token.
LEMMA SentIn ==
  \A t \in Transactions : \A r \in Contents, ok \in BOOLEAN :
    /\ {Prepare(t, r), Prepared(t, ok), Commit(t), Result(t, ok), Abort(t)} \subseteq Mail
    /\ Prepare(t, r).id = t /\ Prepare(t, r).type = "Prepare"
    /\ Prepared(t, ok).id = t /\ Prepared(t, ok).type = "Prepared"
    /\ Commit(t).id = t /\ Commit(t).type = "Commit"
    /\ Result(t, ok).id = t /\ Result(t, ok).type = "Result" /\ Result(t, ok).ok = ok
    /\ Abort(t).id = t /\ Abort(t).type = "Abort"
BY DEF Mail, Prepare, Prepared, Commit, Result, Abort

\* n sends at most one message, which is no token.
LEMMA Quiets ==
  ASSUME Boxes, OneToken, NEW n \in Nodes, NEW done, NEW out \in Seq(Mail),
         done \in {0, Len(inbox[n])} \/ (done = 1 /\ inbox[n] # <<>>),
         out = <<>> \/ \E t \in Transactions : out = <<Abort(t)>>,
         Sends(n, done, out)
  PROVE  /\ Boxes' /\ OneToken'
         /\ \A q \in Nodes : \A m \in Tokens(q)' :
              m \in Mail /\ m \in Tokens(q) /\ ~Takes(n, done, m.id)
<1>1. out = <<>> \/ \E m \in Mail : out = <<m>> /\ m.type = "Abort"
  BY DEF Abort, Mail
<1>2. \A m : out = <<m>> => m.type = "Abort"
  BY <1>1
<1>3. inbox \in [Nodes -> Seq(Mail)] /\ (out = <<>> \/ \E m \in Mail : out = <<m>>)
  BY <1>1 DEF Boxes
<1>4. /\ inbox' \in [Nodes -> Seq(Mail)] /\ OneToken'
      /\ \A q \in Nodes : \A m \in Tokens(q)' :
           \/ m \in Tokens(q) /\ ~Takes(n, done, m.id)
           \/ q = Peer(n) /\ out = <<m>> /\ m.type # "Abort"
  BY <1>2, <1>3, TokenFlow, Zenon
<1> QED
  BY <1>2, <1>4, TokensIn DEF Boxes

\* n sends token m of the layout whose token it takes.
LEMMA Passes ==
  ASSUME Boxes, OneToken, NEW n \in Nodes, NEW done, NEW m \in Mail,
         done \in {0, Len(inbox[n])} \/ (done = 1 /\ inbox[n] # <<>>),
         Takes(n, done, m.id) \/ Untold(m.id),
         Sends(n, done, <<m>>), Means(Peer(n), m)'
  PROVE  /\ Boxes' /\ OneToken' /\ Hands(m.id)
         /\ \A q \in Nodes : \A x \in Tokens(q)' : x \in Mail
<1> DEFINE out == <<m>>
<1>1. /\ out \in Seq(Mail) /\ out = <<m>>
      /\ \A x : out = <<x>> => x = m
  OBVIOUS
<1> HIDE DEF out
<1>2. /\ inbox \in [Nodes -> Seq(Mail)] /\ Sends(n, done, out)
      /\ out = <<>> \/ \E x \in Mail : out = <<x>>
      /\ \A x : out = <<x>> =>
           x.type = "Abort" \/ Takes(n, done, x.id) \/ Untold(x.id)
  BY <1>1 DEF Boxes
<1>3. /\ inbox' \in [Nodes -> Seq(Mail)] /\ OneToken'
      /\ \A q \in Nodes : \A x \in Tokens(q)' :
           \/ x \in Tokens(q) /\ ~Takes(n, done, x.id)
           \/ q = Peer(n) /\ out = <<x>> /\ x.type # "Abort"
  BY <1>1, <1>2, TokenFlow, Zenon
<1>4. /\ Boxes' /\ OneToken'
      /\ \A q \in Nodes : \A x \in Tokens(q)' :
           \/ x \in Tokens(q) /\ ~Takes(n, done, x.id)
           \/ q = Peer(n) /\ x = m
  BY <1>1, <1>3 DEF Boxes
<1>5. ASSUME NEW q \in Nodes, NEW x \in Tokens(q), ~Takes(n, done, x.id)
      PROVE  x \in Mail /\ x.id # m.id
  BY <1>5, TokensIn DEF Untold
<1> QED
  BY <1>4, <1>5 DEF Hands

LEMMA GivesUpValues ==
  ASSUME Values, Safe, NEW n \in Nodes, GivesUp(n), up' \in [Nodes -> BOOLEAN],
         UNCHANGED <<file, seen>>, NEW r \in {"unconfirmed", "refused"},
         reply' = IF pending[n].asked THEN [reply EXCEPT ![pending[n].id] = r] ELSE reply
  PROVE  Values'
<1> DEFINE o == pending[n]
<1>1. /\ o \in Pending /\ o.before \in Contents /\ o.committed \in BOOLEAN
      /\ Nothing \in Pending /\ o.asked \in BOOLEAN
      /\ o.committed => o.id \in Transactions
  <2>1. o \in Pending
    BY DEF Values
  <2>2. Saving(n)
    BY DEF Safe
  <2> QED
    BY <2>1, <2>2, Fields DEF Saving
<1>2. dropped' \in [Nodes -> Pending]
  BY <1>1 DEF Values, GivesUp
<1>3. pending' \in [Nodes -> Pending]
  BY <1>1 DEF Values, GivesUp
<1>4. stuck' \subseteq Nodes \X Transactions
  <2>1. o.committed => <<n, o.id>> \in Nodes \X Transactions
    BY <1>1
  <2> QED
    BY <2>1 DEF Values, GivesUp
<1>5. reply' \in [Transactions ->
                    {"unasked", "waiting", "saved", "refused", "unconfirmed"}]
  BY DEF Values
<1> QED
  BY <1>2, <1>3, <1>4, <1>5 DEF Values

LEMMA ClosesKeeps ==
  ASSUME IInv, NEW n \in Nodes, inbox' = [inbox EXCEPT ![n] = <<>>],
         \/ GivesUp(n) /\ Tells(n, "unconfirmed") /\ UNCHANGED file
         \/ /\ dropped[n].id # 0 /\ dropped' = [dropped EXCEPT ![n] = Nothing]
            /\ stuck' = stuck \cup {<<n, dropped[n].id>>}
            /\ UNCHANGED <<file, pending, reply>>,
         Leaves(n), UNCHANGED seen
  PROVE  Core'
<1>1. Values /\ Boxes /\ OneToken /\ Safe
  BY DEF IInv, Core
<1>2. /\ Boxes' /\ DOMAIN inbox' = Nodes /\ DOMAIN inbox = Nodes
      /\ inbox'[n] = <<>> /\ \A q \in Nodes : q # n => inbox'[q] = inbox[q]
  BY <1>1 DEF Boxes
<1>3. \A q \in Nodes : \A i : Token(q, i)' => Token(q, i) /\ inbox'[q][i] = inbox[q][i]
  BY <1>2 DEF Token
<1>4. OneToken'
  BY <1>1, <1>3 DEF OneToken
<1>5. \A q \in Nodes : \A m \in Tokens(q)' : May(q, m) /\ m \in Tokens(q)
  BY <1>1, <1>3, TokensIn DEF Tokens, May, Token
<1>6. CASE GivesUp(n) /\ Tells(n, "unconfirmed") /\ UNCHANGED file
  <2>1. Safe'
    BY <1>1, <1>5, <1>6, GivesUpSafe DEF Leaves
  <2>2. Values'
    BY <1>1, <1>6, GivesUpValues DEF Tells, Leaves, Values
  <2> QED
    BY <1>2, <1>4, <2>1, <2>2 DEF Core
<1>7. CASE /\ dropped[n].id # 0 /\ dropped' = [dropped EXCEPT ![n] = Nothing]
           /\ stuck' = stuck \cup {<<n, dropped[n].id>>}
           /\ UNCHANGED <<file, pending, reply>>
  <2>1. Safe'
    BY <1>1, <1>5, <1>7, DroppedSafe DEF Leaves
  <2>2. Values'
    BY <1>1, <1>7, Fields DEF Values, Leaves
  <2> QED
    BY <1>2, <1>4, <2>1, <2>2 DEF Core
<1> QED
  BY <1>6, <1>7

LEMMA DropGivesUp ==
  ASSUME NEW n \in Nodes, Drop(n), UNCHANGED stuck
  PROVE  GivesUp(n)
BY DEF Drop, GivesUp

\* n gives up between messages, or at one, and may tell the peer so.
LEMMA DropKeeps ==
  ASSUME IInv, NEW n \in Nodes, NEW r \in {"unconfirmed", "refused"},
         NEW done \in {0, 1}, NEW out \in Seq(Mail),
         done = 1 => inbox[n] # <<>>,
         out = <<>> \/ \E t \in Transactions : out = <<Abort(t)>>,
         Drop(n), Sends(n, done, out), UNCHANGED <<file, up, seen, stuck>>,
         reply' = IF pending[n].asked THEN [reply EXCEPT ![pending[n].id] = r] ELSE reply,
         r = "refused" => /\ pending[n].asked /\ ~Knows(Peer(n), pending[n].id)
                          /\ Takes(n, done, pending[n].id)
  PROVE  Core'
<1>1. Values /\ Boxes /\ OneToken /\ Safe
  BY DEF IInv, Core
<1>2. done \in {0, Len(inbox[n])} \/ (done = 1 /\ inbox[n] # <<>>)
  OBVIOUS
<1>3. /\ Boxes' /\ OneToken'
      /\ \A q \in Nodes : \A m \in Tokens(q)' :
           m \in Mail /\ m \in Tokens(q) /\ ~Takes(n, done, m.id)
  BY <1>1, <1>2, Quiets
<1>4. Tells(n, r)
  BY <1>3 DEF Tells
<1>5. Safe'
  BY <1>1, <1>3, <1>4, DropGivesUp, GivesUpSafe DEF May
<1>6. Values'
  BY <1>1, DropGivesUp, GivesUpValues DEF Values
<1> QED
  BY <1>3, <1>5, <1>6 DEF Core

LEMMA ConnectKeeps ==
  ASSUME IInv, Connect
  PROVE  Core'
<1>1. Values /\ Boxes /\ OneToken /\ Safe
  BY DEF IInv, Core
<1>2. /\ inbox' = [n \in Nodes |-> <<>>]
      /\ \A n \in Nodes : ~up[n] /\ up'[n] /\ UNCHANGED <<file, pending, dropped, reply, stuck>>
      /\ \A n \in Nodes : \A i : ~Token(n, i)'
  BY DEF Connect, Token, disk
<1>3. \A n \in Nodes : Tokens(n)' = {}
  BY <1>2 DEF Tokens
<1>4. UNCHANGED <<file, pending, dropped, reply, stuck>>
  BY DEF Connect, disk
<1>5. Safe'
  BY <1>1, <1>2, <1>3, <1>4, SameSafe
<1>6. Values' /\ Boxes'
  BY <1>1, <1>2, <1>4 DEF Values, Boxes, Connect
<1>7. OneToken'
  BY <1>2 DEF OneToken
<1> QED
  BY <1>5, <1>6, <1>7 DEF Core

LEMMA HandEditKeeps ==
  ASSUME IInv, NEW n \in Nodes, HandEdit(n)
  PROVE  Core'
<1>1. Values /\ Boxes /\ OneToken /\ Safe /\ made[n] \in Nat /\ MaxEdits \in Nat
  BY BoundsAssumption DEF IInv, Core, Aside, BoundsAssumption
<1>2. UNCHANGED <<up, seen, pending, dropped, inbox, reply, stuck>>
  BY DEF HandEdit
<1>3. \A q \in Nodes : file'[q].layout = file[q].layout
  BY <1>1 DEF HandEdit, Values, Contents
<1>4. file' \in [Nodes -> Contents]
  <2>1. made[n] + 1 \in 1..MaxEdits
    BY <1>1 DEF HandEdit
  <2>2. [file[n] EXCEPT !.edits = @ \cup {made[n] + 1}] \in Contents
    BY <1>1, <2>1 DEF Values, Contents
  <2> QED
    BY <1>1, <2>2 DEF HandEdit, Values
<1>5. /\ OneToken' /\ Boxes' /\ Values'
      /\ \A q \in Nodes : Tokens(q)' = Tokens(q)
  BY <1>1, <1>2, <1>4 DEF OneToken, Token, Tokens, Boxes, Values
<1>6. \A q \in Nodes : \A m \in Tokens(q)' : May(q, m)
  BY <1>1, <1>5, TokensIn DEF May
<1>7. Safe'
  BY <1>1, <1>2, <1>3, <1>6, SameSafe
<1> QED
  BY <1>5, <1>7 DEF Core

\* Only what is in flight changes.
LEMMA OnlyMailKeeps ==
  ASSUME IInv, UNCHANGED <<file, up, seen, pending, dropped, reply, stuck>>,
         Boxes', OneToken',
         \A q \in Nodes : \A m \in Tokens(q)' : May(q, m)
  PROVE  Core'
<1>1. Values /\ Safe
  BY DEF IInv, Core
<1>2. Safe'
  BY <1>1, SameSafe
<1>3. Values'
  BY <1>1 DEF Values
<1> QED
  BY <1>2, <1>3 DEF Core

\* Nothing changes but how far n is with its file.
LEMMA NothingKeeps ==
  ASSUME IInv, UNCHANGED <<file, up, seen, pending, dropped, inbox, reply, stuck>>
  PROVE  Core'
<1>1. Boxes /\ OneToken
  BY DEF IInv, Core
<1>2. Boxes' /\ OneToken' /\ \A q \in Nodes : Tokens(q)' = Tokens(q)
  BY <1>1 DEF Boxes, OneToken, Token, Tokens
<1>3. \A q \in Nodes : \A m \in Tokens(q)' : May(q, m)
  BY <1>1, <1>2, TokensIn DEF May
<1> QED
  BY <1>2, <1>3, OnlyMailKeeps

LEMMA CheckCommitKeeps ==
  ASSUME IInv, NEW n \in Nodes, CheckCommit(n)
  PROVE  Core'
BY NothingKeeps DEF CheckCommit, disk

\* A dropped commit is undone, or stays.
LEMMA UndoKeeps ==
  ASSUME IInv, NEW n \in Nodes, CheckUndo(n) \/ Undo(n)
  PROVE  Core'
<1>1. Values /\ Boxes /\ OneToken /\ Safe /\ dropped[n].id # 0
  BY DEF IInv, Core, Phases, CheckUndo, Undo
<1>2. UNCHANGED <<up, seen, pending, inbox, reply>>
  BY DEF CheckUndo, Undo
<1>3. CASE UNCHANGED <<file, dropped, stuck>>
  BY <1>2, <1>3, NothingKeeps
<1>4. CASE /\ dropped' = [dropped EXCEPT ![n] = Nothing]
           /\ \/ UNCHANGED stuck /\ file' = [file EXCEPT ![n] = dropped[n].before]
              \/ UNCHANGED file /\ stuck' = stuck \cup {<<n, dropped[n].id>>}
  <2>1. Boxes' /\ OneToken' /\ \A q \in Nodes : Tokens(q)' = Tokens(q)
    BY <1>1, <1>2 DEF Boxes, OneToken, Token, Tokens
  <2>2. \A q \in Nodes : \A m \in Tokens(q)' : May(q, m) /\ m \in Tokens(q)
    BY <1>1, <2>1, TokensIn DEF May
  <2>3. Safe'
    BY <1>1, <1>2, <1>4, <2>2, DroppedSafe
  <2>4. dropped[n] \in Pending /\ dropped[n].before \in Contents
           /\ <<n, dropped[n].id>> \in Nodes \X Transactions
    BY <1>1, Fields DEF Values
  <2>5. Values'
    BY <1>1, <1>2, <1>4, <2>4, Fields DEF Values
  <2> QED
    BY <2>1, <2>3, <2>5 DEF Core
<1> QED
  BY <1>3, <1>4 DEF CheckUndo, Undo, Stays, Writes, disk

\* n is not dropping anything when it handles a message or a request.
LEMMA NotDropping ==
  ASSUME IInv, NEW n \in Nodes, phase[n] \in {"free", "commit"}
  PROVE  dropped[n] = Nothing
BY DEF IInv, Core, Safe, Dropping, Phases

LEMMA IgnoreKeeps ==
  ASSUME IInv, NEW n \in Nodes, Ignore(n)
  PROVE  Core'
<1>1. Values /\ Boxes /\ OneToken
  BY DEF IInv, Core
<1>2. /\ inbox[n] # <<>> /\ Sends(n, 1, <<>>)
      /\ UNCHANGED <<file, up, seen, pending, dropped, reply, stuck>>
  BY DEF Ignore, Receives, disk
<1>3. <<>> \in Seq(Mail)
  OBVIOUS
<1>4. /\ Boxes' /\ OneToken'
      /\ \A q \in Nodes : \A m \in Tokens(q)' : m \in Mail /\ m \in Tokens(q)
  BY <1>1, <1>2, <1>3, Quiets
<1> QED
  BY <1>2, <1>4, OnlyMailKeeps DEF May

LEMMA ApplyKeeps ==
  ASSUME IInv, NEW n \in Nodes, Apply(n)
  PROVE  Core'
<1> DEFINE p == Peer(n)
<1>1. Values /\ Boxes /\ OneToken /\ Safe /\ p \in Nodes /\ p # n /\ Peer(p) = n
  BY PeerIn DEF IInv, Core
<1>2. up[n] /\ dropped[n] = Nothing /\ UNCHANGED <<file, up, seen, dropped, stuck>>
  BY NotDropping DEF Apply, Idle, disk
<1>3. PICK t \in Transactions :
        /\ reply[t] = "unasked"
        /\ \/ /\ pending[n] = Nothing /\ file[n] = seen[n]
              /\ pending' = [pending EXCEPT ![n] =
                   [id |-> t, asked |-> TRUE, before |-> file[n], committed |-> FALSE]]
              /\ Sends(n, 0, <<Prepare(t, seen[p])>>)
              /\ reply' = [reply EXCEPT ![t] = "waiting"]
           \/ reply' = [reply EXCEPT ![t] = "refused"] /\ UNCHANGED <<pending, inbox>>
  BY DEF Apply, Unasked, Answer
<1>4. /\ t # 0 /\ \A q \in Nodes : ~Knows(q, t) /\ pending[q].id # t
      /\ Untold(t)
  BY <1>1, <1>3, Fields DEF Safe, Fresh, Saving, Untold
<1>5. CASE /\ pending[n] = Nothing /\ Sends(n, 0, <<Prepare(t, seen[p])>>)
           /\ pending' = [pending EXCEPT ![n] =
                [id |-> t, asked |-> TRUE, before |-> file[n], committed |-> FALSE]]
           /\ reply' = [reply EXCEPT ![t] = "waiting"]
  <2>1. PICK m \in Mail : m = Prepare(t, seen[p]) /\ m.id = t /\ m.type = "Prepare"
    BY <1>1, SentIn DEF Values
  <2>2. /\ pending'[n].id = t /\ pending'[n].asked /\ pending'[n].before = file[n]
        /\ pending'[p] = pending[p]
    BY <1>1, <1>5 DEF Values
  <2>3. Means(p, m)'
    BY <1>1, <1>2, <1>4, <2>1, <2>2 DEF Means, Knows
  <2>4. Boxes' /\ OneToken' /\ Hands(t)
    BY <1>1, <1>4, <1>5, <2>1, <2>3, Passes
  <2>5. Safe'
    BY <1>1, <1>2, <1>3, <1>4, <1>5, <2>4, BeginsSafe
  <2>6. Values'
    <3>1. [id |-> t, asked |-> TRUE, before |-> file[n], committed |-> FALSE] \in Pending
      BY <1>1 DEF Values, Pending, Transactions
    <3> QED
      BY <1>1, <1>2, <1>5, <3>1 DEF Values
  <2> QED
    BY <2>4, <2>5, <2>6 DEF Core
<1>6. CASE reply' = [reply EXCEPT ![t] = "refused"] /\ UNCHANGED <<pending, inbox>>
  <2>1. \A u \in Transactions : reply'[u] = IF u = t THEN "refused" ELSE reply[u]
    BY <1>1, <1>6 DEF Values
  <2>2. /\ OneToken' /\ Boxes' /\ \A q \in Nodes : Tokens(q)' = Tokens(q)
        /\ \A q \in Nodes : \A u : Knows(q, u)' <=> Knows(q, u)
    BY <1>1, <1>2, <1>6 DEF OneToken, Token, Tokens, Boxes, Knows
  <2>3. \A q \in Nodes : pending[q] \in Pending
    BY <1>1 DEF Values
  <2>4. \A q \in Nodes : Saving(q)' /\ Dropping(q)'
    <3> SUFFICES ASSUME NEW q \in Nodes
                 PROVE  Saving(q)' /\ Dropping(q)'
      OBVIOUS
    <3>1. pending[q].id = 0 \/ (pending[q].id \in Transactions /\ pending[q].id # t)
      BY <1>4, <2>3, Fields
    <3>2. Saving(q)
      BY <1>1 DEF Safe
    <3>3. pending[q].asked => pending[q].id # 0
      BY <3>2, Fields DEF Saving
    <3>4. pending[q].id # 0 => reply'[pending[q].id] = reply[pending[q].id]
      BY <2>1, <3>1
    <3>5. Dropping(q) /\ (dropped[q].id = 0 \/ dropped[q].id \in Transactions)
      BY <1>1, Fields DEF Safe, Values
    <3>6. dropped[q].id # 0 => reply'[dropped[q].id] = reply[dropped[q].id]
      BY <1>3, <2>1, <3>5 DEF Dropping
    <3> QED
      BY <1>2, <1>6, <3>2, <3>3, <3>4, <3>5, <3>6 DEF Saving, Dropping
  <2>5. \A u \in Transactions : Fresh(u)'
    BY <1>1, <2>1, <2>2 DEF Safe, Fresh
  <2>6. \A q \in Nodes : \A x \in Tokens(q)' : Means(q, x)'
    <3> SUFFICES ASSUME NEW q \in Nodes, NEW x \in Tokens(q)
                 PROVE  Means(q, x)'
      BY <2>2
    <3>1. Means(q, x) /\ x.id \in Transactions /\ x.id # t /\ Peer(q) \in Nodes
      BY <1>1, <1>4, TokensIn, PeerIn DEF Safe, Untold
    <3> QED
      BY <1>2, <1>6, <2>1, <2>2, <3>1 DEF Means
  <2>7. \A q \in Nodes, u \in Transactions : Refused(q, u)'
    BY <1>1, <1>2, <1>4, <2>1, <2>2 DEF Safe, Refused, Left
  <2>8. Together'
    <3>1. \A q \in Nodes : Base(q)' = Base(q)
      BY <1>2, <1>6 DEF Base
    <3>2. ASSUME NEW q \in Nodes, Told(q)
          PROVE  Told(q)'
      <4>1. Base(q) \in Transactions
        BY <1>1, <3>2, BaseIn DEF Told
      <4> QED
        BY <1>2, <1>3, <2>1, <3>1, <3>2, <4>1 DEF Told
    <3>3. \A q \in Nodes : Ahead(q)' <=> Ahead(q)
      BY <1>2, <1>6, <3>1 DEF Ahead
    <3> QED
      BY <1>1, <3>1, <3>2, <3>3 DEF Safe, Together
  <2>9. Values'
    BY <1>1, <1>2, <1>6 DEF Values
  <2> QED
    BY <2>2, <2>4, <2>5, <2>6, <2>7, <2>8, <2>9 DEF Core, Safe
<1> QED
  BY <1>3, <1>5, <1>6

LEMMA HandlePrepareKeeps ==
  ASSUME IInv, NEW n \in Nodes, HandlePrepare(n)
  PROVE  Core'
<1> DEFINE p == Peer(n)
<1>0. PICK t : t = Id(n)
  OBVIOUS
<1>1. Values /\ Boxes /\ OneToken /\ Safe /\ p \in Nodes /\ p # n /\ Peer(p) = n
  BY PeerIn DEF IInv, Core
<1>2. /\ Receives(n, "Prepare") /\ dropped[n] = Nothing
      /\ UNCHANGED <<file, up, seen, dropped, reply, stuck>>
      /\ \/ /\ pending[n] = Nothing
            /\ pending' = [pending EXCEPT ![n] = [id |-> t, asked |-> FALSE,
                                                  before |-> file[n], committed |-> FALSE]]
            /\ Sends(n, 1, <<Prepared(t, TRUE)>>)
         \/ UNCHANGED pending /\ Sends(n, 1, <<Prepared(t, FALSE)>>)
  BY <1>0, NotDropping DEF HandlePrepare, Receives, disk
<1>3. /\ up[n] /\ inbox[n] # <<>> /\ t \in Transactions /\ Takes(n, 1, t)
      /\ Head(inbox[n]) \in Tokens(n) /\ Head(inbox[n]).type = "Prepare"
      /\ Head(inbox[n]).id = t
  BY <1>0, <1>1, <1>2, HeadIn DEF Id
<1>4. /\ ~Knows(n, t) /\ ~Knows(p, t) /\ pending[n].id # t
      /\ pending[p].id = t => pending[p].asked
      /\ reply[t] # "unasked" /\ t # 0
  <2>1. Means(n, Head(inbox[n]))
    BY <1>1, <1>3 DEF Safe
  <2>2. Fresh(t)
    BY <1>1, <1>3 DEF Safe
  <2> QED
    BY <1>3, <2>1, <2>2, Fields DEF Means, Fresh
<1>5. \A ok \in BOOLEAN : /\ Prepared(t, ok) \in Mail /\ Prepared(t, ok).id = t
                          /\ Prepared(t, ok).type = "Prepared"
  <2>1. file[n] \in Contents
    BY <1>1 DEF Values
  <2> QED
    BY <1>3, <2>1, SentIn
<1>6. CASE /\ pending[n] = Nothing /\ Sends(n, 1, <<Prepared(t, TRUE)>>)
           /\ pending' = [pending EXCEPT ![n] = [id |-> t, asked |-> FALSE,
                                                 before |-> file[n], committed |-> FALSE]]
  <2>1. /\ pending'[n].id = t /\ ~pending'[n].asked /\ pending'[n].before = file[n]
        /\ pending'[p] = pending[p]
    BY <1>1, <1>6 DEF Values
  <2>2. Means(p, Prepared(t, TRUE))'
    BY <1>1, <1>2, <1>4, <1>5, <2>1 DEF Means, Knows
  <2>3. Boxes' /\ OneToken' /\ Hands(t)
    BY <1>1, <1>3, <1>5, <1>6, <2>2, Passes
  <2>4. \A q \in Nodes : ~Knows(q, t)
    BY <1>4, PeerIn
  <2>5. Safe'
    BY <1>1, <1>2, <1>3, <1>4, <1>6, <2>3, <2>4, BeginsSafe
  <2>6. Values'
    <3>1. [id |-> t, asked |-> FALSE, before |-> file[n], committed |-> FALSE] \in Pending
      BY <1>1, <1>3 DEF Values, Pending, Transactions
    <3> QED
      BY <1>1, <1>2, <1>6, <3>1 DEF Values
  <2> QED
    BY <2>3, <2>5, <2>6 DEF Core
<1>7. CASE UNCHANGED pending /\ Sends(n, 1, <<Prepared(t, FALSE)>>)
  <2>1. Means(p, Prepared(t, FALSE))'
    BY <1>1, <1>2, <1>4, <1>5, <1>7 DEF Means, Knows
  <2>2. /\ Boxes' /\ OneToken' /\ Hands(t)
        /\ \A q \in Nodes : \A x \in Tokens(q)' : x \in Mail
    BY <1>1, <1>3, <1>5, <1>7, <2>1, Passes
  <2>3. \A q \in Nodes : \A x \in Tokens(q)' : May(q, x)
    BY <1>4, <2>2 DEF May, Hands
  <2> QED
    BY <1>2, <1>7, <2>2, <2>3, OnlyMailKeeps
<1> QED
  BY <1>2, <1>6, <1>7

LEMMA HandlePreparedKeeps ==
  ASSUME IInv, NEW n \in Nodes, HandlePrepared(n)
  PROVE  Core'
<1> DEFINE p == Peer(n)
<1>0. PICK t : t = Id(n)
  OBVIOUS
<1>1. Values /\ Boxes /\ OneToken /\ Safe /\ p \in Nodes /\ p # n /\ Peer(p) = n
  BY PeerIn DEF IInv, Core
<1>2. /\ Receives(n, "Prepared") /\ pending[n].id = t /\ pending[n].asked = TRUE
      /\ UNCHANGED <<up, seen, stuck>>
      /\ \/ /\ file' = [file EXCEPT ![n] = After(pending[n])]
            /\ pending' = [pending EXCEPT ![n].committed = TRUE]
            /\ Sends(n, 1, <<Commit(t)>>) /\ UNCHANGED <<dropped, reply>>
         \/ /\ Drop(n) /\ Sends(n, 1, <<Abort(t)>>) /\ UNCHANGED file
            /\ reply' = [reply EXCEPT ![t] = "refused"]
  BY <1>0 DEF HandlePrepared, Mine, Answer, Writes, disk
<1>3. /\ up[n] /\ inbox[n] # <<>> /\ t \in Transactions /\ Takes(n, 1, t)
      /\ Head(inbox[n]) \in Tokens(n) /\ Head(inbox[n]).type = "Prepared"
      /\ Head(inbox[n]).id = t
  BY <1>0, <1>1, <1>2, HeadIn DEF Id
<1>4. /\ ~Knows(n, t) /\ ~Knows(p, t) /\ t # 0
      /\ pending[p].id = t => ~pending[p].asked
  <2>1. Means(n, Head(inbox[n]))
    BY <1>1, <1>3 DEF Safe
  <2> QED
    BY <1>3, <2>1, Fields DEF Means
<1>6. Commit(t) \in Mail /\ Commit(t).id = t /\ Commit(t).type = "Commit" /\ Abort(t) \in Mail
  BY <1>3 DEF Mail, Commit, Abort
<1>7. CASE /\ file' = [file EXCEPT ![n] = After(pending[n])]
           /\ pending' = [pending EXCEPT ![n].committed = TRUE]
           /\ Sends(n, 1, <<Commit(t)>>) /\ UNCHANGED <<dropped, reply>>
  <2>1. /\ pending[n] \in Pending /\ After(pending[n]) \in Contents
        /\ [pending[n] EXCEPT !.committed = TRUE] \in Pending
    BY <1>1 DEF Values, Pending, Contents, After
  <2>2. /\ pending'[n].id = t /\ pending'[n].committed /\ pending'[p] = pending[p]
        /\ file'[p] = file[p]
    BY <1>1, <1>2, <1>7, <2>1 DEF Values, Pending
  <2>3. Means(p, Commit(t))'
    BY <1>1, <1>4, <1>6, <1>7, <2>2 DEF Means, Knows
  <2>4. Boxes' /\ OneToken' /\ Hands(t)
    BY <1>1, <1>3, <1>6, <1>7, <2>3, Passes
  <2>5. \A q \in Nodes : ~Knows(q, t)
    BY <1>4, PeerIn
  <2>6. Safe'
    BY <1>1, <1>2, <1>3, <1>7, <2>4, <2>5, CommitsHereSafe
  <2>7. Values'
    BY <1>1, <1>2, <1>7, <2>1 DEF Values
  <2> QED
    BY <2>4, <2>6, <2>7 DEF Core
<1>8. CASE /\ Drop(n) /\ Sends(n, 1, <<Abort(t)>>) /\ UNCHANGED file
           /\ reply' = [reply EXCEPT ![t] = "refused"]
  <2>1. <<Abort(t)>> \in Seq(Mail)
    BY <1>6
  <2>2. PICK out \in Seq(Mail) : out = <<Abort(t)>>
    BY <2>1
  <2> QED
    BY <1>2, <1>3, <1>4, <1>8, <2>2, DropKeeps
<1> QED
  BY <1>2, <1>7, <1>8

LEMMA HandleCommitKeeps ==
  ASSUME IInv, NEW n \in Nodes, HandleCommit(n)
  PROVE  Core'
<1> DEFINE p == Peer(n)
<1>0. PICK t : t = Id(n)
  OBVIOUS
<1>1. Values /\ Boxes /\ OneToken /\ Safe /\ p \in Nodes /\ p # n /\ Peer(p) = n
  BY PeerIn DEF IInv, Core
<1>2. /\ Receives(n, "Commit") /\ pending[n].id = t /\ pending[n].asked = FALSE
      /\ pending' = [pending EXCEPT ![n] = Nothing]
      /\ UNCHANGED <<seen, dropped, reply, stuck>>
      /\ \/ /\ file' = [file EXCEPT ![n] = After(pending[n])]
            /\ Sends(n, Len(inbox[n]), <<Result(t, TRUE)>>)
            /\ up' = [up EXCEPT ![n] = FALSE]
         \/ Sends(n, 1, <<Result(t, FALSE)>>) /\ UNCHANGED <<file, up>>
  BY <1>0 DEF HandleCommit, Mine, Leaves, Writes, disk
<1>3. /\ up[n] /\ inbox[n] # <<>> /\ t \in Transactions /\ Takes(n, 1, t)
      /\ Takes(n, Len(inbox[n]), t)
      /\ Head(inbox[n]) \in Tokens(n) /\ Head(inbox[n]).type = "Commit"
      /\ Head(inbox[n]).id = t
  BY <1>0, <1>1, <1>2, HeadIn DEF Id
<1>4. /\ ~Knows(n, t) /\ t # 0 /\ reply[t] # "unasked"
      /\ \/ pending[p].id = t /\ pending[p].committed
         \/ reply[t] = "unconfirmed"
      /\ pending[p].id = t /\ pending[p].asked => pending[p].committed
  <2>1. Means(n, Head(inbox[n])) /\ Saving(p) /\ Fresh(t)
    BY <1>1, <1>3 DEF Safe
  <2> QED
    BY <1>3, <2>1, Fields DEF Means, Saving, Fresh
<1>5. \A ok \in BOOLEAN : /\ Result(t, ok) \in Mail /\ Result(t, ok).id = t
                          /\ Result(t, ok).type = "Result" /\ Result(t, ok).ok = ok
  BY <1>3 DEF Mail, Result
<1>6. /\ ~pending[n].committed /\ pending[n] \in Pending /\ pending'[n] = Nothing
      /\ pending'[p] = pending[p] /\ pending' \in [Nodes -> Pending]
  <2>1. Saving(n) /\ pending[n] \in Pending
    BY <1>1 DEF Safe, Values
  <2> QED
    BY <1>1, <1>2, <2>1, Fields DEF Saving, Values
<1>7. CASE /\ file' = [file EXCEPT ![n] = After(pending[n])]
           /\ Sends(n, Len(inbox[n]), <<Result(t, TRUE)>>)
           /\ up' = [up EXCEPT ![n] = FALSE]
  <2>1. After(pending[n]) \in Contents /\ After(pending[n]).layout = t
    BY <1>1, <1>2, <1>6 DEF Values, Pending, Contents, After
  <2>2. file'[n].layout = t /\ ~up'[n] /\ dropped'[n] = Nothing
    BY <1>1, <1>2, <1>7, <2>1, NotDropping DEF Values, Receives
  <2>3. Means(p, Result(t, TRUE))'
    BY <1>1, <1>4, <1>5, <1>6, <2>2 DEF Means
  <2>4. Boxes' /\ OneToken' /\ Hands(t)
    BY <1>1, <1>3, <1>5, <1>7, <2>3, Passes
  <2>5. Safe'
    BY <1>1, <1>2, <1>3, <1>4, <1>7, <2>4, CommitsThereSafe
  <2>6. Values'
    BY <1>1, <1>2, <1>6, <1>7, <2>1 DEF Values
  <2> QED
    BY <2>4, <2>5, <2>6 DEF Core
<1>8. CASE Sends(n, 1, <<Result(t, FALSE)>>) /\ UNCHANGED <<file, up>>
  <2>1. Means(p, Result(t, FALSE))'
    BY <1>1, <1>2, <1>4, <1>5, <1>6, <1>8, Fields DEF Means, Knows
  <2>2. /\ Boxes' /\ OneToken' /\ Hands(t)
        /\ \A q \in Nodes : \A x \in Tokens(q)' : x \in Mail
    BY <1>1, <1>3, <1>5, <1>8, <2>1, Passes
  <2>3. \A q \in Nodes : \A x \in Tokens(q)' : May(q, x)
    BY <1>4, <2>2 DEF May, Hands
  <2>4. GivesUp(n) /\ Tells(n, "unconfirmed")
    BY <1>2, <1>6, <1>8 DEF GivesUp, Tells
  <2>5. Safe'
    BY <1>1, <1>8, <2>3, <2>4, GivesUpSafe
  <2>6. Values'
    BY <1>1, <1>2, <1>6, <1>8 DEF Values
  <2> QED
    BY <2>2, <2>5, <2>6 DEF Core
<1> QED
  BY <1>2, <1>7, <1>8

LEMMA HandleResultKeeps ==
  ASSUME IInv, NEW n \in Nodes, HandleResult(n)
  PROVE  Core'
<1> DEFINE p == Peer(n)
<1>0. PICK t : t = Id(n)
  OBVIOUS
<1>1. Values /\ Boxes /\ OneToken /\ Safe /\ p \in Nodes /\ p # n /\ Peer(p) = n
  BY PeerIn DEF IInv, Core
<1>2. /\ Receives(n, "Result") /\ pending[n].id = t /\ pending[n].asked = TRUE
      /\ UNCHANGED <<file, seen, stuck>>
      /\ \/ /\ Head(inbox[n]).ok /\ pending' = [pending EXCEPT ![n] = Nothing]
            /\ reply' = [reply EXCEPT ![t] = "saved"]
            /\ Sends(n, Len(inbox[n]), <<>>)
            /\ up' = [up EXCEPT ![n] = FALSE] /\ UNCHANGED dropped
         \/ /\ ~Head(inbox[n]).ok /\ Drop(n) /\ reply' = [reply EXCEPT ![t] = "refused"]
            /\ Sends(n, 1, <<>>) /\ UNCHANGED up
  BY <1>0 DEF HandleResult, Mine, Leaves, Answer, disk
<1>3. /\ up[n] /\ inbox[n] # <<>> /\ t \in Transactions /\ Takes(n, 1, t)
      /\ Takes(n, Len(inbox[n]), t)
      /\ Head(inbox[n]) \in Tokens(n) /\ Head(inbox[n]).type = "Result"
      /\ Head(inbox[n]).id = t
  BY <1>0, <1>1, <1>2, HeadIn DEF Id
<1>4. /\ pending[n].committed
      /\ Head(inbox[n]).ok => ~up[p] /\ dropped[p] = Nothing /\ file[p].layout = t
      /\ ~Head(inbox[n]).ok => ~Knows(p, t)
  <2>1. Means(n, Head(inbox[n]))
    BY <1>1, <1>3 DEF Safe
  <2> QED
    BY <1>2, <1>3, <2>1 DEF Means
<1>5. <<>> \in Seq(Mail)
  OBVIOUS
<1>6. CASE /\ Head(inbox[n]).ok /\ pending' = [pending EXCEPT ![n] = Nothing]
           /\ reply' = [reply EXCEPT ![t] = "saved"]
           /\ Sends(n, Len(inbox[n]), <<>>)
           /\ up' = [up EXCEPT ![n] = FALSE] /\ UNCHANGED dropped
  <2>1. PICK k : k = Len(inbox[n])
    OBVIOUS
  <2>2. /\ Boxes' /\ OneToken'
        /\ \A q \in Nodes : \A m \in Tokens(q)' :
             m \in Mail /\ m \in Tokens(q) /\ ~Takes(n, k, m.id)
    BY <1>1, <1>5, <1>6, <2>1, Quiets
  <2>3. Hands(t)
    BY <1>3, <2>1, <2>2 DEF Hands
  <2>4. Safe'
    BY <1>1, <1>2, <1>3, <1>4, <1>6, <2>3, SavedSafe
  <2>5. Values'
    BY <1>1, <1>2, <1>6, Fields DEF Values
  <2> QED
    BY <2>2, <2>4, <2>5 DEF Core
<1>7. CASE /\ ~Head(inbox[n]).ok /\ Drop(n) /\ reply' = [reply EXCEPT ![t] = "refused"]
           /\ Sends(n, 1, <<>>) /\ UNCHANGED up
  BY <1>2, <1>3, <1>4, <1>5, <1>7, DropKeeps
<1> QED
  BY <1>2, <1>6, <1>7

LEMMA HandleAbortKeeps ==
  ASSUME IInv, NEW n \in Nodes, HandleAbort(n)
  PROVE  Core'
<1>1. <<>> \in Seq(Mail) /\ inbox[n] # <<>>
  BY DEF HandleAbort, Receives
<1> QED
  BY <1>1, DropKeeps DEF HandleAbort, Answer, disk

LEMMA ExpireKeeps ==
  ASSUME IInv, NEW n \in Nodes, Expire(n)
  PROVE  Core'
<1>1. PICK t : t = pending[n].id
  OBVIOUS
<1>2. t \in Transactions
  BY <1>1, Fields DEF IInv, Core, Values, Safe, Saving, Expire
<1>3. Abort(t) \in Mail
  BY <1>2 DEF Mail
<1>4. <<Abort(t)>> \in Seq(Mail)
  BY <1>3
<1>5. PICK out \in Seq(Mail) : out = <<Abort(t)>>
  BY <1>4
<1>6. /\ Drop(n) /\ Sends(n, 0, out) /\ UNCHANGED <<file, up, seen, stuck>>
      /\ reply' = IF pending[n].asked THEN [reply EXCEPT ![pending[n].id] = "unconfirmed"]
                                      ELSE reply
  BY <1>1, <1>5 DEF Expire, Answer, disk
<1>7. /\ 0 \in {0, 1} /\ (0 = 1 => inbox[n] # <<>>)
      /\ "unconfirmed" \in {"unconfirmed", "refused"} /\ "unconfirmed" # "refused"
      /\ out = <<>> \/ \E u \in Transactions : out = <<Abort(u)>>
  BY <1>2, <1>5
<1> QED
  BY <1>6, <1>7, DropKeeps, Zenon

LEMMA EndKeeps ==
  ASSUME IInv, NEW n \in Nodes, Disconnect(n) \/ PeerClosed(n) \/ Crash(n)
  PROVE  Core'
<1>1. CASE Disconnect(n) \/ PeerClosed(n)
  BY <1>1, DropGivesUp, ClosesKeeps
     DEF Disconnect, PeerClosed, Closes, Tells, Answer, disk
<1>2. CASE Crash(n)
  <2> DEFINE S == {q \in {pending[n], dropped[n]} : q.committed}
  <2>1. /\ inbox' = [inbox EXCEPT ![n] = <<>>] /\ Leaves(n) /\ UNCHANGED <<file, seen>>
        /\ pending' = [pending EXCEPT ![n] = Nothing]
        /\ dropped' = [dropped EXCEPT ![n] = Nothing]
        /\ stuck' = stuck \cup {<<n, q.id>> : q \in S}
        /\ Tells(n, "unconfirmed")
    BY <1>2 DEF Crash, Tells, Answer, disk
  <2>2. /\ Saving(n) /\ Dropping(n) /\ pending[n] \in Pending /\ dropped[n] \in Pending
        /\ DOMAIN pending = Nodes /\ DOMAIN dropped = Nodes
        /\ pending \in [Nodes -> Pending] /\ dropped \in [Nodes -> Pending]
    BY DEF IInv, Core, Safe, Values
  <2>3. CASE dropped[n].id = 0
    <3>1. dropped[n] = Nothing /\ dropped' = dropped
      BY <2>1, <2>2, <2>3 DEF Dropping
    <3>2. S = IF pending[n].committed THEN {pending[n]} ELSE {}
      BY <2>2, <3>1, Fields
    <3>3. stuck' = IF pending[n].committed THEN stuck \cup {<<n, pending[n].id>>} ELSE stuck
      BY <2>1, <3>2
    <3>4. GivesUp(n)
      BY <2>1, <3>1, <3>3 DEF GivesUp
    <3> QED
      BY <2>1, <3>4, ClosesKeeps
  <2>4. CASE dropped[n].id # 0
    <3>1. pending[n] = Nothing /\ pending' = pending /\ reply' = reply
      BY <2>1, <2>2, <2>4, Fields DEF Saving, Tells
    <3>2. S = {dropped[n]}
      BY <2>2, <2>4, <3>1, Fields DEF Dropping
    <3>3. stuck' = stuck \cup {<<n, dropped[n].id>>}
      BY <2>1, <3>2
    <3> QED
      BY <2>1, <2>4, <3>1, <3>3, ClosesKeeps
  <2> QED
    BY <2>2, <2>3, <2>4
<1> QED
  BY <1>1, <1>2

-----------------------------------------------------------------------------
(* Theorems *)

LEMMA InitIInv == Init => IInv
<1> SUFFICES ASSUME Init
             PROVE  IInv
  OBVIOUS
<1>1. /\ file = [n \in Nodes |-> Initial] /\ seen = file
      /\ up = [n \in Nodes |-> FALSE]
      /\ pending = [n \in Nodes |-> Nothing] /\ dropped = pending
      /\ inbox = [n \in Nodes |-> <<>>] /\ stuck = {}
      /\ reply = [t \in Transactions |-> "unasked"]
  BY DEF Init
<1>2. Values /\ Boxes
  BY <1>1, Fields DEF Values, Boxes
<1>3. \A n \in Nodes : Tokens(n) = {} /\ \A i : ~Token(n, i)
  <2> SUFFICES ASSUME NEW n \in Nodes
               PROVE  \A i : i \notin DOMAIN inbox[n]
    BY DEF Tokens, Token
  <2>1. inbox[n] = <<>> /\ inbox[n] \in Seq(Mail)
    BY <1>1, <1>2 DEF Boxes
  <2>2. Len(inbox[n]) = 0
    BY <2>1
  <2>3. DOMAIN inbox[n] = 1..0
    BY <2>1, <2>2, LenProperties
  <2> QED
    BY <2>3
<1>4. \A n \in Nodes, t \in Transactions : ~Knows(n, t)
  BY <1>1, Fields DEF Knows
<1>5. OneToken
  BY <1>3 DEF OneToken
<1>6. \A n \in Nodes : Saving(n) /\ Dropping(n)
  BY <1>1, Fields DEF Saving, Dropping
<1>7. Together
  BY <1>1, Fields DEF Together, Base
<1>8. Aside /\ Phases
  BY <1>1, BoundsAssumption, Fields DEF Init, Aside, Phases, BoundsAssumption
<1> QED
  BY <1>2, <1>3, <1>4, <1>5, <1>6, <1>7, <1>8 DEF IInv, Core, Safe, Fresh, Refused

\* What n does with its file goes with what it is dropping.
LEMMA AsideKeeps == IInv /\ [Next]_vars => Aside' /\ Phases'
<1> SUFFICES ASSUME IInv, [Next]_vars
             PROVE  Aside' /\ Phases'
  OBVIOUS
<1>1. Aside /\ Phases /\ Values /\ \A n \in Nodes : Saving(n) /\ Dropping(n)
  BY DEF IInv, Core, Safe
<1>2. /\ phase \in [Nodes -> {"free", "commit", "drop", "undo"}]
      /\ dropped \in [Nodes -> Pending]
      /\ \A n \in Nodes : /\ phase[n] \in {"drop", "undo"} <=> dropped[n].id # 0
                          /\ pending[n].committed => pending[n].id # 0
      /\ Nothing.id = 0 /\ Nothing \in Pending
      /\ \A n \in Nodes : pending[n] \in Pending /\ pending[n].committed \in BOOLEAN
  BY <1>1, Fields DEF Aside, Phases, Values, Saving
<1> DEFINE Written == made' = made /\ late' = late
           Same == phase' = phase /\ dropped' = dropped
           Frees(n) == /\ phase' = [phase EXCEPT ![n] = "free"]
                       /\ dropped' = [dropped EXCEPT ![n] = Nothing]
           Moves(n) == /\ phase[n] \in {"free", "commit"} /\ dropped' = dropped
                       /\ \/ phase' = [phase EXCEPT ![n] = "free"]
                          \/ phase' = [phase EXCEPT ![n] = "commit"]
           Turns(n) == /\ phase[n] = "drop" /\ dropped' = dropped
                       /\ phase' = [phase EXCEPT ![n] = "undo"]
           Drops(n) == /\ phase[n] \in {"free", "commit"} /\ pending[n].committed
                       /\ phase' = [phase EXCEPT ![n] = "drop"]
                       /\ dropped' = [dropped EXCEPT ![n] = pending[n]]
           Some(n) == Same \/ Frees(n) \/ Moves(n) \/ Turns(n) \/ Drops(n)
<1>3. ASSUME NEW n \in Nodes, Drop(n), phase[n] \in {"free", "commit"}
      PROVE  Some(n)
  BY <1>3 DEF Drop, Goes
<1>4. ASSUME Written, NEW n \in Nodes, Some(n)
      PROVE  Aside' /\ Phases'
  <2>1. Aside'
    BY <1>1, <1>2, <1>4 DEF Aside
  <2>2. Phases'
    BY <1>2, <1>4 DEF Phases
  <2> QED
    BY <2>1, <2>2
<1>5. ASSUME NEW n \in Nodes, HandEdit(n)
      PROVE  Aside' /\ Phases'
  <2>1. made[n] + 1 \in 1..MaxEdits
    BY <1>1, <1>5, BoundsAssumption DEF Aside, HandEdit, BoundsAssumption
  <2>2. made' = [made EXCEPT ![n] = made[n] + 1]
    BY <1>5 DEF HandEdit
  <2>3. made' \in [Nodes -> 0..MaxEdits]
    BY <1>1, <2>1, <2>2 DEF Aside
  <2>4. late' \in [Nodes -> SUBSET (1..MaxEdits)]
    BY <1>1, <1>5, <2>1 DEF Aside, HandEdit
  <2> QED
    BY <1>1, <1>5, <2>3, <2>4 DEF Aside, Phases, HandEdit
<1>6. ASSUME NEW n \in Nodes,
             \/ Disconnect(n) \/ PeerClosed(n) \/ Apply(n) \/ Expire(n)
             \/ HandleResult(n) \/ HandleAbort(n) \/ Ignore(n) \/ HandlePrepare(n)
      PROVE  Written /\ Some(n)
  BY <1>3, <1>6 DEF Disconnect, PeerClosed, Closes, Idle, Apply, Expire, HandleResult,
       HandleAbort, Ignore, HandlePrepare, Receives, Goes, disk
<1>7. ASSUME NEW n \in Nodes, HandlePrepared(n) \/ HandleCommit(n) \/ CheckCommit(n)
      PROVE  Written /\ Some(n)
  BY <1>3, <1>7 DEF HandlePrepared, HandleCommit, CheckCommit, Receives, Goes, Writes, disk
<1>8. ASSUME NEW n \in Nodes, Crash(n) \/ CheckUndo(n) \/ Undo(n)
      PROVE  Written /\ Some(n)
  BY <1>8 DEF Crash, CheckUndo, Undo, Stays, Goes, Writes, disk
<1>9. ASSUME Connect \/ UNCHANGED vars
      PROVE  Written /\ Same
  BY <1>9 DEF Connect, vars, disk
<1>10. ASSUME Written, Same
       PROVE  Aside' /\ Phases'
  BY <1>1, <1>10 DEF Aside, Phases
<1> HIDE DEF Written, Same, Some
<1> QED
  BY <1>4, <1>5, <1>6, <1>7, <1>8, <1>9, <1>10 DEF Next

LEMMA Keeps == IInv /\ [Next]_vars => IInv'
<1> SUFFICES ASSUME IInv, [Next]_vars
             PROVE  Core'
  BY AsideKeeps DEF IInv
<1>1. CASE Connect
  BY <1>1, ConnectKeeps
<1>2. ASSUME NEW n \in Nodes,
             \/ Disconnect(n) \/ PeerClosed(n) \/ Crash(n) \/ HandEdit(n)
             \/ Apply(n) \/ Expire(n)
             \/ HandlePrepare(n) \/ HandlePrepared(n) \/ HandleCommit(n)
             \/ HandleResult(n) \/ HandleAbort(n) \/ Ignore(n)
             \/ CheckCommit(n) \/ CheckUndo(n) \/ Undo(n)
      PROVE  Core'
  BY <1>2, EndKeeps, HandEditKeeps, ApplyKeeps, ExpireKeeps, HandlePrepareKeeps,
     HandlePreparedKeeps, HandleCommitKeeps, HandleResultKeeps, HandleAbortKeeps,
     IgnoreKeeps, CheckCommitKeeps, UndoKeeps
<1>3. CASE UNCHANGED vars
  BY <1>3, NothingKeeps DEF vars, disk
<1> QED
  BY <1>1, <1>2, <1>3 DEF Next

LEMMA Inductive == Spec => []IInv
BY InitIInv, Keeps, PTL DEF Spec

\* The state of a save has its type: nothing else is ever written to a file,
\* kept for an undo, sent or answered.
THEOREM TypeCorrect == Spec => []TypeOK
<1>1. ASSUME Boxes
      PROVE  \A n \in Nodes : \A i \in DOMAIN inbox[n] : inbox[n][i].id \in Transactions
  <2> SUFFICES ASSUME NEW n \in Nodes, NEW i \in DOMAIN inbox[n]
               PROVE  inbox[n][i].id \in Transactions
    OBVIOUS
  <2>1. inbox[n] \in Seq(Mail) /\ i \in 1..Len(inbox[n])
    BY <1>1, LenProperties DEF Boxes
  <2> QED
    BY <2>1, ElementOfSeq, MailFields
<1>2. IInv => TypeOK
  BY <1>1 DEF IInv, Core, Aside, Values, TypeOK
<1> QED
  BY <1>2, Inductive, PTL

\* A definite refusal means that neither file holds the layout, unless the
\* side that asked could not undo it, for any number of layouts and edits.
THEOREM RefusalsAreTrue == Spec => []RefusedMeansNeither
<1>1. IInv => RefusedMeansNeither
  BY DEF IInv, Core, Safe, Refused, Left, Knows, RefusedMeansNeither
<1> QED
  BY <1>1, Inductive, PTL

\* The two files never come apart unnoticed.
THEOREM DivergenceIsTold == Spec => []DivergenceIsKnown
<1>1. ASSUME IInv, Quiet
      PROVE  \A n \in Nodes : Base(n) = file[n].layout /\ ~Ahead(n)
  BY <1>1, PeerIn, Fields DEF Quiet, Base, Ahead
<1>2. IInv => DivergenceIsKnown
  BY <1>1 DEF IInv, Core, Safe, Together, Told, DivergenceIsKnown
<1> QED
  BY <1>2, Inductive, PTL

\* Success is reported only when both files hold the layout.
THEOREM SuccessIsTrue == Spec => SavedMeansBoth
<1> DEFINE News == \A t \in Transactions :
                     reply[t] = "waiting" /\ reply'[t] = "saved"
                       => \A n \in Nodes : file'[n].layout = t
           Same == \A t \in Transactions : reply'[t] = "saved" => reply[t] = "saved"
<1>1. ASSUME IInv, Next
      PROVE  News
  <2>1. Values /\ Boxes /\ Safe
    BY <1>1 DEF IInv, Core
  <2>2. ASSUME NEW n \in Nodes, HandleResult(n)
        PROVE  News
    <3>1. CASE Head(inbox[n]).ok
      <4>1. /\ reply' = [reply EXCEPT ![pending[n].id] = "saved"] /\ UNCHANGED file
            /\ pending[n].asked /\ pending[n].id = Id(n)
        BY <2>2, <3>1 DEF HandleResult, Mine, Answer, disk
      <4>2. Means(n, Head(inbox[n])) /\ Head(inbox[n]).type = "Result"
        BY <2>1, <2>2, HeadIn DEF HandleResult, Safe
      <4>3. file[Peer(n)].layout = pending[n].id /\ pending[n].committed
        BY <3>1, <4>1, <4>2 DEF Means, Id
      <4>4. file[n].layout = pending[n].id
        BY <2>1, <4>1, <4>3, HeadIn, <2>2, Fields DEF Safe, Saving, HandleResult
      <4> QED
        BY <2>1, <4>1, <4>3, <4>4, PeerIn DEF Values
    <3>2. CASE ~Head(inbox[n]).ok
      BY <2>1, <2>2, <3>2 DEF HandleResult, Answer, Values
    <3> QED
      BY <3>1, <3>2
  <2>3. ASSUME NEW n \in Nodes, Disconnect(n) \/ PeerClosed(n)
        PROVE  Same
    BY <2>1, <2>3 DEF Disconnect, PeerClosed, Closes, Answer, Values
  <2>4. ASSUME NEW n \in Nodes, Crash(n)
        PROVE  Same
    BY <2>1, <2>4 DEF Crash, Answer, Values
  <2>5. ASSUME NEW n \in Nodes, Apply(n)
        PROVE  Same
    BY <2>1, <2>5 DEF Apply, Answer, Values
  <2>6. ASSUME NEW n \in Nodes, Expire(n)
        PROVE  Same
    BY <2>1, <2>6 DEF Expire, Answer, Values
  <2>7. ASSUME NEW n \in Nodes, HandlePrepared(n)
        PROVE  Same
    BY <2>1, <2>7 DEF HandlePrepared, Answer, Values
  <2>8. ASSUME NEW n \in Nodes, HandleAbort(n)
        PROVE  Same
    BY <2>1, <2>8 DEF HandleAbort, Answer, Values
  <2>9. ASSUME \/ Connect
               \/ \E n \in Nodes : \/ HandEdit(n) \/ HandlePrepare(n)
                                   \/ HandleCommit(n) \/ Ignore(n)
                                   \/ CheckCommit(n) \/ CheckUndo(n) \/ Undo(n)
        PROVE  Same
    BY <2>9 DEF Connect, HandEdit, HandlePrepare, HandleCommit, Ignore, CheckCommit,
         CheckUndo, Undo
  <2>10. Same => News
    OBVIOUS
  <2> HIDE DEF Same, News
  <2> QED
    BY <1>1, <2>2, <2>3, <2>4, <2>5, <2>6, <2>7, <2>8, <2>9, <2>10 DEF Next
<1>2. ASSUME UNCHANGED vars
      PROVE  News
  BY <1>2 DEF vars
<1>3. IInv /\ [Next]_vars => [News]_vars
  BY <1>1, <1>2
<1> QED
  BY <1>3, Inductive, PTL DEF Spec, SavedMeansBoth

\* No edit by hand is lost to a commit prepared before it or to an undo, but one
\* that falls between the last comparison of that commit or undo and its rename.
THEOREM HandEditsKept == Spec => []EditsSurvive
<1> DEFINE
      Has(n, c) == 1..made[n] \subseteq c.edits \cup late[n]
      Kept(n) == /\ Has(n, file[n])
                 /\ phase[n] = "commit" => Has(n, pending[n].before)
                 /\ phase[n] = "undo" => Has(n, dropped[n].before)
      All == \A n \in Nodes : Kept(n)
<1>1. Init => All
  <2>1. 1..0 = {}
    OBVIOUS
  <2> QED
    BY <2>1 DEF Init
<1>2. ASSUME IInv, All, [Next]_vars
      PROVE  All'
  <2>1. /\ Values /\ Aside /\ DOMAIN file = Nodes /\ DOMAIN phase = Nodes
        /\ DOMAIN pending = Nodes /\ DOMAIN dropped = Nodes
        /\ DOMAIN made = Nodes /\ DOMAIN late = Nodes
        /\ \A q \in Nodes : made[q] \in Nat
    BY <1>2 DEF IInv, Core, Values, Aside
  <2>2. \A q \in Nodes : /\ After(pending[q]).edits = pending[q].before.edits
                         /\ After(dropped[q]).edits = dropped[q].before.edits
    BY <2>1, Fields DEF Values, After, Contents
  <2> DEFINE Written == made' = made /\ late' = late
             Others(n) == \A q \in Nodes \ {n} :
                            /\ file'[q] = file[q] /\ pending'[q] = pending[q]
                            /\ dropped'[q] = dropped[q] /\ phase'[q] = phase[q]
             Rests(n) == phase'[n] \notin {"commit", "undo"} /\ file'[n] = file[n]
  <2>3. ASSUME Written, NEW n \in Nodes, Others(n), Kept(n)'
        PROVE  All'
    BY <1>2, <2>3
  <2>4. ASSUME Written, NEW n \in Nodes, Others(n), Rests(n)
        PROVE  All'
    BY <1>2, <2>3, <2>4
  <2>5. ASSUME NEW n \in Nodes, Drop(n), UNCHANGED disk
        PROVE  All'
    BY <2>1, <2>4, <2>5 DEF Drop, Goes, disk
  <2>6. ASSUME NEW n \in Nodes, Disconnect(n) \/ PeerClosed(n) \/ Expire(n) \/ HandleAbort(n)
        PROVE  All'
    BY <2>5, <2>6 DEF Disconnect, PeerClosed, Closes, Expire, HandleAbort
  <2>7. ASSUME NEW n \in Nodes, Crash(n)
        PROVE  All'
    BY <2>1, <2>4, <2>7 DEF Crash, Goes, disk
  <2>8. ASSUME NEW n \in Nodes, CheckCommit(n)
        PROVE  All'
    BY <1>2, <2>1, <2>3, <2>8 DEF CheckCommit, Goes, disk
  <2>9. ASSUME NEW n \in Nodes, CheckUndo(n)
        PROVE  All'
    <3>1. CASE file[n] = After(dropped[n])
      BY <1>2, <2>1, <2>2, <2>3, <2>9, <3>1 DEF CheckUndo, Goes, disk
    <3>2. CASE file[n] # After(dropped[n])
      BY <2>1, <2>4, <2>9, <3>2 DEF CheckUndo, Stays, Goes, disk
    <3> QED
      BY <3>1, <3>2
  <2>10. ASSUME NEW n \in Nodes, NEW c, Writes(n, c), Goes(n, "free"), Has(n, c),
                \A q \in Nodes \ {n} : /\ pending'[q] = pending[q]
                                       /\ dropped'[q] = dropped[q]
         PROVE  All'
    <3>1. Written /\ Others(n)
      BY <2>1, <2>10 DEF Writes, Goes
    <3>2. Kept(n)'
      BY <2>1, <2>10 DEF Writes, Goes
    <3> QED
      BY <2>3, <3>1, <3>2
  <2>11. ASSUME NEW n \in Nodes, Undo(n)
         PROVE  All'
    <3>1. CASE Writes(n, dropped[n].before) /\ Goes(n, "free")
      <4>1. Has(n, dropped[n].before)
        BY <1>2, <2>11 DEF Undo
      <4>2. \A q \in Nodes \ {n} : pending'[q] = pending[q] /\ dropped'[q] = dropped[q]
        BY <2>1, <2>11 DEF Undo, Stays
      <4> QED
        BY <2>10, <3>1, <4>1, <4>2
    <3>2. CASE Stays(n) /\ UNCHANGED disk
      BY <2>1, <2>4, <2>11, <3>2 DEF Undo, Stays, Goes, disk
    <3> QED
      BY <2>11, <3>1, <3>2 DEF Undo
  <2>12. ASSUME NEW n \in Nodes, HandlePrepared(n) \/ HandleCommit(n)
         PROVE  All'
    <3>1. CASE phase[n] = "commit" /\ Writes(n, After(pending[n])) /\ Goes(n, "free")
      <4>1. Has(n, After(pending[n]))
        BY <1>2, <2>2, <3>1
      <4>2. CASE HandlePrepared(n) /\ dropped' = dropped
        BY <2>1, <2>10, <3>1, <4>1, <4>2 DEF HandlePrepared, Drop
      <4>3. CASE HandlePrepared(n) /\ Drop(n) /\ UNCHANGED disk
        BY <2>5, <4>3
      <4>4. CASE HandleCommit(n)
        BY <2>1, <2>10, <3>1, <4>1, <4>4 DEF HandleCommit
      <4> QED
        BY <2>12, <4>2, <4>3, <4>4 DEF HandlePrepared
    <3>2. CASE Drop(n) /\ UNCHANGED disk
      BY <2>5, <3>2
    <3>3. CASE /\ pending' = [pending EXCEPT ![n] = Nothing] /\ Goes(n, "free")
               /\ UNCHANGED <<disk, dropped>>
      BY <2>1, <2>4, <3>3 DEF Goes, disk
    <3> QED
      BY <2>12, <3>1, <3>2, <3>3 DEF HandlePrepared, HandleCommit
  <2>13. ASSUME NEW n \in Nodes, HandleResult(n)
         PROVE  All'
    <3>1. CASE Drop(n)
      BY <2>5, <2>13, <3>1 DEF HandleResult
    <3>2. CASE /\ pending' = [pending EXCEPT ![n] = Nothing] /\ Goes(n, "free")
               /\ UNCHANGED <<disk, dropped>>
      BY <2>1, <2>4, <3>2 DEF Goes, disk
    <3> QED
      BY <2>13, <3>1, <3>2 DEF HandleResult
  <2>14. ASSUME NEW n \in Nodes, Apply(n) \/ HandlePrepare(n)
         PROVE  All'
    <3>1. Written /\ Others(n)
      BY <2>1, <2>14 DEF Apply, HandlePrepare, disk
    <3>2. /\ file'[n] = file[n] /\ made'[n] = made[n] /\ late'[n] = late[n]
          /\ phase'[n] = phase[n] /\ dropped'[n] = dropped[n]
      BY <2>1, <2>14 DEF Apply, HandlePrepare, disk
    <3>3. pending'[n].before \in {file[n], pending[n].before}
      <4> DEFINE New(t, a) == [id |-> t, asked |-> a, before |-> file[n],
                               committed |-> FALSE]
      <4>1. ASSUME NEW r, r.before = file[n], pending' = [pending EXCEPT ![n] = r]
            PROVE  pending'[n].before = file[n]
        <5>1. pending'[n] = r
          BY <2>1, <4>1
        <5> QED
          BY <4>1, <5>1
      <4>2. \A t, a : New(t, a).before = file[n]
        OBVIOUS
      <4>3. CASE Apply(n)
        <5>1. pending' = pending \/ \E t : pending' = [pending EXCEPT ![n] = New(t, TRUE)]
          BY <4>3 DEF Apply
        <5>2. CASE pending' = pending
          BY <5>2
        <5>3. CASE \E t : pending' = [pending EXCEPT ![n] = New(t, TRUE)]
          <6>1. PICK t : pending' = [pending EXCEPT ![n] = New(t, TRUE)]
            BY <5>3
          <6> HIDE DEF New
          <6> QED
            BY <4>1, <4>2, <6>1
        <5> QED
          BY <5>1, <5>2, <5>3
      <4>4. CASE HandlePrepare(n)
        <5>1. pending' = pending \/ pending' = [pending EXCEPT ![n] = New(Id(n), FALSE)]
          BY <4>4 DEF HandlePrepare
        <5>2. CASE pending' = pending
          BY <5>2
        <5>3. CASE pending' = [pending EXCEPT ![n] = New(Id(n), FALSE)]
          <6> HIDE DEF New
          <6> QED
            BY <4>1, <4>2, <5>3
        <5> QED
          BY <5>1, <5>2, <5>3
      <4> QED
        BY <2>14, <4>3, <4>4
    <3>4. Kept(n)'
      BY <1>2, <3>2, <3>3
    <3> QED
      BY <2>3, <3>1, <3>4
  <2>15. ASSUME NEW n \in Nodes, HandEdit(n)
         PROVE  All'
    <3>1. /\ made'[n] = made[n] + 1 /\ phase'[n] = phase[n]
          /\ pending'[n] = pending[n] /\ dropped'[n] = dropped[n]
          /\ file'[n].edits = file[n].edits \cup {made[n] + 1}
          /\ late[n] \subseteq late'[n]
          /\ phase[n] \in {"commit", "undo"} => made[n] + 1 \in late'[n]
      BY <2>1, <2>15 DEF HandEdit, Values, Contents, Aside
    <3>2. 1..made'[n] = 1..made[n] \cup {made[n] + 1}
      BY <2>1, <3>1
    <3>3. Kept(n)'
      BY <1>2, <3>1, <3>2
    <3>4. \A q \in Nodes \ {n} : Kept(q)'
      BY <1>2, <2>1, <2>15 DEF HandEdit
    <3> QED
      BY <3>3, <3>4
  <2>16. CASE UNCHANGED <<disk, pending, dropped, phase>>
    BY <1>2, <2>16 DEF disk
  <2>17. ASSUME Connect \/ (\E n \in Nodes : Ignore(n)) \/ UNCHANGED vars
         PROVE  UNCHANGED <<disk, pending, dropped, phase>>
    BY <2>17 DEF Connect, Ignore, vars
  <2> HIDE DEF All
  <2> QED
    BY <1>2, <2>6, <2>7, <2>8, <2>9, <2>11, <2>12, <2>13, <2>14, <2>15, <2>16, <2>17
       DEF Next
<1>3. IInv /\ All /\ [Next]_vars => All'
  BY <1>2
<1>4. All => EditsSurvive
  BY DEF EditsSurvive
<1> HIDE DEF All
<1> QED
  BY <1>1, <1>3, <1>4, Inductive, PTL DEF Spec

-----------------------------------------------------------------------------
(* Whole quotients *)

\* A quotient is the whole number below the fraction.
LEMMA QuotientBounds ==
    ASSUME NEW a \in Nat, NEW b \in Nat \ {0}
    PROVE  /\ a \div b \in Nat
           /\ b * (a \div b) <= a
           /\ a < b * (a \div b) + b
OBVIOUS

\* A larger number has no smaller quotient.
LEMMA QuotientMonotone ==
    ASSUME NEW a \in Nat, NEW c \in Nat, NEW b \in Nat \ {0}, a <= c
    PROVE  a \div b <= c \div b
OBVIOUS

-----------------------------------------------------------------------------
(* Layouts *)

\* Both computers hold the same edges to be active: an edge that the pointer can
\* cross on one side is found by the other side, where it can be crossed too.
THEOREM SameEdgesActive ==
    ASSUME NEW local, NEW peer, NEW here, NEW there
    PROVE  {local[i].id : i \in Active(local, here, peer, there)}
              = {peer[j].id : j \in Active(peer, there, local, here)}
BY DEF Active

\* An id names one edge: the receiver's search finds the edge that was meant.
THEOREM OneEdgePerId ==
    ASSUME NEW edges, ValidLayout(edges),
           NEW i \in DOMAIN edges, NEW j \in DOMAIN edges,
           edges[i].id = edges[j].id
    PROVE  i = j
BY DEF ValidLayout

\* A layout that was saved on both sides is active as a whole wherever its
\* outputs are there.
THEOREM SavedLayoutActive ==
    ASSUME NEW request, ValidRequest(request), NEW here, NEW there,
           \A i \in DOMAIN request.local : request.local[i].output \in here,
           \A j \in DOMAIN request.peer : request.peer[j].output \in there
    PROVE  /\ Active(request.local, here, request.peer, there) = DOMAIN request.local
           /\ Active(request.peer, there, request.local, here) = DOMAIN request.peer
BY DEF ValidRequest, IdsOf, Active

-----------------------------------------------------------------------------
(* Strips *)

LEMMA EdgeTypes ==
    ASSUME Whole \in Nat, NEW e \in Edges, ValidSpan(e), NEW size \in Sizes
    PROVE  /\ Whole \in Nat \ {0}
           /\ e.start \in Nat /\ e.end \in Nat /\ e.end - e.start \in Nat \ {0}
           /\ e.start < Whole /\ e.end <= Whole
           /\ e.side \in Sides
           /\ size.width \in Nat \ {0} /\ size.height \in Nat \ {0}
           /\ LengthOf(e, size) \in Nat \ {0}
<1>1. e.start \in Int /\ e.end \in Int /\ e.side \in Sides
  BY DEF Edges
<1>2. size.width \in Nat \ {0} /\ size.height \in Nat \ {0}
  BY DEF Sizes
<1>3. 0 <= e.start /\ e.end <= Whole /\ e.start < e.end
  BY DEF ValidSpan
<1>4. LengthOf(e, size) \in Nat \ {0}
  BY <1>2 DEF LengthOf
<1>5. /\ Whole \in Nat \ {0}
      /\ e.start \in Nat /\ e.end \in Nat /\ e.end - e.start \in Nat \ {0}
      /\ e.start < Whole /\ e.end <= Whole
  BY <1>1, <1>3
<1> QED
  BY <1>1, <1>2, <1>4, <1>5

\* What is computed is close by: n times as close as a pixel is wide, for every n
\* up to Precision.
LEMMA Close ==
    ASSUME Precision \in Nat, NEW n \in 1..Precision, NEW unit \in Nat \ {0},
           NEW r \in Roundings(unit), NEW x \in Nat
    PROVE  r[x] \in Nat /\ n * r[x] <= n * x + unit /\ n * x <= n * r[x] + unit
<1>1. /\ r[x] \in Nat
      /\ Precision * r[x] <= Precision * x + unit
      /\ Precision * x <= Precision * r[x] + unit
  BY DEF Roundings
<1>2. \A a, b \in Nat : Precision * a <= Precision * b + unit => n * a <= n * b + unit
  <2> SUFFICES ASSUME NEW a \in Nat, NEW b \in Nat, Precision * a <= Precision * b + unit
               PROVE  n * a <= n * b + unit
    OBVIOUS
  <2>1. CASE a <= b
    BY <2>1
  <2>2. CASE a > b
    <3>1. PICK d \in Nat : a = b + d
      <4>1. a - b \in Nat /\ a = b + (a - b)
        BY <2>2
      <4> QED
        BY <4>1
    <3>2. Precision * d <= unit
      BY <3>1
    <3>3. n * d <= Precision * d
      OBVIOUS
    <3>4. n * d \in Nat /\ Precision * d \in Nat /\ n * a = n * b + n * d /\ n * b \in Nat
      BY <3>1
    <3> QED
      BY <3>2, <3>3, <3>4
  <2> QED
    BY <2>1, <2>2
<1> QED
  BY <1>1, <1>2

\* Where a strip begins and ends, in parts of which four times Whole make a pixel.
LEMMA StripEnds ==
    ASSUME Whole \in Nat, Precision \in Nat, Precision >= 4,
           NEW r \in Roundings(Whole), NEW q \in Roundings(Whole),
           NEW e \in Edges, ValidSpan(e), NEW size \in Sizes
    PROVE  LET L == LengthOf(e, size)
               o == Offset(e, size, r)
               k == Extent(e, size, q) IN
           /\ o \in Nat /\ k \in Nat /\ o + k <= L
           /\ 4 * (Whole * o) <= 4 * (e.start * L) + Whole
           /\ 4 * (e.start * L) < 4 * (Whole * o) + 5 * Whole
           /\ 4 * (Whole * (o + k)) <= 4 * (e.end * L) + 2 * Whole
           /\ 4 * (e.end * L) < 4 * (Whole * (o + k)) + 10 * Whole
<1> DEFINE L == LengthOf(e, size)
           o == Offset(e, size, r)
           k == Extent(e, size, q)
           head == e.start * L
           span == (e.end - e.start) * L
<1>1. /\ Whole \in Nat \ {0} /\ L \in Nat
      /\ e.start \in Nat /\ e.end \in Nat /\ e.end - e.start \in Nat /\ e.end <= Whole
  BY EdgeTypes
<1>2. o = r[head] \div Whole /\ k = q[span] \div Whole
  BY DEF Offset, Extent
<1> HIDE DEF L, o, k
<1>3. /\ head \in Nat /\ span \in Nat /\ head + span = e.end * L
      /\ e.end * L <= Whole * L /\ Whole * L \in Nat
  BY <1>1
<1> HIDE DEF head, span
<1>4. /\ r[head] \in Nat /\ 4 * r[head] <= 4 * head + Whole /\ 4 * head <= 4 * r[head] + Whole
      /\ q[span] \in Nat /\ 4 * q[span] <= 4 * span + Whole /\ 4 * span <= 4 * q[span] + Whole
  BY <1>1, <1>3, Close
<1>5. /\ o \in Nat /\ Whole * o <= r[head] /\ r[head] < Whole * o + Whole
      /\ k \in Nat /\ Whole * k <= q[span] /\ q[span] < Whole * k + Whole
  BY <1>1, <1>2, <1>4, QuotientBounds
<1>6. /\ Whole * o \in Nat /\ Whole * k \in Nat /\ Whole * (o + k) = Whole * o + Whole * k
      /\ Whole * (L + 1) = Whole * L + Whole
  BY <1>1, <1>5
<1>7. /\ 4 * (Whole * o) <= 4 * head + Whole
      /\ 4 * head < 4 * (Whole * o) + 5 * Whole
      /\ 4 * (Whole * (o + k)) <= 4 * (e.end * L) + 2 * Whole
      /\ 4 * (e.end * L) < 4 * (Whole * (o + k)) + 10 * Whole
  BY <1>1, <1>3, <1>4, <1>5, <1>6
<1>8. o + k <= L
  <2>1. Whole * (o + k) < Whole * (L + 1)
    BY <1>1, <1>3, <1>6, <1>7
  <2>2. \A x, y \in Nat : Whole * x < Whole * y => x < y
    BY <1>1
  <2> QED
    BY <1>1, <1>5, <2>1, <2>2
<1> QED
  BY <1>5, <1>7, <1>8 DEF L, o, k, head

\* A strip lies within its output.
THEOREM StripsWithin ==
    ASSUME Whole \in Nat, Precision \in Nat, Precision >= 4,
           NEW r \in Roundings(Whole), NEW q \in Roundings(Whole),
           NEW e \in Edges, ValidSpan(e),
           NEW size \in Sizes, size.width >= 2, size.height >= 2,
           NEW point \in [x : Int, y : Int], OnStrip(e, size, r, q, point)
    PROVE  ValidPosition(point, size)
<1>1. /\ Offset(e, size, r) \in Nat /\ Extent(e, size, q) \in Nat
      /\ Offset(e, size, r) + Extent(e, size, q) <= LengthOf(e, size)
  BY StripEnds
<1>2. /\ point.x \in Int /\ point.y \in Int
      /\ size.width \in Nat \ {0} /\ size.height \in Nat \ {0}
  BY EdgeTypes
<1>3. e.side \in Sides
  BY EdgeTypes
<1> QED
  BY <1>1, <1>2, <1>3 DEF OnStrip, Along, Depth, LengthOf, ValidPosition, Sides

\* Where one span ends before another begins, its strip ends at most one pixel
\* after the other's begins.
LEMMA StripsInOrder ==
    ASSUME Whole \in Nat, Precision \in Nat, Precision >= 4,
           NEW r \in Roundings(Whole), NEW q \in Roundings(Whole),
           NEW e \in Edges, ValidSpan(e), NEW f \in Edges, ValidSpan(f),
           e.side = f.side, e.end <= f.start, NEW size \in Sizes
    PROVE  Offset(e, size, r) + Extent(e, size, q) <= Offset(f, size, r) + 1
<1> DEFINE L == LengthOf(e, size)
           o == Offset(e, size, r)
           k == Extent(e, size, q)
           p == Offset(f, size, r)
<1>1. L = LengthOf(f, size)
  BY DEF LengthOf
<1>2. Whole \in Nat \ {0} /\ L \in Nat /\ e.end \in Nat /\ f.start \in Nat
  BY EdgeTypes
<1>3. /\ o \in Nat /\ k \in Nat /\ p \in Nat
      /\ 4 * (Whole * (o + k)) <= 4 * (e.end * L) + 2 * Whole
      /\ 4 * (f.start * L) < 4 * (Whole * p) + 5 * Whole
  BY <1>1, StripEnds
<1> HIDE DEF L, o, k, p
<1>4. e.end * L \in Nat /\ f.start * L \in Nat /\ e.end * L <= f.start * L
  BY <1>2
<1>5. Whole * (o + k) \in Nat /\ Whole * p \in Nat /\ Whole * (p + 2) = Whole * p + 2 * Whole
  BY <1>2, <1>3
<1>6. Whole * (o + k) < Whole * (p + 2)
  <2> DEFINE x == Whole * (o + k)
             u == Whole * p
             y == e.end * L
             z == f.start * L
  <2>1. /\ x \in Nat /\ u \in Nat /\ y \in Nat /\ z \in Nat /\ y <= z
        /\ 4 * x <= 4 * y + 2 * Whole /\ 4 * z < 4 * u + 5 * Whole
        /\ Whole * (p + 2) = u + 2 * Whole
    BY <1>3, <1>4, <1>5
  <2> HIDE DEF x, u, y, z
  <2>2. x < Whole * (p + 2)
    BY <1>2, <2>1
  <2> QED
    BY <2>2 DEF x
<1>7. \A x, y \in Nat : Whole * x < Whole * y => x < y
  BY <1>2
<1> QED
  BY <1>3, <1>6, <1>7 DEF o, k, p

\* Edges of one side of an output have strips that share at most one pixel of that
\* side, in spite of rounding: there only it may be unclear which edge is crossed.
THEOREM StripsApart ==
    ASSUME Whole \in Nat, Precision \in Nat, Precision >= 4,
           NEW r \in Roundings(Whole), NEW q \in Roundings(Whole),
           NEW edges, ValidLayout(edges), NEW size \in Sizes,
           NEW i \in DOMAIN edges, NEW j \in DOMAIN edges, i # j,
           edges[i].output = edges[j].output, edges[i].side = edges[j].side,
           NEW here \in [x : Int, y : Int], NEW there \in [x : Int, y : Int],
           OnStrip(edges[i], size, r, q, here), OnStrip(edges[j], size, r, q, here),
           OnStrip(edges[i], size, r, q, there), OnStrip(edges[j], size, r, q, there)
    PROVE  Along(edges[i], here) = Along(edges[i], there)
<1>1. ASSUME NEW e \in Edges, NEW f \in Edges, ValidSpan(e), ValidSpan(f),
             e.side = f.side, e.end <= f.start,
             NEW point \in [x : Int, y : Int],
             OnStrip(e, size, r, q, point), OnStrip(f, size, r, q, point)
      PROVE  Along(e, point) = Offset(f, size, r)
  <2>1. /\ Offset(e, size, r) \in Nat /\ Extent(e, size, q) \in Nat
        /\ Offset(f, size, r) \in Nat
    BY <1>1, StripEnds
  <2>2. Offset(e, size, r) + Extent(e, size, q) <= Offset(f, size, r) + 1
    BY <1>1, StripsInOrder
  <2>3. Along(e, point) = Along(f, point) /\ Along(e, point) \in Int
    BY <1>1 DEF Along
  <2>4. /\ Along(e, point) <= Offset(e, size, r) + Extent(e, size, q) - 1
        /\ Offset(f, size, r) <= Along(f, point)
    BY <1>1, <2>1, <2>3 DEF OnStrip
  <2> QED
    BY <2>1, <2>2, <2>3, <2>4
<1>2. /\ edges[i] \in Edges /\ edges[j] \in Edges
      /\ ValidSpan(edges[i]) /\ ValidSpan(edges[j]) /\ ~Overlap(edges[i], edges[j])
  BY DEF ValidLayout
<1>3. edges[i].end <= edges[j].start \/ edges[j].end <= edges[i].start
  BY <1>2 DEF Overlap, Edges
<1>4. \A point : Along(edges[i], point) = Along(edges[j], point)
  BY DEF Along
<1>5. CASE edges[i].end <= edges[j].start
  BY <1>1, <1>2, <1>5
<1>6. CASE edges[j].end <= edges[i].start
  BY <1>1, <1>2, <1>4, <1>6
<1> QED
  BY <1>3, <1>5, <1>6

\* Where one span begins at the end of another, at most two pixels between their
\* strips let the pointer stay, and at most one is of both.
THEOREM StripsMeet ==
    ASSUME Whole \in Nat, Precision \in Nat, Precision >= 4,
           NEW r \in Roundings(Whole), NEW q \in Roundings(Whole),
           NEW e \in Edges, ValidSpan(e), NEW f \in Edges, ValidSpan(f),
           e.side = f.side, e.end = f.start, NEW size \in Sizes
    PROVE  Offset(f, size, r) - (Offset(e, size, r) + Extent(e, size, q)) \in (-1)..2
<1> DEFINE L == LengthOf(e, size)
           o == Offset(e, size, r)
           k == Extent(e, size, q)
           p == Offset(f, size, r)
<1>1. L = LengthOf(f, size)
  BY DEF LengthOf
<1>2. Whole \in Nat \ {0} /\ L \in Nat /\ e.end \in Nat /\ e.end * L \in Nat
  BY EdgeTypes
<1>3. /\ o \in Nat /\ k \in Nat /\ p \in Nat /\ o + k <= p + 1
      /\ 4 * (e.end * L) < 4 * (Whole * (o + k)) + 10 * Whole
      /\ 4 * (Whole * p) <= 4 * (e.end * L) + Whole
  <2>1. e.end <= f.start
    BY <1>2
  <2> QED
    BY <1>1, <2>1, StripEnds, StripsInOrder
<1> HIDE DEF L, o, k, p
<1>4. /\ Whole * p \in Nat /\ Whole * (o + k) \in Nat
      /\ Whole * (o + k + 3) = Whole * (o + k) + 3 * Whole
  BY <1>2, <1>3
<1>5. Whole * p < Whole * (o + k + 3)
  <2> DEFINE x == Whole * (o + k)
             u == Whole * p
             y == e.end * L
  <2>1. /\ x \in Nat /\ u \in Nat /\ y \in Nat
        /\ 4 * y < 4 * x + 10 * Whole /\ 4 * u <= 4 * y + Whole
        /\ Whole * (o + k + 3) = x + 3 * Whole
    BY <1>2, <1>3, <1>4
  <2> HIDE DEF x, u, y
  <2>2. u < Whole * (o + k + 3)
    BY <1>2, <2>1
  <2> QED
    BY <2>2 DEF u
<1>6. \A x, y \in Nat : Whole * x < Whole * y => x < y
  BY <1>2
<1>7. p < o + k + 3
  BY <1>3, <1>5, <1>6
<1>8. p - (o + k) \in (-1)..2
  BY <1>3, <1>7
<1> QED
  BY <1>8 DEF o, k, p

\* What prepare_edges accepts for an output is what the capture accepts on it.
THEOREM AcceptedStrips ==
    ASSUME Whole \in Nat, NEW q \in Roundings(Whole),
           NEW e \in Edges, ValidSpan(e), NEW size \in Sizes
    PROVE  Accepted(e, size, q) <=> Extent(e, size, q) >= 1
<1> DEFINE span == (e.end - e.start) * LengthOf(e, size)
<1>1. Whole \in Nat \ {0} /\ q[span] \in Nat
  <2>1. Whole \in Nat \ {0} /\ span \in Nat
    BY EdgeTypes
  <2> QED
    BY <2>1 DEF Roundings
<1> HIDE DEF span
<1>2. q[span] >= Whole <=> q[span] \div Whole >= 1
  BY <1>1
<1> QED
  BY <1>2 DEF Accepted, Extent, span

-----------------------------------------------------------------------------
(* Entry *)

Across(side) == IF side \in {"top", "bottom"} THEN {"left", "right"}
                ELSE {"top", "bottom"}

LEMMA TangentBounds ==
    ASSUME Whole \in Nat, NEW e \in Edges, ValidSpan(e),
           NEW length \in Nat \ {0}, NEW whole \in Nat \ {0}, NEW part \in 0..whole,
           NEW r \in Roundings(Whole * whole)
    PROVE  Tangent(e, length, part, whole, r) \in 0 .. (length - 1)
<1> DEFINE scaled == (e.start * whole + part * (e.end - e.start)) * length
           pixel  == r[scaled] \div (Whole * whole)
<1>1. /\ Whole \in Nat \ {0} /\ e.start \in Nat /\ e.end - e.start \in Nat /\ part \in Nat
  BY DEF Edges, ValidSpan
<1>2. scaled \in Nat /\ Whole * whole \in Nat \ {0}
  BY <1>1
<1> HIDE DEF scaled
<1>3. r[scaled] \in Nat
  BY <1>2 DEF Roundings
<1>4. pixel \in Nat
  BY <1>2, <1>3, QuotientBounds
<1> QED
  BY <1>4 DEF Tangent, scaled

\* Wherever the pointer enters, the position is one that the peer's own check of
\* an absolute position accepts, down to an output of one pixel.
THEOREM EntryValid ==
    ASSUME Whole \in Nat, NEW e \in Edges, ValidSpan(e), NEW size \in Sizes,
           NEW whole \in Nat \ {0}, NEW part \in 0..whole,
           NEW r \in Roundings(Whole * whole)
    PROVE  ValidPosition(Placement(e, size, part, whole, r), size)
<1> DEFINE along == Tangent(e, LengthOf(e, size), part, whole, r)
<1>1. /\ size.width \in Nat \ {0} /\ size.height \in Nat \ {0}
      /\ e.side \in Sides /\ LengthOf(e, size) \in Nat \ {0}
  BY EdgeTypes
<1>2. along \in 0 .. (LengthOf(e, size) - 1)
  BY <1>1, TangentBounds
<1> HIDE DEF along
<1>3. \A n \in Nat \ {0} : Near(n) \in 0 .. (n - 1) /\ Far(n) \in 0 .. (n - 1)
  BY DEF Near, Far
<1> QED
  BY <1>1, <1>2, <1>3 DEF Placement, ValidPosition, LengthOf, Sides, along

\* The pointer enters off the strip it came through and off every other strip of
\* its side and of the opposite one: it does not bounce.  Only a strip across the
\* corner can be where it enters, and only in the last two pixels.
THEOREM EntryClear ==
    ASSUME Whole \in Nat, NEW e \in Edges, ValidSpan(e),
           NEW f \in Edges, ValidSpan(f),
           NEW size \in Sizes, size.width >= 8, size.height >= 8,
           NEW whole \in Nat \ {0}, NEW part \in 0..whole,
           NEW r \in Roundings(Whole * whole), NEW p, NEW q,
           OnStrip(f, size, p, q, Placement(e, size, part, whole, r))
    PROVE  /\ f.side \in Across(e.side)
           /\ Along(e, Placement(e, size, part, whole, r))
                 \in 0..1 \cup (LengthOf(e, size) - 2) .. (LengthOf(e, size) - 1)
<1> DEFINE along == Tangent(e, LengthOf(e, size), part, whole, r)
<1>1. /\ size.width \in Nat \ {0} /\ size.height \in Nat \ {0}
      /\ e.side \in Sides /\ f.side \in Sides /\ LengthOf(e, size) \in Nat \ {0}
  BY EdgeTypes
<1>2. along \in 0 .. (LengthOf(e, size) - 1)
  BY <1>1, TangentBounds
<1> HIDE DEF along
<1>3. Placement(e, size, part, whole, r) =
         [x |-> IF e.side = "left" THEN 4
                ELSE IF e.side = "right" THEN size.width - 4 ELSE along,
          y |-> IF e.side = "top" THEN 4
                ELSE IF e.side = "bottom" THEN size.height - 4 ELSE along]
  BY <1>1 DEF Placement, Near, Far, along
<1>4. Depth(f, size, Placement(e, size, part, whole, r)) \in 0..1
  BY DEF OnStrip
<1> QED
  BY <1>1, <1>2, <1>3, <1>4 DEF Depth, Across, Along, LengthOf, Sides

\* A position that is farther along the span where the pointer leaves is not
\* nearer where it enters.
THEOREM EntryInOrder ==
    ASSUME Whole \in Nat, NEW e \in Edges, ValidSpan(e), NEW length \in Nat \ {0},
           NEW whole \in Nat \ {0}, NEW part \in 0..whole, NEW more \in part..whole,
           NEW r \in Roundings(Whole * whole)
    PROVE  Tangent(e, length, part, whole, r) <= Tangent(e, length, more, whole, r)
<1> DEFINE scaled(p) == (e.start * whole + p * (e.end - e.start)) * length
           b         == Whole * whole
<1>1. /\ Whole \in Nat \ {0} /\ e.start \in Nat /\ e.end - e.start \in Nat
      /\ part \in Nat /\ more \in Nat /\ part <= more
  BY DEF Edges, ValidSpan
<1>2. scaled(part) \in Nat /\ scaled(more) \in Nat /\ b \in Nat \ {0}
  BY <1>1
<1>3. part * (e.end - e.start) <= more * (e.end - e.start)
  BY <1>1
<1>4. e.start * whole + part * (e.end - e.start) <= e.start * whole + more * (e.end - e.start)
  BY <1>1, <1>3
<1>5. scaled(part) <= scaled(more)
  <2>1. \A a, c \in Nat : a <= c => a * length <= c * length
    OBVIOUS
  <2>2. /\ e.start * whole + part * (e.end - e.start) \in Nat
        /\ e.start * whole + more * (e.end - e.start) \in Nat
    BY <1>1
  <2> QED
    BY <1>4, <2>1, <2>2
<1> HIDE DEF scaled, b
<1>6. /\ r[scaled(part)] \in Nat /\ r[scaled(more)] \in Nat
      /\ r[scaled(part)] <= r[scaled(more)]
  BY <1>2, <1>5 DEF Roundings
<1>7. r[scaled(part)] \div b <= r[scaled(more)] \div b
  BY <1>2, <1>6, QuotientMonotone
<1>8. r[scaled(part)] \div b \in Nat /\ r[scaled(more)] \div b \in Nat
  BY <1>2, <1>6, QuotientBounds
<1> QED
  BY <1>7, <1>8 DEF Tangent, scaled, b

\* Between two sides with the same span and size the pointer enters within two
\* pixels of where it left: it leaves at pixel a \div steps of a strip, the
\* compositor telling where to a fraction of a pixel (wl_fixed has 256 steps).
THEOREM EntryKeepsPlace ==
    ASSUME Whole \in Nat, NEW steps \in Nat \ {0},
           Precision \in Nat, Precision >= 4 * steps,
           NEW r \in Roundings(Whole), NEW q \in Roundings(Whole),
           NEW e \in Edges, ValidSpan(e), NEW size \in Sizes,
           NEW a \in 0 .. (Extent(e, size, q) * steps - 1),
           NEW t \in Roundings(Whole * (Extent(e, size, q) * steps))
    PROVE  Tangent(e, LengthOf(e, size), a, Extent(e, size, q) * steps, t)
              - (Offset(e, size, r) + a \div steps) \in (-1)..2
<1> DEFINE L == LengthOf(e, size)
           k == Extent(e, size, q)
           o == Offset(e, size, r)
           j == a \div steps
           n == 4 * steps
           whole == k * steps
           U == Whole * whole
           head == e.start * L
           span == (e.end - e.start) * L
           scaled == (e.start * whole + a * (e.end - e.start)) * L
           v == t[scaled]
<1>1. /\ Whole \in Nat \ {0} /\ L \in Nat \ {0}
      /\ e.start \in Nat /\ e.end - e.start \in Nat \ {0}
      /\ n \in 1..Precision /\ n >= 4
  BY EdgeTypes
<1>2. k \in Nat /\ o \in Nat /\ o + k <= L
  BY <1>1, StripEnds
<1>3. /\ whole \in Nat \ {0} /\ a \in Nat /\ a + 1 <= whole /\ k \in Nat \ {0}
  BY <1>2
<1>4. head \in Nat /\ span \in Nat
  BY <1>1
<1>5. o = r[head] \div Whole /\ k = q[span] \div Whole
  BY DEF Offset, Extent
<1>6. Tangent(e, L, a, whole, t) = IF v \div U < L THEN v \div U ELSE L - 1
  BY DEF Tangent
<1>7. t \in Roundings(U)
  OBVIOUS
<1> HIDE DEF k, o, L
<1>8. /\ j \in Nat /\ steps * j <= a /\ a + 1 <= steps * j + steps
  <2>1. /\ a \div steps \in Nat /\ steps * (a \div steps) <= a
        /\ a < steps * (a \div steps) + steps
    BY <1>3, QuotientBounds
  <2> QED
    BY <1>3, <2>1
<1>9. scaled = whole * head + a * span
  BY <1>1, <1>3
<1>10. U \in Nat \ {0} /\ U = (Whole * k) * steps
  BY <1>1, <1>3
<1> HIDE DEF j, whole, U, head, span, scaled, v, n
<1>11. scaled \in Nat
  BY <1>3, <1>4, <1>9
<1>12. /\ n * head + Whole >= n * (Whole * o) /\ n * head < n * (Whole * o) + n * Whole + Whole
       /\ n * span + Whole >= n * (Whole * k) /\ n * span < n * (Whole * k) + n * Whole + Whole
  <2>1. ASSUME NEW x \in Nat, NEW w \in Roundings(Whole), NEW y, y = w[x] \div Whole
        PROVE  n * x + Whole >= n * (Whole * y) /\ n * x < n * (Whole * y) + n * Whole + Whole
    <3>1. w[x] \in Nat /\ n * w[x] <= n * x + Whole /\ n * x <= n * w[x] + Whole
      BY <1>1, Close
    <3>2. y \in Nat /\ Whole * y <= w[x] /\ w[x] + 1 <= Whole * y + Whole
      <4>1. y \in Nat /\ Whole * y <= w[x] /\ w[x] < Whole * y + Whole
        BY <1>1, <2>1, <3>1, QuotientBounds
      <4>2. Whole * y \in Nat
        BY <1>1, <4>1
      <4> QED
        BY <1>1, <3>1, <4>1, <4>2
    <3>3. \A b, c \in Nat : b <= c => n * b <= n * c
      BY <1>1
    <3>4. Whole * y \in Nat /\ Whole * y + Whole \in Nat /\ w[x] + 1 \in Nat
      BY <1>1, <3>1, <3>2
    <3>5. n * (Whole * y) <= n * w[x] /\ n * (w[x] + 1) <= n * (Whole * y + Whole)
      BY <3>1, <3>2, <3>3, <3>4
    <3>6. /\ n * (w[x] + 1) = n * w[x] + n /\ n * (Whole * y + Whole) = n * (Whole * y) + n * Whole
          /\ n * w[x] \in Nat /\ n * (Whole * y) \in Nat /\ n * Whole \in Nat
      BY <1>1, <3>1, <3>2
    <3> QED
      BY <1>1, <3>1, <3>5, <3>6
  <2> QED
    BY <1>4, <1>5, <2>1
<1>13. v \in Nat /\ n * v <= n * scaled + U /\ n * scaled <= n * v + U
  BY <1>1, <1>7, <1>10, <1>11, Close DEF v
<1>14. /\ n * scaled = whole * (n * head) + a * (n * span)
       /\ n * head \in Nat /\ n * span \in Nat
       /\ n * (Whole * o) \in Nat /\ n * (Whole * k) \in Nat /\ n * Whole \in Nat
  BY <1>1, <1>2, <1>3, <1>4, <1>9
<1>15. /\ whole * (n * (Whole * o)) <= whole * (n * head) + whole * Whole
       /\ whole * (n * head) <= whole * (n * (Whole * o)) + whole * (n * Whole) + whole * Whole
       /\ a * (n * (Whole * k)) <= a * (n * span) + a * Whole
       /\ a * (n * span) <= a * (n * (Whole * k)) + a * (n * Whole) + a * Whole
  <2>1. ASSUME NEW z \in Nat, NEW x \in Nat, NEW b \in Nat, NEW c \in Nat, NEW d \in Nat,
               x <= b + c + d
        PROVE  z * x <= z * b + z * c + z * d
    <3>1. z * x <= z * (b + c + d)
      BY <2>1
    <3> QED
      BY <3>1
  <2>2. /\ n * (Whole * o) <= n * head + Whole + 0
        /\ n * head <= n * (Whole * o) + n * Whole + Whole
        /\ n * (Whole * k) <= n * span + Whole + 0
        /\ n * span <= n * (Whole * k) + n * Whole + Whole
    BY <1>1, <1>12, <1>14
  <2>3. whole \in Nat /\ a \in Nat /\ Whole \in Nat
    BY <1>1, <1>3
  <2>4. /\ whole * (n * (Whole * o)) <= whole * (n * head) + whole * Whole + whole * 0
        /\ a * (n * (Whole * k)) <= a * (n * span) + a * Whole + a * 0
    BY <1>14, <2>1, <2>2, <2>3
  <2>5. /\ whole * (n * head) <= whole * (n * (Whole * o)) + whole * (n * Whole) + whole * Whole
        /\ a * (n * span) <= a * (n * (Whole * k)) + a * (n * Whole) + a * Whole
    BY <1>14, <2>1, <2>2, <2>3
  <2> QED
    BY <1>14, <2>3, <2>4, <2>5
<1> DEFINE X == n * U
<1>16. /\ whole * Whole = U /\ whole * (n * Whole) = X /\ X \in Nat
       /\ whole * (n * (Whole * o)) = X * o
       /\ a * Whole + Whole <= U /\ a * (n * Whole) + n * Whole <= X
       /\ a * Whole \in Nat /\ a * (n * Whole) \in Nat
  <2>1. /\ whole * Whole = U /\ whole * (n * Whole) = X /\ X \in Nat
        /\ whole * (n * (Whole * o)) = X * o
    BY <1>1, <1>2, <1>3 DEF U
  <2>2. \A z \in Nat : (a + 1) * z <= whole * z /\ (a + 1) * z = a * z + z
    BY <1>3
  <2> QED
    BY <1>1, <1>3, <1>14, <2>1, <2>2
<1>17. /\ X * j <= a * (n * (Whole * k))
       /\ a * (n * (Whole * k)) + n * (Whole * k) <= X * j + X
       /\ n * (Whole * k) = 4 * U
  <2> DEFINE z == n * (Whole * k)
  <2>1. z \in Nat /\ z * steps = X /\ z = 4 * U
    <3>1. Whole * k \in Nat
      BY <1>1, <1>2
    <3>2. n = 4 * steps /\ steps \in Nat
      BY DEF n
    <3> QED
      BY <1>10, <3>1, <3>2
  <2> HIDE DEF z
  <2>2. z * (steps * j) <= z * a /\ z * (a + 1) <= z * (steps * j + steps)
    BY <1>3, <1>8, <2>1
  <2>3. z * (steps * j) = X * j /\ z * (steps * j + steps) = X * j + X
        /\ z * (a + 1) = a * z + z /\ z * a = a * z
    BY <1>3, <1>8, <2>1
  <2> QED
    BY <2>1, <2>2, <2>3 DEF z
<1>18. /\ X * o \in Nat /\ X * j \in Nat
       /\ a * (n * (Whole * k)) \in Nat /\ a * (n * span) \in Nat
       /\ whole * (n * head) \in Nat
  BY <1>2, <1>3, <1>8, <1>14, <1>16
<1>19. /\ X * o + X * j <= n * v + 3 * U
       /\ n * v < X * o + X * j + 3 * X
  <2>1. X * o + X * j <= n * scaled + 2 * U
    BY <1>1, <1>10, <1>14, <1>15, <1>16, <1>17, <1>18
  <2>2. n * scaled + U < X * o + X * j + 3 * X
    BY <1>1, <1>10, <1>14, <1>15, <1>16, <1>17, <1>18
  <2>3. n * v \in Nat /\ n * scaled \in Nat
    BY <1>1, <1>11, <1>13
  <2> QED
    BY <1>10, <1>13, <1>16, <1>18, <2>1, <2>2, <2>3
<1>20. /\ U * (o + j) < U * (v \div U) + 2 * U
       /\ U * (v \div U) < U * (o + j + 3)
       /\ v \div U \in Nat
  <2>1. v \div U \in Nat /\ U * (v \div U) <= v /\ v < U * (v \div U) + U
    BY <1>10, <1>13, QuotientBounds
  <2>2. /\ X * o + X * j = n * (U * (o + j)) /\ X * o + X * j + 3 * X = n * (U * (o + j + 3))
        /\ U * (o + j) \in Nat /\ U * (o + j + 3) \in Nat
    BY <1>1, <1>2, <1>8, <1>10
  <2>3. v < U * (o + j + 3)
    <3>1. \A b, c \in Nat : n * b < n * c => b < c
      BY <1>1
    <3> QED
      BY <1>13, <1>19, <2>2, <3>1
  <2>4. U * (o + j) < v + U
    <3>1. n * (U * (o + j)) <= n * v + 3 * U
      BY <1>19, <2>2
    <3>2. n * (v + U) = n * v + n * U /\ n * U >= 4 * U /\ n * v \in Nat /\ n * U \in Nat
      BY <1>1, <1>10, <1>13
    <3>3. n * (U * (o + j)) < n * (v + U)
      <4> DEFINE lo == n * (U * (o + j))
                 nv == n * v
                 nU == n * U
      <4>1. lo <= nv + 3 * U /\ n * (v + U) = nv + nU /\ nU >= 4 * U /\ nv \in Nat /\ nU \in Nat
        BY <3>1, <3>2
      <4>2. lo \in Nat
        BY <1>1, <2>2
      <4> HIDE DEF lo, nv, nU
      <4>3. lo < nv + nU
        BY <1>10, <4>1, <4>2
      <4> QED
        BY <4>1, <4>3 DEF lo
    <3>4. \A b, c \in Nat : n * b < n * c => b < c
      BY <1>1
    <3> QED
      BY <1>10, <1>13, <2>2, <3>3, <3>4
  <2>5. U * (v \div U) \in Nat
    BY <1>10, <2>1
  <2> QED
    BY <1>10, <1>13, <2>1, <2>2, <2>3, <2>4, <2>5
<1>21. o + j < v \div U + 2 /\ v \div U < o + j + 3
  <2>1. \A b, c \in Nat : U * b < U * c => b < c
    BY <1>10
  <2>2. U * (v \div U) + 2 * U = U * (v \div U + 2)
    BY <1>10, <1>20
  <2> QED
    BY <1>2, <1>8, <1>20, <2>1, <2>2
<1>22. j < k
  <2>1. steps * j < steps * k
    BY <1>3, <1>8 DEF whole
  <2>2. \A b, c \in Nat : steps * b < steps * c => b < c
    OBVIOUS
  <2> QED
    BY <1>2, <1>8, <2>1, <2>2
<1>23. Tangent(e, L, a, whole, t) - (o + j) \in (-1)..2
  BY <1>1, <1>2, <1>6, <1>8, <1>20, <1>21, <1>22
<1> QED
  BY <1>23 DEF L, k, o, j, whole

=============================================================================
