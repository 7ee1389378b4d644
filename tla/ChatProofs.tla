------------------------------ MODULE ChatProofs -------------------------------
(* Question Chat, for any number of Questions, sessions, connections, calls   *)
(* and upsets: a message or a stop is executed again only when every memory   *)
(* of its earlier executions is gone, and what a browser hears is true.       *)
EXTENDS QuestionChat, FiniteSetTheorems, TLAPS

-----------------------------------------------------------------------------
(* The commands on their way to a session.  A step that sends none leaves     *)
(* those there are where they were, or further ahead, or loses them.          *)

IsSeq(d) == \E D : d \in Seq(D)
Has(d, i, c) == i \in 1..Len(d) /\ d[i] = c /\ c.type = "command" /\ c.id # NoCommandId
WireShape(w) ==
  DOMAIN w = Sessions /\ \A s \in Sessions : DOMAIN w[s] = {"link", "down", "up"} /\ IsSeq(w[s].down)
Ahead(w, v, h) ==
  \A s \in Sessions : \A c : \A i \in Nat : Has(v[s].down, i, c) => Has(w[s].down, i + h[s], c)
NoNew(w, v) == WireShape(v) /\ \E h \in [Sessions -> Nat] : Ahead(w, v, h)

LEMMA Rest ==
  ASSUME NEW w, WireShape(w)
  PROVE  NoNew(w, w)
<1> DEFINE h == [s \in Sessions |-> 0]
<1>1. h \in [Sessions -> Nat] /\ Ahead(w, w, h)
  BY DEF Ahead
<1>2. QED
  BY <1>1 DEF NoNew

LEMMA Further ==
  ASSUME NEW u, NEW v, NEW w, NoNew(u, v), NoNew(v, w)
  PROVE  NoNew(u, w)
<1>1. PICK h \in [Sessions -> Nat] : Ahead(u, v, h)
  BY DEF NoNew
<1>2. PICK k \in [Sessions -> Nat] : Ahead(v, w, k)
  BY DEF NoNew
<1> DEFINE m == [s \in Sessions |-> k[s] + h[s]]
<1>3. m \in [Sessions -> Nat]
  OBVIOUS
<1>4. ASSUME NEW s \in Sessions, NEW c, NEW i \in Nat, Has(w[s].down, i, c)
      PROVE  Has(u[s].down, i + m[s], c)
  <2>1. i + k[s] \in Nat /\ (i + k[s]) + h[s] = i + m[s]
    OBVIOUS
  <2>2. Has(v[s].down, i + k[s], c)
    BY <1>2, <1>4 DEF Ahead
  <2>3. Has(u[s].down, (i + k[s]) + h[s], c)
    BY <1>1, <2>1, <2>2 DEF Ahead
  <2>4. QED
    BY <2>1, <2>3
<1>5. Ahead(u, w, m)
  BY <1>4 DEF Ahead
<1>6. QED
  BY <1>3, <1>5 DEF NoNew

\* One session's connection changes, and what it carries is n further ahead.
LEMMA OneWire ==
  ASSUME NEW w, WireShape(w), NEW s \in Sessions, NEW r, DOMAIN r = {"link", "down", "up"},
         IsSeq(r.down), NEW n \in Nat,
         \A c : \A i \in Nat : Has(r.down, i, c) => Has(w[s].down, i + n, c)
  PROVE  NoNew(w, [w EXCEPT ![s] = r])
<1> DEFINE v == [w EXCEPT ![s] = r]
           h == [t \in Sessions |-> IF t = s THEN n ELSE 0]
<1>1. \A t \in Sessions : v[t] = IF t = s THEN r ELSE w[t]
  BY DEF WireShape
<1>2. DOMAIN v = Sessions
  BY DEF WireShape
<1> HIDE DEF v
<1>3. WireShape(v)
  BY <1>1, <1>2 DEF WireShape
<1>4. h \in [Sessions -> Nat]
  OBVIOUS
<1>5. ASSUME NEW t \in Sessions, NEW c, NEW i \in Nat, Has(v[t].down, i, c)
      PROVE  Has(w[t].down, i + h[t], c)
  <2>1. CASE t = s
    BY <1>1, <1>5, <2>1
  <2>2. CASE t # s
    <3>1. v[t] = w[t] /\ i + h[t] = i
      BY <1>1, <2>2
    <3>2. QED
      BY <1>5, <3>1
  <2>3. QED
    BY <2>1, <2>2
<1>6. Ahead(w, v, h)
  BY <1>5 DEF Ahead
<1>7. QED
  BY <1>3, <1>4, <1>6 DEF NoNew, v

\* Messages to the server, and what it takes from them.
LEMMA UpStream ==
  ASSUME NEW w, WireShape(w), NEW s \in Sessions, NEW up
  PROVE  NoNew(w, [w EXCEPT ![s] = [w[s] EXCEPT !.up = up]])
<1> DEFINE r == [w[s] EXCEPT !.up = up]
<1>1. DOMAIN r = {"link", "down", "up"} /\ r.down = w[s].down
  BY DEF WireShape
<1>2. IsSeq(r.down)
  BY <1>1 DEF WireShape
<1> HIDE DEF r
<1>3. \A c : \A i \in Nat : Has(r.down, i, c) => Has(w[s].down, i + 0, c)
  BY <1>1
<1>4. QED
  BY <1>1, <1>2, <1>3, OneWire DEF r

LEMMA SayingNew ==
  ASSUME NEW w, WireShape(w), NEW s \in Sessions, NEW messages
  PROVE  NoNew(w, Said(s, w, messages)) /\ WireShape(Said(s, w, messages))
<1>1. NoNew(w, Said(s, w, messages))
  BY Rest, UpStream DEF Said
<1>2. QED
  BY <1>1 DEF NoNew

LEMMA TakingNew ==
  ASSUME NEW w, WireShape(w), NEW s \in Sessions
  PROVE  NoNew(w, Taken(s, w)) /\ WireShape(Taken(s, w))
<1>1. NoNew(w, Taken(s, w))
  BY UpStream DEF Taken
<1>2. QED
  BY <1>1 DEF NoNew

\* The client reads the first message.
LEMMA ReadingOne ==
  ASSUME WireShape(wire), NEW s \in Sessions, wire[s].down # <<>>
  PROVE  /\ NoNew(wire, Read(s)) /\ WireShape(Read(s))
         /\ \A t \in Sessions : \A c : \A i \in Nat :
              Has(Read(s)[t].down, i, c) => Has(wire[t].down, i + (IF t = s THEN 1 ELSE 0), c)
<1> DEFINE d == wire[s].down
           r == [wire[s] EXCEPT !.down = Tail(d)]
<1>1. DOMAIN r = {"link", "down", "up"} /\ r.down = Tail(d)
  BY DEF WireShape
<1>2. PICK D : d \in Seq(D)
  BY DEF WireShape, IsSeq
<1>3. Tail(d) \in Seq(D) /\ \A i \in 1..Len(Tail(d)) : i + 1 \in 1..Len(d) /\ Tail(d)[i] = d[i + 1]
  BY <1>2
<1>4. \A c : \A i \in Nat : Has(Tail(d), i, c) => Has(d, i + 1, c)
  BY <1>3 DEF Has
<1>5. Read(s) = [wire EXCEPT ![s] = r]
  BY DEF Read
<1> HIDE DEF r
<1>6. NoNew(wire, Read(s))
  <2>1. IsSeq(r.down)
    BY <1>1, <1>3 DEF IsSeq
  <2>2. \A c : \A i \in Nat : Has(r.down, i, c) => Has(wire[s].down, i + 1, c)
    BY <1>1, <1>4
  <2>3. 1 \in Nat /\ WireShape(wire) /\ DOMAIN r = {"link", "down", "up"}
    BY <1>1
  <2> HIDE DEF d
  <2>4. NoNew(wire, [wire EXCEPT ![s] = r])
    BY <2>1, <2>2, <2>3, OneWire
  <2>5. QED
    BY <1>5, <2>4
<1>7. \A t \in Sessions : Read(s)[t] = IF t = s THEN r ELSE wire[t]
  BY <1>5 DEF WireShape
<1>8. ASSUME NEW t \in Sessions, NEW c, NEW i \in Nat, Has(Read(s)[t].down, i, c)
      PROVE  Has(wire[t].down, i + (IF t = s THEN 1 ELSE 0), c)
  <2>1. CASE t = s
    BY <1>1, <1>4, <1>7, <1>8, <2>1
  <2>2. CASE t # s
    BY <1>7, <1>8, <2>2
  <2>3. QED
    BY <2>1, <2>2
<1>9. QED
  BY <1>6, <1>8 DEF NoNew

\* Messages that are sent at the end: what is carried was before, or is they.
LEMMA Appending ==
  ASSUME NEW d, NEW D, d \in Seq(D), NEW E, NEW e \in Seq(E), NEW c, NEW i \in Nat, Has(d \o e, i, c)
  PROVE  \/ Has(d, i, c)
         \/ i - Len(d) \in 1..Len(e) /\ Has(e, i - Len(d), c)
<1>1. d \in Seq(D \cup E) /\ e \in Seq(D \cup E)
  OBVIOUS
<1>2. i \in 1..(Len(d) + Len(e)) /\ Len(d) \in Nat /\ Len(e) \in Nat
  BY <1>1 DEF Has
<1>3. CASE i <= Len(d)
  BY <1>1, <1>2, <1>3 DEF Has
<1>4. CASE ~(i <= Len(d))
  <2>1. i - Len(d) \in 1..Len(e) /\ (d \o e)[i] = e[i - Len(d)]
    BY <1>1, <1>2, <1>4
  <2>2. QED
    BY <2>1 DEF Has
<1>5. QED
  BY <1>3, <1>4

LEMMA Sending ==
  ASSUME NEW w, WireShape(w), NEW s \in Sessions, NEW message
  PROVE  /\ WireShape(Send(w, s, <<message>>))
         /\ \A t \in Sessions : \A c : \A i \in Nat :
              Has(Send(w, s, <<message>>)[t].down, i, c) =>
                \/ Has(w[t].down, i, c)
                \/ t = s /\ i = Len(w[s].down) + 1 /\ Has(<<message>>, 1, c)
<1> DEFINE d == w[s].down
           r == [w[s] EXCEPT !.down = d \o <<message>>]
           v == [w EXCEPT ![s] = r]
<1>1. DOMAIN r = {"link", "down", "up"} /\ r.down = d \o <<message>>
  BY DEF WireShape
<1>2. PICK D : d \in Seq(D)
  BY DEF WireShape, IsSeq
<1>3. d \o <<message>> \in Seq(D \cup {message}) /\ <<message>> \in Seq({message}) /\ Len(d) \in Nat
  BY <1>2
<1>4. ASSUME NEW c, NEW i \in Nat, Has(d \o <<message>>, i, c)
      PROVE  Has(d, i, c) \/ (i = Len(d) + 1 /\ Has(<<message>>, 1, c))
  <2>1. \/ Has(d, i, c)
        \/ i - Len(d) \in 1..Len(<<message>>) /\ Has(<<message>>, i - Len(d), c)
    BY <1>2, <1>3, <1>4, Appending
  <2>2. i - Len(d) \in 1..Len(<<message>>) => i - Len(d) = 1 /\ i = Len(d) + 1
    BY <1>3
  <2>3. QED
    BY <2>1, <2>2
<1> HIDE DEF r
<1>5. DOMAIN v = Sessions /\ \A t \in Sessions : v[t] = IF t = s THEN r ELSE w[t]
  BY DEF WireShape
<1> HIDE DEF v
<1>6. WireShape(v)
  BY <1>1, <1>3, <1>5 DEF WireShape, IsSeq
<1>7. ASSUME NEW t \in Sessions, NEW c, NEW i \in Nat, Has(v[t].down, i, c)
      PROVE  \/ Has(w[t].down, i, c)
             \/ t = s /\ i = Len(w[s].down) + 1 /\ Has(<<message>>, 1, c)
  BY <1>1, <1>4, <1>5, <1>7
<1>8. Send(w, s, <<message>>) \in {w, v}
  BY DEF Send, v, r
<1>9. QED
  BY <1>6, <1>7, <1>8

LEMMA Delivering ==
  ASSUME WireShape(wire), NEW s \in Sessions, NEW message
  PROVE  /\ WireShape(Deliver(s, <<message>>))
         /\ \A t \in Sessions : \A c : \A i \in Nat :
              Has(Deliver(s, <<message>>)[t].down, i, c) =>
                \/ Has(wire[t].down, i, c)
                \/ t = s /\ i = Len(wire[s].down) + 1 /\ Has(<<message>>, 1, c)
BY Sending DEF Deliver

\* What is sent is no command.
LEMMA SendingNew ==
  ASSUME NEW w, WireShape(w), NEW s \in Sessions, NEW message,
         message.type # "command" \/ message.id = NoCommandId
  PROVE  NoNew(w, Send(w, s, <<message>>)) /\ WireShape(Send(w, s, <<message>>))
<1> DEFINE h == [t \in Sessions |-> 0]
<1>1. h \in [Sessions -> Nat]
  OBVIOUS
<1>2. \A c : ~Has(<<message>>, 1, c)
  BY DEF Has
<1> DEFINE v == Send(w, s, <<message>>)
<1>3. ASSUME NEW t \in Sessions, NEW c, NEW i \in Nat, Has(v[t].down, i, c)
      PROVE  Has(w[t].down, i + h[t], c)
  <2>1. i + h[t] = i
    OBVIOUS
  <2>2. Has(w[t].down, i, c)
    BY <1>2, <1>3, Sending
  <2>3. QED
    BY <2>1, <2>2
<1>4. WireShape(v)
  BY Sending
<1> HIDE DEF v
<1>5. NoNew(w, v)
  BY <1>1, <1>3, <1>4 DEF Ahead, NoNew
<1>6. QED
  BY <1>4, <1>5 DEF v

LEMMA DeliveringNew ==
  ASSUME WireShape(wire), NEW s \in Sessions, NEW message, message.type # "command" \/ message.id = NoCommandId
  PROVE  NoNew(wire, Deliver(s, <<message>>)) /\ WireShape(Deliver(s, <<message>>))
BY SendingNew DEF Deliver

\* A new connection, or none.
LEMMA Rewired ==
  ASSUME WireShape(wire), NEW s \in Sessions, NEW r, DOMAIN r = {"link", "down", "up"}, r.down = <<>>
  PROVE  NoNew(wire, [wire EXCEPT ![s] = r])
<1>1. IsSeq(r.down)
  BY DEF IsSeq
<1>2. \A c : \A i \in Nat : ~Has(r.down, i, c)
  BY DEF Has
<1>3. QED
  BY <1>1, <1>2, OneWire

-----------------------------------------------------------------------------
(* Executed once.  The commands of one id are sent to one session, in the     *)
(* order of their calls and only when the relay remembers none; those that    *)
(* were executed came before those still on their way.                        *)

Counts == [calls : Nat, conns : Nat, moves : Nat, restarts : Nat, reloads : Nat]
\* A send or stop: its Question, its id, and the call that it was sent for.
Commands == Questions \X CommandIds \X Nat
Name(c) == <<c.q, c.id>>
Keeps(e, f) == "outcomes" \in DOMAIN f /\ f.outcomes \subseteq e.outcomes

ChatShape ==
  /\ WireShape(wire) /\ count \in Counts /\ retained \subseteq Commands
  /\ runs \in [Questions \X CommandIds -> Seq(Nat)]
  /\ DOMAIN ext = Sessions /\ \A s \in Sessions : "outcomes" \in DOMAIN ext[s]
Numbered ==
  /\ \A s \in Sessions : \A c : \A i \in Nat :
       Has(wire[s].down, i, c) => /\ Name(c) \in Questions \X CommandIds /\ s = Source[c.q]
                                  /\ c.cid \in Nat /\ c.cid <= count.calls
  /\ \A c \in retained : c[3] <= count.calls
  /\ \A c \in Questions \X CommandIds : \A k \in 1..Len(runs[c]) : runs[c][k] <= count.calls
InOrder ==
  \A s \in Sessions : \A c, e : \A i, j \in Nat :
    Has(wire[s].down, i, c) /\ Has(wire[s].down, j, e) /\ Name(c) = Name(e) /\ i < j => c.cid < e.cid
Latest ==
  \A e \in retained, s \in Sessions : \A c : \A i \in Nat :
    Has(wire[s].down, i, c) /\ Name(c) = <<e[1], e[2]>> => c.cid <= e[3]
RunsBefore ==
  \A s \in Sessions : \A c : \A i \in Nat :
    Has(wire[s].down, i, c) => \A k \in 1..Len(runs[Name(c)]) : runs[Name(c)][k] < c.cid
OnceInv == ChatShape /\ Numbered /\ InOrder /\ Latest /\ RunsBefore /\ ExecutedOnce

LEMMA OnceStarts == Init => OnceInv
<1> SUFFICES ASSUME Init PROVE OnceInv
  OBVIOUS
<1>1. \A s \in Sessions : wire[s] = NoWire
  BY DEF Init
<1>2. DOMAIN NoWire = {"link", "down", "up"} /\ IsSeq(NoWire.down) /\ NoWire.down = <<>>
  BY DEF NoWire, IsSeq
<1>3. WireShape(wire)
  BY <1>1, <1>2 DEF Init, WireShape
<1>4. \A s \in Sessions : \A c : \A i \in Nat : ~Has(wire[s].down, i, c)
  BY <1>1, <1>2 DEF Has
<1>5. runs = [c \in Questions \X CommandIds |-> <<>>] /\ <<>> \in Seq(Nat) /\ retained = {}
  BY DEF Init
<1>6. ChatShape
  BY <1>3, <1>5 DEF Init, ChatShape, Counts, NewExt
<1>7. ExecutedOnce /\ \A c \in Questions \X CommandIds : 1..Len(runs[c]) = {}
  BY <1>5 DEF ExecutedOnce
<1>8. Numbered /\ InOrder /\ Latest /\ RunsBefore
  BY <1>4, <1>5, <1>7 DEF Numbered, InOrder, Latest, RunsBefore
<1>9. QED
  BY <1>6, <1>7, <1>8 DEF OnceInv

\* What is on its way was on its way, and in the same order.
LEMMA NothingSent ==
  ASSUME OnceInv, NoNew(wire, wire')
  PROVE  /\ InOrder'
         /\ \A s \in Sessions : \A c : \A i \in Nat : Has(wire'[s].down, i, c) =>
              \E j \in Nat : Has(wire[s].down, j, c)
<1>1. PICK h \in [Sessions -> Nat] : Ahead(wire, wire', h)
  BY DEF NoNew
<1>2. ASSUME NEW c, NEW s \in Sessions, NEW i \in Nat, Has(wire'[s].down, i, c)
      PROVE  i + h[s] \in Nat /\ Has(wire[s].down, i + h[s], c)
  BY <1>1, <1>2 DEF Ahead
<1>3. ASSUME NEW c, NEW e, NEW s \in Sessions, NEW i \in Nat, NEW j \in Nat,
             Has(wire'[s].down, i, c), Has(wire'[s].down, j, e), Name(c) = Name(e), i < j
      PROVE  c.cid < e.cid
  <2> DEFINE x == i + h[s]
             y == j + h[s]
  <2>1. x \in Nat /\ y \in Nat /\ x < y
    BY <1>3
  <2>2. Has(wire[s].down, x, c) /\ Has(wire[s].down, y, e)
    BY <1>2, <1>3
  <2> HIDE DEF x, y
  <2>3. QED
    BY <1>3, <2>1, <2>2 DEF OnceInv, InOrder
<1>4. InOrder'
  BY <1>3 DEF InOrder, Has, Name
<1>5. QED
  BY <1>2, <1>4

\* A step that neither sends nor executes a command with an id.  It may forget.
LEMMA OnceStays ==
  ASSUME OnceInv, NoNew(wire, wire'), retained' \subseteq retained, UNCHANGED runs,
         count' \in Counts, count.calls <= count'.calls,
         DOMAIN ext' = Sessions, \A s \in Sessions : Keeps(ext[s], ext'[s])
  PROVE  OnceInv'
<1>1. ChatShape'
  <2>1. WireShape(wire')
    BY DEF NoNew
  <2>2. WireShape(wire)'
    BY <2>1 DEF WireShape, IsSeq
  <2>3. QED
    BY <2>2 DEF OnceInv, ChatShape, Keeps
<1>2. \A s \in Sessions : \A c : \A i \in Nat : Has(wire'[s].down, i, c) =>
        \E j \in Nat : Has(wire[s].down, j, c)
  BY NothingSent
<1>3. \A n \in Nat : n <= count.calls => n <= count'.calls
  BY DEF OnceInv, ChatShape, Counts
<1>4. Numbered'
  <2>1. ASSUME NEW c, NEW s \in Sessions, NEW i \in Nat, Has(wire'[s].down, i, c)
        PROVE  /\ Name(c) \in Questions \X CommandIds /\ s = Source[c.q]
               /\ c.cid \in Nat /\ c.cid <= count'.calls
    BY <1>2, <1>3, <2>1 DEF OnceInv, Numbered
  <2>2. ASSUME NEW c \in retained' PROVE c[3] <= count'.calls
    BY <1>3 DEF OnceInv, Numbered, ChatShape, Commands
  <2>3. ASSUME NEW c \in Questions \X CommandIds, NEW k \in 1..Len(runs[c]) PROVE runs[c][k] <= count'.calls
    <3>1. runs[c][k] <= count.calls /\ runs[c][k] \in Nat
      BY DEF OnceInv, Numbered, ChatShape
    <3>2. QED
      BY <1>3, <3>1
  <2>4. QED
    BY <2>1, <2>2, <2>3 DEF Numbered, Has, Name
<1>5. Latest'
  <2>1. ASSUME NEW e \in retained', NEW s \in Sessions, NEW c, NEW i \in Nat,
               Has(wire'[s].down, i, c), Name(c) = <<e[1], e[2]>>
        PROVE  c.cid <= e[3]
    <3>1. PICK j \in Nat : Has(wire[s].down, j, c)
      BY <1>2, <2>1
    <3>2. e \in retained
      OBVIOUS
    <3>3. QED
      BY <2>1, <3>1, <3>2 DEF OnceInv, Latest
  <2>2. QED
    BY <2>1 DEF Latest, Has, Name
<1>6. RunsBefore'
  BY <1>2 DEF OnceInv, RunsBefore, Has, Name
<1>7. ExecutedOnce'
  <2>1. \A c \in Questions \X CommandIds : Source[c[1]] \in Sessions
    BY ChatAssumption
  <2>2. DOMAIN runs = Questions \X CommandIds
    BY DEF OnceInv, ChatShape
  <2>3. QED
    BY <2>1, <2>2 DEF OnceInv, ExecutedOnce, Keeps
<1>8. QED
  BY <1>1, <1>4, <1>5, <1>6, <1>7, NothingSent DEF OnceInv

LEMMA OnceShape ==
  ASSUME OnceInv
  PROVE  /\ WireShape(wire) /\ NoNew(wire, wire) /\ count \in Counts /\ DOMAIN ext = Sessions
         /\ \A s \in Sessions : "outcomes" \in DOMAIN ext[s] /\ Keeps(ext[s], ext[s])
BY Rest DEF OnceInv, ChatShape, Keeps

LEMMA OneSession ==
  ASSUME OnceInv, NEW s \in Sessions, NEW e, Keeps(ext[s], e), ext' = [ext EXCEPT ![s] = e]
  PROVE  DOMAIN ext' = Sessions /\ \A t \in Sessions : Keeps(ext[t], ext'[t])
<1>1. DOMAIN ext' = Sessions /\ \A t \in Sessions : ext'[t] = IF t = s THEN e ELSE ext[t]
  BY OnceShape
<1>2. QED
  BY <1>1, OnceShape

LEMMA CountsGrow ==
  ASSUME count \in Counts
  PROVE  \A c \in {count, [count EXCEPT !.calls = @ + 1], [count EXCEPT !.conns = @ + 1],
                   [count EXCEPT !.moves = @ + 1], [count EXCEPT !.restarts = @ + 1],
                   [count EXCEPT !.reloads = @ + 1]} :
           c \in Counts /\ count.calls <= c.calls
BY DEF Counts

\* The relay sends something, but no command with an id, and may forget.
LEMMA RelaySends ==
  ASSUME OnceInv, UNCHANGED <<ext, runs>>, retained' \subseteq retained, NoNew(wire, wire'),
         count' \in {count, [count EXCEPT !.calls = @ + 1], [count EXCEPT !.conns = @ + 1],
                   [count EXCEPT !.moves = @ + 1], [count EXCEPT !.restarts = @ + 1]}
  PROVE  OnceInv'
<1>1. count' \in Counts /\ count.calls <= count'.calls
  BY OnceShape, CountsGrow
<1>2. QED
  BY <1>1, OnceShape, OnceStays

\* A browser's command with an id the relay does not know.
LEMMA CommandSent ==
  ASSUME OnceInv, NEW q \in Questions, NEW id \in CommandIds, BrowserCommand(q, id)
  PROVE  OnceInv'
<1> DEFINE n == count.calls + 1
           o == <<q, id, n>>
           s == Source[q]
           m == Command("command", n, q, id)
<1>1. /\ count' = [count EXCEPT !.calls = n] /\ count' \in Counts /\ count'.calls = n
      /\ n \in Nat /\ count.calls \in Nat /\ count.calls < n
  BY OnceShape DEF BrowserCommand, Dispatch, Counts
<1>2. /\ wire' = Deliver(s, <<m>>) /\ s \in Sessions
      /\ \A c \in retained : ~(c[1] = q /\ c[2] = id)
      /\ UNCHANGED <<ext, runs>> /\ retained' = retained \cup {o}
  BY <1>1, ChatAssumption DEF BrowserCommand, Dispatch, Remembers
<1>3. /\ m.q = q /\ m.id = id /\ m.cid = n /\ Name(m) = <<q, id>> /\ o \in Commands
      /\ o[1] = q /\ o[2] = id /\ o[3] = n
  BY <1>1 DEF Command, Name, Commands
<1> HIDE DEF m, o
<1>4. /\ WireShape(wire')
      /\ \A t \in Sessions : \A c : \A i \in Nat : Has(wire'[t].down, i, c) =>
           \/ Has(wire[t].down, i, c)
           \/ t = s /\ i = Len(wire[s].down) + 1 /\ c = m
  <2>1. \A c : Has(<<m>>, 1, c) => c = m
    BY DEF Has
  <2>2. QED
    BY <1>2, <2>1, OnceShape, Delivering
<1>5. ASSUME NEW c, NEW t \in Sessions, NEW i \in Nat, Has(wire[t].down, i, c)
      PROVE  c.cid \in Nat /\ c.cid < n /\ Name(c) \in Questions \X CommandIds /\ t = Source[c.q]
  <2>1. c.cid \in Nat /\ c.cid <= count.calls /\ Name(c) \in Questions \X CommandIds /\ t = Source[c.q]
    BY <1>5 DEF OnceInv, Numbered
  <2>2. QED
    BY <1>1, <2>1
<1>6. ASSUME NEW c \in Questions \X CommandIds, NEW k \in 1..Len(runs[c])
      PROVE  runs[c][k] \in Nat /\ runs[c][k] < n
  <2>1. runs[c][k] \in Nat /\ runs[c][k] <= count.calls
    BY DEF OnceInv, Numbered, ChatShape
  <2>2. QED
    BY <1>1, <2>1
<1>7. ASSUME NEW c \in retained PROVE c[3] \in Nat /\ c[3] < n /\ <<q, id>> # <<c[1], c[2]>>
  <2>1. c[3] \in Nat /\ c[3] <= count.calls
    BY DEF OnceInv, Numbered, ChatShape, Commands
  <2>2. QED
    BY <1>1, <1>2, <2>1
<1> HIDE DEF n
<1>8. ChatShape'
  BY <1>1, <1>2, <1>3, <1>4 DEF OnceInv, ChatShape, WireShape, IsSeq
<1>9. Numbered'
  <2>1. ASSUME NEW c, NEW t \in Sessions, NEW i \in Nat, Has(wire'[t].down, i, c)
        PROVE  /\ Name(c) \in Questions \X CommandIds /\ t = Source[c.q]
               /\ c.cid \in Nat /\ c.cid <= n
    <3>1. CASE Has(wire[t].down, i, c)
      BY <1>1, <1>5, <3>1
    <3>2. CASE t = s /\ c = m
      BY <1>1, <1>3, <3>2
    <3>3. QED
      BY <1>4, <2>1, <3>1, <3>2
  <2>2. ASSUME NEW c \in retained' PROVE c[3] <= n
    BY <1>1, <1>2, <1>3, <1>7
  <2>3. ASSUME NEW c \in Questions \X CommandIds, NEW k \in 1..Len(runs[c]) PROVE runs[c][k] <= n
    <3>1. runs[c][k] \in Nat /\ runs[c][k] < n
      BY <1>6
    <3>2. QED
      BY <1>1, <3>1
  <2>4. QED
    BY <1>1, <1>2, <2>1, <2>2, <2>3 DEF Numbered, Has, Name
<1>10. InOrder'
  <2> SUFFICES ASSUME NEW c, NEW e, NEW t \in Sessions, NEW i \in Nat, NEW j \in Nat,
                      Has(wire'[t].down, i, c), Has(wire'[t].down, j, e), Name(c) = Name(e), i < j
               PROVE  c.cid < e.cid
    BY DEF InOrder, Has, Name
  <2>1. CASE Has(wire[t].down, i, c) /\ Has(wire[t].down, j, e)
    BY <2>1 DEF OnceInv, InOrder
  <2>2. CASE Has(wire[t].down, i, c) /\ e = m
    BY <1>3, <1>5, <2>2
  <2>3. CASE t = s /\ i = Len(wire[s].down) + 1
    <3>1. PICK D : wire[s].down \in Seq(D)
      BY <1>2, OnceShape DEF WireShape, IsSeq
    <3>2. Len(wire[s].down) \in Nat
      BY <3>1
    <3>3. j \in 1..Len(wire[s].down) \/ j = Len(wire[s].down) + 1
      BY <1>4, <2>3 DEF Has
    <3>4. QED
      BY <2>3, <3>2, <3>3
  <2>4. QED
    BY <1>4, <2>1, <2>2, <2>3
<1>11. Latest'
  <2> SUFFICES ASSUME NEW c, NEW e \in retained', NEW t \in Sessions, NEW i \in Nat,
                      Has(wire'[t].down, i, c), Name(c) = <<e[1], e[2]>>
               PROVE  c.cid <= e[3]
    BY DEF Latest, Has, Name
  <2>1. CASE e = o
    <3>1. e[3] = n
      BY <1>3, <2>1
    <3>2. c.cid <= n
      <4>1. CASE Has(wire[t].down, i, c)
        BY <1>1, <1>5, <4>1
      <4>2. CASE c = m
        BY <1>1, <1>3, <4>2
      <4>3. QED
        BY <1>4, <4>1, <4>2
    <3>3. QED
      BY <3>1, <3>2
  <2>2. CASE e \in retained /\ c = m
    BY <1>3, <1>7, <2>2
  <2>3. CASE e \in retained /\ Has(wire[t].down, i, c)
    BY <2>3 DEF OnceInv, Latest
  <2>4. QED
    BY <1>2, <1>4, <2>1, <2>2, <2>3
<1>12. RunsBefore'
  <2> SUFFICES ASSUME NEW c, NEW t \in Sessions, NEW i \in Nat, Has(wire'[t].down, i, c)
               PROVE  \A k \in 1..Len(runs[Name(c)]) : runs[Name(c)][k] < c.cid
    BY <1>2 DEF RunsBefore, Has, Name
  <2>1. CASE c = m
    BY <1>3, <1>6, <2>1
  <2>2. CASE Has(wire[t].down, i, c)
    BY <2>2 DEF OnceInv, RunsBefore
  <2>3. QED
    BY <1>4, <2>1, <2>2
<1>13. ExecutedOnce'
  <2> SUFFICES ASSUME NEW c \in DOMAIN runs, NEW i \in DOMAIN runs[c], NEW j \in DOMAIN runs[c], i < j
               PROVE  <<c[1], c[2], runs[c][i]>> \notin retained'
                      /\ <<c[1], c[2], runs[c][i]>> \notin ext[Source[c[1]]].outcomes
    BY <1>2 DEF ExecutedOnce
  <2>1. c \in Questions \X CommandIds /\ i \in 1..Len(runs[c])
    BY DEF OnceInv, ChatShape
  <2>2. runs[c][i] \in Nat /\ runs[c][i] < n
    BY <1>6, <2>1
  <2>3. <<c[1], c[2], runs[c][i]>> # o
    BY <1>1, <1>3, <2>2
  <2>4. QED
    BY <1>2, <2>3 DEF OnceInv, ExecutedOnce
<1>14. QED
  BY <1>8, <1>9, <1>10, <1>11, <1>12, <1>13 DEF OnceInv

LEMMA HttpOnce ==
  ASSUME OnceInv, Http \/ (\E p \in pending : Timeout(p)) \/ \E c \in retained : RelayForgets(c)
  PROVE  OnceInv'
<1> USE OnceShape
<1>1. \A q, k, cid, id : /\ Cleanup(q).type # "command"
                         /\ Command(k, cid, q, id).type = k /\ Command(k, cid, q, id).id = id
  BY DEF Cleanup, Command
<1>2. \A q \in Questions : Source[q] \in Sessions
  BY ChatAssumption
<1>3. ASSUME NEW q \in Questions, Activate(q) PROVE OnceInv'
  <2>1. /\ wire' = Deliver(Source[q], <<Command("activate", count.calls + 1, q, NoCommandId)>>)
        /\ UNCHANGED <<retained, ext, runs>> /\ count' = [count EXCEPT !.calls = @ + 1]
    BY <1>3 DEF Activate, Dispatch
  <2>2. NoNew(wire, wire')
    BY <1>1, <1>2, <2>1, DeliveringNew
  <2>3. QED
    BY <2>1, <2>2, RelaySends
<1>4. ASSUME NEW q \in Questions, BrowserCommand(q, NoCommandId) PROVE OnceInv'
  <2>1. /\ wire' = Deliver(Source[q], <<Command("command", count.calls + 1, q, NoCommandId)>>)
        /\ UNCHANGED <<retained, ext, runs>> /\ count' = [count EXCEPT !.calls = @ + 1]
    BY <1>4 DEF BrowserCommand, Dispatch
  <2>2. NoNew(wire, wire')
    BY <1>1, <1>2, <2>1, DeliveringNew
  <2>3. QED
    BY <2>1, <2>2, RelaySends
<1>5. ASSUME NEW q \in Questions, NEW told \in BOOLEAN, CloseQuestion(q, told) PROVE OnceInv'
  <2> DEFINE w == IF told THEN Deliver(Source[q], <<Cleanup(q)>>) ELSE wire
  <2>1. NoNew(wire, w) /\ WireShape(w)
    BY <1>1, <1>2, DeliveringNew
  <2>2. wire' = w \/ wire' = Send(w, Source[q], <<Cleanup(q)>>)
    BY <1>5 DEF CloseQuestion, RelayCleanup
  <2>3. UNCHANGED <<retained, ext, runs, count>>
    BY <1>5 DEF CloseQuestion
  <2> HIDE DEF w
  <2>4. NoNew(w, Send(w, Source[q], <<Cleanup(q)>>))
    BY <1>1, <1>2, <2>1, SendingNew
  <2>5. NoNew(wire, wire')
    BY <2>1, <2>2, <2>4, Further
  <2>6. QED
    BY <2>3, <2>5, RelaySends
<1>6. ASSUME NEW q \in Questions, MoveQuestion(q) PROVE OnceInv'
  <2>1. \/ UNCHANGED wire
        \/ active[q].owner \in Sessions /\ wire' = Deliver(active[q].owner, <<Cleanup(q)>>)
    BY <1>6 DEF MoveQuestion, DisposeNonTerminal
  <2>2. NoNew(wire, wire')
    BY <1>1, <2>1, DeliveringNew
  <2>3. UNCHANGED <<retained, ext, runs>> /\ count' = [count EXCEPT !.moves = @ + 1]
    BY <1>6 DEF MoveQuestion
  <2>4. QED
    BY <2>2, <2>3, RelaySends
<1>7. ASSUME NEW q \in Questions, WithdrawQuestion(q) PROVE OnceInv'
  BY <1>7, RelaySends DEF WithdrawQuestion, relayState
<1>8. ASSUME NEW p \in pending, Timeout(p) PROVE OnceInv'
  BY <1>8, RelaySends DEF Timeout
<1>9. ASSUME NEW c \in retained, RelayForgets(c) PROVE OnceInv'
  BY <1>9, RelaySends DEF RelayForgets
<1>10. QED
  BY <1>3, <1>4, <1>5, <1>6, <1>7, <1>8, <1>9, CommandSent DEF Http

\* bind's notices.
LEMMA Notices ==
  ASSUME OnceInv, NEW s \in Sessions, ServerRegister(s)
  PROVE  NoNew(wire, wire')
<1> DEFINE owed == {q \in Questions : deferred[q] = s}
           n == Cardinality(owed)
           notices == [i \in 1..n |-> Cleanup(CHOOSE q \in owed : Cardinality({p \in owed : p <= q}) = i)]
           all == notices \o <<[type |-> "registered"]>>
           r == [wire[s] EXCEPT !.up = Tail(@), !.down = all]
<1>1. n \in Nat
  <2>1. IsFiniteSet(owed)
    BY ChatAssumption, FS_Subset
  <2>2. QED
    BY <2>1, FS_CardinalityType
<1> HIDE DEF n
<1>2. \A i \in 1..n : notices[i].type = "cleanup"
  BY DEF Cleanup
<1>3. notices \in Seq({notices[i] : i \in 1..n}) /\ Len(notices) = n
  <2> DEFINE S == {notices[i] : i \in 1..n}
  <2>1. \A i \in 1..n : notices[i] \in S
    OBVIOUS
  <2>2. DOMAIN notices = 1..n /\ notices = [i \in 1..n |-> notices[i]]
    OBVIOUS
  <2> HIDE DEF S, notices
  <2>3. notices \in [1..n -> S]
    BY <2>1, <2>2
  <2>4. notices \in Seq(S) /\ Len(notices) = n
    BY <1>1, <2>3
  <2>5. QED
    BY <2>4 DEF S
<1>4. wire' = [wire EXCEPT ![s] = r]
  BY DEF ServerRegister, n
<1> HIDE DEF notices
<1>5. PICK D : all \in Seq(D)
  <2>1. all \in Seq({notices[i] : i \in 1..n} \cup {[type |-> "registered"]})
    BY <1>3
  <2>2. QED
    BY <2>1
<1>6. \A c : \A i \in Nat : ~Has(all, i, c)
  <2> SUFFICES ASSUME NEW c, NEW i \in Nat, Has(all, i, c) PROVE FALSE
    OBVIOUS
  <2> DEFINE last == <<[type |-> "registered"]>>
  <2>1. last \in Seq({[type |-> "registered"]}) /\ Len(last) = 1 /\ last[1].type = "registered"
    OBVIOUS
  <2>2. \/ Has(notices, i, c)
        \/ i - Len(notices) \in 1..Len(last) /\ Has(last, i - Len(notices), c)
    <3> HIDE DEF last
    <3>1. Has(notices \o last, i, c)
      BY DEF last
    <3>2. QED
      BY <1>3, <2>1, <3>1, Appending
  <2> HIDE DEF last
  <2>3. QED
    BY <1>1, <1>2, <1>3, <2>1, <2>2 DEF Has
<1> HIDE DEF all
<1>7. DOMAIN r = {"link", "down", "up"} /\ r.down = all
  BY OnceShape DEF WireShape
<1>8. IsSeq(r.down)
  BY <1>5, <1>7 DEF IsSeq
<1> HIDE DEF r
<1>9. 0 \in Nat /\ WireShape(wire) /\ \A c : \A i \in Nat : Has(r.down, i, c) => Has(wire[s].down, i + 0, c)
  BY <1>6, <1>7, OnceShape
<1>10. NoNew(wire, [wire EXCEPT ![s] = r])
  BY <1>7, <1>8, <1>9, OneWire
<1>11. QED
  BY <1>4, <1>10

LEMMA ServerOnce ==
  ASSUME OnceInv, NEW s \in Sessions, Server(s) \/ Unbind(s)
  PROVE  OnceInv'
<1> USE OnceShape
<1>1. NoNew(wire, Taken(s, wire))
  BY TakingNew
<1>2. ASSUME NEW m, m.type # "command" PROVE NoNew(wire, Taken(s, Deliver(s, <<m>>)))
  <2>1. NoNew(wire, Deliver(s, <<m>>)) /\ WireShape(Deliver(s, <<m>>))
    BY <1>2, DeliveringNew
  <2>2. NoNew(Deliver(s, <<m>>), Taken(s, Deliver(s, <<m>>)))
    BY <2>1, TakingNew
  <2>3. QED
    BY <2>1, <2>2, Further
<1>3. \A q : Cleanup(q).type # "command"
  BY DEF Cleanup
<1>4. CASE ServerRegister(s)
  BY <1>4, Notices, RelaySends DEF ServerRegister
<1>5. CASE ServerOffer(s)
  <2>1. PICK m : m.type # "command" /\ wire' \in {Taken(s, wire), Taken(s, Deliver(s, <<m>>))}
    <3> DEFINE m == [type |-> "reconcile", offer |-> Head(wire[s].up).offer,
                     recover |-> Head(wire[s].up).owner = s /\ ChatsWith(Head(wire[s].up).q, s)]
    <3>1. m.type # "command" /\ wire' \in {Taken(s, wire), Taken(s, Deliver(s, <<m>>))}
      BY <1>5 DEF ServerOffer
    <3>2. QED
      BY <3>1
  <2>2. NoNew(wire, wire')
    BY <1>1, <1>2, <2>1
  <2>3. QED
    BY <1>5, <2>2, RelaySends DEF ServerOffer, relayState
<1>6. CASE ServerComplete(s)
  BY <1>1, <1>6, RelaySends DEF ServerComplete, relayState
<1>7. CASE ServerReconciled(s)
  <2>1. \E q : wire' \in {Taken(s, wire), Taken(s, Deliver(s, <<Cleanup(q)>>))}
    BY <1>7 DEF ServerReconciled, Adopt, RejectRecovery
  <2>2. NoNew(wire, wire')
    BY <1>1, <1>2, <1>3, <2>1
  <2>3. QED
    BY <1>7, <2>2, RelaySends DEF ServerReconciled
<1>8. CASE ServerResult(s)
  BY <1>1, <1>8, RelaySends DEF ServerResult
<1>9. CASE Unbind(s)
  BY <1>9, RelaySends DEF Unbind, relayState
<1>10. QED
  BY <1>4, <1>5, <1>6, <1>7, <1>8, <1>9 DEF Server

LEMMA OfferKeeps ==
  ASSUME OnceInv, NEW s \in Sessions, NEW e, NEW w, Keeps(ext[s], e), NoNew(wire, w), NextOffer(s, e, w)
  PROVE  NoNew(wire, wire') /\ DOMAIN ext' = Sessions /\ \A t \in Sessions : Keeps(ext[t], ext'[t])
<1>1. WireShape(w)
  BY DEF NoNew
<1>2. \A messages : NoNew(wire, Said(s, w, messages))
  BY <1>1, SayingNew, Further
<1>3. \E f : Keeps(ext[s], f) /\ ext' = [ext EXCEPT ![s] = f]
  <2> DEFINE q == CHOOSE p \in e.offers : \A r \in e.offers : p <= r
             offer == [conn |-> w[s].link, q |-> q]
  <2>1. Keeps(ext[s], [e EXCEPT !.completeSent = TRUE])
    BY DEF Keeps
  <2>2. Keeps(ext[s], [e EXCEPT !.offered = offer, !.offers = @ \ {q}])
    BY DEF Keeps
  <2>3. \/ ext' = [ext EXCEPT ![s] = e]
        \/ ext' = [ext EXCEPT ![s] = [e EXCEPT !.completeSent = TRUE]]
        \/ ext' = [ext EXCEPT ![s] = [e EXCEPT !.offered = offer, !.offers = @ \ {q}]]
    BY DEF NextOffer
  <2> HIDE DEF offer, q
  <2>4. QED
    BY <2>1, <2>2, <2>3
<1>4. \/ wire' = w
      \/ \E messages : wire' = Said(s, w, messages)
  <2>1. CASE w[s].link = 0 \/ e.offered # NoOffer \/ e.completeSent
    BY <2>1 DEF NextOffer
  <2>2. CASE ~(w[s].link = 0 \/ e.offered # NoOffer \/ e.completeSent) /\ e.offers = {}
    BY <2>2 DEF NextOffer
  <2>3. CASE ~(w[s].link = 0 \/ e.offered # NoOffer \/ e.completeSent) /\ e.offers # {}
    <3> DEFINE q == CHOOSE p \in e.offers : \A r \in e.offers : p <= r
               offer == [conn |-> w[s].link, q |-> q]
               messages == <<[type |-> "offer", offer |-> offer, q |-> q, owner |-> disk[q].owner]>>
    <3>1. wire' = Said(s, w, messages)
      BY <2>3 DEF NextOffer
    <3> HIDE DEF messages
    <3>2. QED
      BY <3>1
  <2>4. QED
    BY <2>1, <2>2, <2>3
<1>5. NoNew(wire, wire')
  BY <1>2, <1>4
<1>6. QED
  BY <1>3, <1>5, OneSession

LEMMA RegistryKeeps ==
  ASSUME NEW e, NEW f, NEW q, NEW s, NEW recover, Keeps(e, f)
  PROVE  Keeps(e, RegistryCleanup(f, q)) /\ Keeps(e, RegistryReconcile(s, f, q, recover))
<1>1. Keeps(e, RegistryCleanup(f, q))
  BY DEF Keeps, RegistryCleanup
<1>2. QED
  BY <1>1 DEF Keeps, RegistryReconcile

\* What the client does with the chats, and the connection it has.
LEMMA ClientSteps ==
  ASSUME OnceInv, NEW s \in Sessions,
         UNCHANGED <<retained, runs, count>>, NoNew(wire, wire'),
         UNCHANGED ext \/ \E e : Keeps(ext[s], e) /\ ext' = [ext EXCEPT ![s] = e]
  PROVE  OnceInv'
<1>1. DOMAIN ext' = Sessions /\ \A t \in Sessions : Keeps(ext[t], ext'[t])
  BY OnceShape, OneSession
<1>2. count' \in Counts /\ count.calls <= count'.calls
  BY OnceShape, CountsGrow
<1>3. retained' \subseteq retained
  OBVIOUS
<1>4. QED
  BY <1>1, <1>2, <1>3, OnceStays

LEMMA ClientOffers ==
  ASSUME OnceInv, NEW s \in Sessions, NEW e, NEW w, Keeps(ext[s], e), NoNew(wire, w), NextOffer(s, e, w),
         UNCHANGED <<retained, runs, count>>
  PROVE  OnceInv'
<1>1. NoNew(wire, wire') /\ DOMAIN ext' = Sessions /\ \A t \in Sessions : Keeps(ext[t], ext'[t])
  BY OfferKeeps
<1>2. count' \in Counts /\ count.calls <= count'.calls
  BY OnceShape, CountsGrow
<1>3. retained' \subseteq retained
  OBVIOUS
<1>4. QED
  BY <1>1, <1>2, <1>3, OnceStays

LEMMA ClientOnce ==
  ASSUME OnceInv, NEW s \in Sessions,
         \/ Registered(s) \/ Reconcile(s) \/ ClientCleanup(s) \/ ActivateHere(s)
         \/ \E v \in ext[s].verdicts, status \in {"recovered", "failed", "deleted"} : Conclude(s, v, status)
         \/ \E m \in ext[s].activations : FinishActivation(s, m)
         \/ \E m \in ext[s].commands : FinishCommand(s, m)
  PROVE  OnceInv'
<1> USE OnceShape
<1>1. "outcomes" \in DOMAIN ext[s]
  OBVIOUS
<1>2. wire[s].down # <<>> => NoNew(wire, Read(s)) /\ WireShape(Read(s))
  BY ReadingOne
<1>3. \A messages : NoNew(wire, Said(s, wire, messages))
  BY SayingNew
<1>4. wire[s].down # <<>> => \A messages : NoNew(wire, Said(s, Read(s), messages))
  BY <1>2, SayingNew, Further
<1>5. CASE Registered(s)
  <2> DEFINE e == [ext[s] EXCEPT !.offered = NoOffer, !.offers = Loadable, !.completeSent = FALSE]
  <2>1. Keeps(ext[s], e)
    BY <1>1 DEF Keeps
  <2>2. NextOffer(s, e, Read(s)) /\ wire[s].down # <<>> /\ UNCHANGED <<retained, runs, count>>
    BY <1>5 DEF Registered, Received, relayState
  <2> HIDE DEF e
  <2>3. QED
    BY <1>2, <2>1, <2>2, ClientOffers
<1>6. CASE Reconcile(s)
  <2> DEFINE m == Head(wire[s].down)
             e == [ext[s] EXCEPT !.offered = NoOffer, !.verdicts = @ \cup {[offer |-> m.offer, recover |-> m.recover]}]
  <2>1. Keeps(ext[s], e)
    BY <1>1 DEF Keeps
  <2>2. /\ wire' = Read(s) /\ wire[s].down # <<>> /\ UNCHANGED <<retained, runs, count>>
        /\ UNCHANGED ext \/ ext' = [ext EXCEPT ![s] = RegistryReconcile(s, e, m.offer.q, m.recover)]
    BY <1>6 DEF Reconcile, Received, relayState
  <2> HIDE DEF e, m
  <2>3. QED
    BY <1>2, <2>1, <2>2, RegistryKeeps, ClientSteps
<1>7. CASE ClientCleanup(s)
  <2> DEFINE q == Head(wire[s].down).q
  <2>1. Keeps(ext[s], MarkTerminal(ext[s], q))
    BY <1>1 DEF Keeps, MarkTerminal
  <2>2. /\ wire' = Read(s) /\ wire[s].down # <<>> /\ UNCHANGED <<retained, runs, count>>
        /\ ext' = [ext EXCEPT ![s] = RegistryCleanup(MarkTerminal(ext[s], q), q)]
    BY <1>7 DEF ClientCleanup, Received, relayState
  <2> HIDE DEF q
  <2>3. QED
    BY <1>2, <2>1, <2>2, RegistryKeeps, ClientSteps
<1>8. CASE ActivateHere(s)
  <2> DEFINE m == Head(wire[s].down)
             e == [ext[s] EXCEPT !.activations = @ \cup {m}]
             f == [e EXCEPT !.entry[m.q] = IF @ = "none" THEN "creating" ELSE @]
  <2>1. Keeps(ext[s], f)
    BY <1>1 DEF Keeps
  <2>2. wire[s].down # <<>> /\ UNCHANGED <<retained, runs, count>>
    BY <1>8 DEF ActivateHere, Received, relayState
  <2>3. /\ wire' = Read(s) \/ wire' = Said(s, Read(s), <<Result(m.cid, FALSE)>>)
        /\ UNCHANGED ext \/ ext' = [ext EXCEPT ![s] = f]
    <3>1. CASE m.q \in ext[s].dead
      BY <1>8, <3>1 DEF ActivateHere
    <3>2. CASE m.q \notin ext[s].dead /\ Refuses(s, m.q)
      BY <1>8, <3>2 DEF ActivateHere
    <3>3. CASE m.q \notin ext[s].dead /\ ~Refuses(s, m.q)
      BY <1>8, <3>3 DEF ActivateHere
    <3>4. QED
      BY <3>1, <3>2, <3>3
  <2> HIDE DEF f, e, m
  <2>4. QED
    BY <1>2, <1>4, <2>1, <2>2, <2>3, ClientSteps
<1>9. ASSUME NEW v \in ext[s].verdicts, NEW status \in {"recovered", "failed", "deleted"}, Conclude(s, v, status)
      PROVE  OnceInv'
  <2> DEFINE e == [ext[s] EXCEPT !.verdicts = @ \ {v},
                     !.live = IF status = "recovered" /\ ~Stale(s, v.offer.q) THEN @ \cup {v.offer.q} ELSE @]
             w == Said(s, wire, <<[type |-> "reconciled", offer |-> v.offer, status |-> status]>>)
  <2>1. Keeps(ext[s], e)
    BY <1>1 DEF Keeps
  <2>2. NoNew(wire, w)
    BY <1>3
  <2>3. NextOffer(s, e, w) /\ UNCHANGED <<retained, runs, count>>
    BY <1>9 DEF Conclude, relayState
  <2> HIDE DEF e, w
  <2>4. QED
    BY <2>1, <2>2, <2>3, ClientOffers
<1>10. ASSUME NEW m \in ext[s].activations, FinishActivation(s, m) PROVE OnceInv'
  <2> DEFINE e == [ext[s] EXCEPT !.activations = @ \ {m}]
             f == [e EXCEPT !.live = @ \cup {m.q}]
  <2>1. Keeps(ext[s], e) /\ Keeps(ext[s], f)
    BY <1>1 DEF Keeps
  <2>2. /\ ext' = [ext EXCEPT ![s] = e] \/ ext' = [ext EXCEPT ![s] = f]
        /\ wire' = wire \/ wire' = Said(s, wire, <<Result(m.cid, ext[s].entry[m.q] = "ready")>>)
        /\ UNCHANGED <<retained, runs, count>>
    BY <1>10 DEF FinishActivation, relayState
  <2> HIDE DEF e, f
  <2>3. NoNew(wire, wire')
    BY <1>3, <2>2
  <2>4. QED
    BY <2>1, <2>2, <2>3, ClientSteps
<1>11. ASSUME NEW m \in ext[s].commands, FinishCommand(s, m) PROVE OnceInv'
  <2> DEFINE e == [ext[s] EXCEPT !.commands = @ \ {m}]
  <2>1. Keeps(ext[s], e)
    BY <1>1 DEF Keeps
  <2>2. /\ ext' = [ext EXCEPT ![s] = e] /\ UNCHANGED <<retained, runs, count>>
        /\ wire' = wire \/ wire' = Said(s, wire, <<Result(m.cid, TRUE)>>)
    BY <1>11 DEF FinishCommand, relayState
  <2> HIDE DEF e
  <2>3. QED
    BY <1>3, <2>1, <2>2, ClientSteps
<1>12. QED
  BY <1>5, <1>6, <1>7, <1>8, <1>9, <1>10, <1>11

LEMMA RegistryOnce ==
  ASSUME OnceInv, NEW s \in Sessions, Registry(s) \/ Connect(s) \/ LinkLost(s)
  PROVE  OnceInv'
<1> USE OnceShape
<1>1. "outcomes" \in DOMAIN ext[s]
  OBVIOUS
<1>2. ASSUME NEW q \in Questions, NEW ok \in BOOLEAN, CreationEnds(s, q, ok) \/ RecoveryEnds(s, q, ok)
      PROVE  OnceInv'
  <2>1. \A x : Keeps(ext[s], [ext[s] EXCEPT !.entry[q] = x])
    BY <1>1 DEF Keeps
  <2>2. /\ \E x : ext' = [ext EXCEPT ![s] = [ext[s] EXCEPT !.entry[q] = x]]
        /\ UNCHANGED <<wire, retained, runs, count>>
    BY <1>2 DEF CreationEnds, RecoveryEnds, relayState
  <2>3. QED
    BY <2>1, <2>2, ClientSteps
<1>3. ASSUME NEW z \in ext[s].ending, NEW ok \in BOOLEAN, EndingEnds(s, z, ok) PROVE OnceInv'
  <2>1. Keeps(ext[s], [ext[s] EXCEPT !.ending = @ \ {z}])
    BY <1>1 DEF Keeps
  <2>2. ext' = [ext EXCEPT ![s] = [ext[s] EXCEPT !.ending = @ \ {z}]] /\ UNCHANGED <<wire, retained, runs, count>>
    BY <1>3 DEF EndingEnds, relayState
  <2>3. QED
    BY <2>1, <2>2, ClientSteps
<1>4. ASSUME NEW q \in Questions, TombstoneExpires(s, q) PROVE OnceInv'
  <2> DEFINE left == {c \in ext[s].outcomes : c[1] # q}
             e == [ext[s] EXCEPT !.tomb = @ \ {q}, !.outcomes = left]
  <2>1. Keeps(ext[s], e)
    BY <1>1 DEF Keeps
  <2>2. ext' = [ext EXCEPT ![s] = e] /\ UNCHANGED <<wire, retained, runs, count>>
    BY <1>4 DEF TombstoneExpires, relayState
  <2> HIDE DEF e
  <2>3. QED
    BY <2>1, <2>2, ClientSteps
<1>8. ASSUME NEW c \in ext[s].outcomes, OutcomeForgotten(s, c) PROVE OnceInv'
  <2> DEFINE e == [ext[s] EXCEPT !.outcomes = @ \ {c}]
  <2>1. Keeps(ext[s], e)
    BY <1>1 DEF Keeps
  <2>2. ext' = [ext EXCEPT ![s] = e] /\ UNCHANGED <<wire, retained, runs, count>>
    BY <1>8 DEF OutcomeForgotten, relayState
  <2> HIDE DEF e
  <2>3. QED
    BY <2>1, <2>2, ClientSteps
<1>5. CASE Connect(s)
  <2> DEFINE r == [link |-> count.conns + 1, down |-> <<>>, up |-> <<[type |-> "register"]>>]
  <2>1. /\ wire' = [wire EXCEPT ![s] = r] /\ UNCHANGED <<retained, ext, runs>>
        /\ count' = [count EXCEPT !.conns = @ + 1]
    BY <1>5 DEF Connect, relayState
  <2>2. DOMAIN r = {"link", "down", "up"} /\ r.down = <<>>
    OBVIOUS
  <2> HIDE DEF r
  <2>3. NoNew(wire, wire')
    BY <2>1, <2>2, Rewired
  <2>4. QED
    BY <2>1, <2>3, RelaySends
<1>6. CASE LinkLost(s)
  <2>1. DOMAIN NoWire = {"link", "down", "up"} /\ NoWire.down = <<>>
    BY DEF NoWire
  <2>2. wire' = [wire EXCEPT ![s] = NoWire] /\ UNCHANGED <<retained, ext, runs, count>>
    BY <1>6 DEF LinkLost, relayState
  <2>3. NoNew(wire, wire')
    BY <2>1, <2>2, Rewired
  <2>4. QED
    BY <2>2, <2>3, RelaySends
<1>7. QED
  BY <1>2, <1>3, <1>4, <1>5, <1>6, <1>8 DEF Registry

\* Server and extension may begin anew: then they remember nothing.
LEMMA ServerForgets ==
  ASSUME OnceInv, ServerRestart
  PROVE  OnceInv'
<1>1. /\ retained' = {} /\ UNCHANGED <<ext, runs>> /\ wire' = [s \in Sessions |-> NoWire]
      /\ count' = [count EXCEPT !.restarts = @ + 1]
  BY DEF ServerRestart
<1>2. DOMAIN NoWire = {"link", "down", "up"} /\ NoWire.down = <<>> /\ IsSeq(NoWire.down)
  BY DEF NoWire, IsSeq
<1>3. WireShape(wire') /\ \A s \in Sessions : \A c : \A i \in Nat : ~Has(wire'[s].down, i, c)
  BY <1>1, <1>2 DEF WireShape, Has
<1> DEFINE h == [s \in Sessions |-> 0]
<1>4. h \in [Sessions -> Nat] /\ Ahead(wire, wire', h)
  BY <1>3 DEF Ahead
<1>5. NoNew(wire, wire')
  BY <1>3, <1>4 DEF NoNew
<1>6. QED
  BY <1>1, <1>5, RelaySends

LEMMA ExtensionForgets ==
  ASSUME OnceInv, NEW s \in Sessions, NEW how, Restart(s, how)
  PROVE  OnceInv'
<1> DEFINE e == IF how = "reload" THEN SuspendAll(s) ELSE NewExt
<1>1. "outcomes" \in DOMAIN e /\ e.outcomes = {} /\ ext' = [ext EXCEPT ![s] = e]
  BY DEF Restart, SuspendAll, NewExt
<1> HIDE DEF e
<1>2. Keeps(ext[s], e)
  BY <1>1 DEF Keeps
<1>3. /\ wire' = [wire EXCEPT ![s] = NoWire] /\ UNCHANGED <<retained, runs>>
      /\ count' = [count EXCEPT !.reloads = @ + 1]
  BY DEF Restart, relayState
<1>4. DOMAIN NoWire = {"link", "down", "up"} /\ NoWire.down = <<>>
  BY DEF NoWire
<1>5. NoNew(wire, wire')
  BY <1>3, <1>4, Rewired, OnceShape
<1>6. count' \in Counts /\ count.calls <= count'.calls
  BY <1>3, CountsGrow, OnceShape
<1>7. DOMAIN ext' = Sessions /\ \A t \in Sessions : Keeps(ext[t], ext'[t])
  BY <1>1, <1>2, OneSession
<1>8. QED
  BY <1>3, <1>5, <1>6, <1>7, OnceStays

\* A command is executed, or answered from what is remembered of it.
LEMMA ExecuteOnce ==
  ASSUME OnceInv, NEW s \in Sessions, Execute(s)
  PROVE  OnceInv'
<1> USE OnceShape
<1> DEFINE d == wire[s].down
           m == Head(d)
           o == <<m.q, m.id, m.cid>>
           new == m.id # NoCommandId /\ ~Known(s, m)
           e == [ext[s] EXCEPT !.commands = @ \cup {m}]
           f == [e EXCEPT !.outcomes = @ \cup {o}]
<1>1. "outcomes" \in DOMAIN ext[s]
  OBVIOUS
<1>2. /\ d # <<>> /\ m.type = "command" /\ UNCHANGED <<retained, count>>
      /\ \/ wire' = Said(s, Read(s), <<Result(m.cid, FALSE)>>) /\ UNCHANGED <<ext, runs>>
         \/ wire' = Read(s) /\ ~new /\ ext' = [ext EXCEPT ![s] = e] /\ UNCHANGED runs
         \/ wire' = Read(s) /\ new /\ ext' = [ext EXCEPT ![s] = f] /\ runs' = Record(m)
  BY DEF Execute, Received, relayState
<1>3. Keeps(ext[s], e) /\ "outcomes" \in DOMAIN f /\ f.outcomes = ext[s].outcomes \cup {o}
  BY <1>1 DEF Keeps
<1>4. NoNew(wire, Read(s)) /\ NoNew(wire, Said(s, Read(s), <<Result(m.cid, FALSE)>>))
  BY <1>2, ReadingOne, SayingNew, Further
<1>5. new => Has(d, 1, m)
  <2>1. PICK D : d \in Seq(D)
    BY DEF WireShape, IsSeq
  <2>2. 1 \in 1..Len(d) /\ d[1] = m
    BY <1>2, <2>1
  <2>3. QED
    BY <1>2, <2>2 DEF Has
<1>6. new => \A x \in ext[s].outcomes : ~(x[1] = m.q /\ x[2] = m.id)
  BY DEF Known, Remembers
<1>7. Record(m) = [runs EXCEPT ![Name(m)] = Append(runs[Name(m)], m.cid)]
  BY DEF Record, Name
<1>8. o[1] = m.q /\ o[2] = m.id /\ o[3] = m.cid /\ Name(m) = <<m.q, m.id>>
  BY DEF Name
<1> HIDE DEF e, f, o, new, m
<1>9. ASSUME UNCHANGED runs, NoNew(wire, wire'), UNCHANGED ext \/ ext' = [ext EXCEPT ![s] = e]
      PROVE  OnceInv'
  BY <1>2, <1>3, <1>9, ClientSteps
<1>10. CASE new /\ wire' = Read(s) /\ ext' = [ext EXCEPT ![s] = f] /\ runs' = Record(m)
  <2> DEFINE c == Name(m)
             n == Len(runs[c])
  <2>1. /\ c \in Questions \X CommandIds /\ s = Source[m.q] /\ m.cid \in Nat /\ m.cid <= count.calls
        /\ \A k \in 1..n : runs[c][k] < m.cid
        /\ \A x \in retained : c = <<x[1], x[2]>> => m.cid <= x[3]
    BY <1>5, <1>10 DEF OnceInv, Numbered, RunsBefore, Latest
  <2>2. /\ runs' \in [Questions \X CommandIds -> Seq(Nat)]
        /\ n \in Nat /\ Len(runs'[c]) = n + 1 /\ runs'[c][n + 1] = m.cid
        /\ \A k \in 1..n : runs'[c][k] = runs[c][k] /\ runs[c][k] \in Nat
        /\ \A x \in Questions \X CommandIds : x # c => runs'[x] = runs[x]
    <3>1. runs \in [Questions \X CommandIds -> Seq(Nat)] /\ runs[c] \in Seq(Nat)
      BY <2>1 DEF OnceInv, ChatShape
    <3>2. /\ Append(runs[c], m.cid) \in Seq(Nat) /\ Len(Append(runs[c], m.cid)) = n + 1
          /\ Append(runs[c], m.cid)[n + 1] = m.cid /\ n \in Nat
          /\ \A k \in 1..n : Append(runs[c], m.cid)[k] = runs[c][k] /\ runs[c][k] \in Nat
      BY <2>1, <3>1
    <3>3. runs' = [runs EXCEPT ![c] = Append(runs[c], m.cid)]
      BY <1>7, <1>10
    <3> HIDE DEF c
    <3>4. runs'[c] = Append(runs[c], m.cid) /\ \A x \in Questions \X CommandIds : x # c => runs'[x] = runs[x]
      BY <2>1, <3>1, <3>3
    <3>5. runs' \in [Questions \X CommandIds -> Seq(Nat)]
      BY <2>1, <3>1, <3>2, <3>3
    <3>6. QED
      BY <3>2, <3>4, <3>5
  <2> HIDE DEF c, n
  <2>3. \A k \in 1..(n + 1) : k \in 1..n \/ k = n + 1
    BY <2>2
  <2>4. DOMAIN ext' = Sessions /\ \A t \in Sessions : ext'[t] = IF t = s THEN f ELSE ext[t]
    BY <1>10
  <2>5. \A t \in Sessions : \A x : \A i \in Nat : Has(wire'[t].down, i, x) =>
          \E j \in Nat : Has(wire[t].down, j, x)
    BY <1>4, <1>10, NothingSent
  <2>6. ASSUME NEW x, NEW t \in Sessions, NEW i \in Nat, Has(wire'[t].down, i, x), Name(x) = c
        PROVE  m.cid < x.cid
    <3>1. i + (IF t = s THEN 1 ELSE 0) \in Nat /\ Has(wire[t].down, i + (IF t = s THEN 1 ELSE 0), x)
      BY <1>2, <1>10, <2>6, ReadingOne
    <3>2. t = Source[x.q] /\ x.q = m.q
      BY <2>6, <3>1 DEF OnceInv, Numbered, Name, c
    <3>3. t = s
      BY <2>1, <3>2
    <3>4. i \in 1..Len(wire'[t].down)
      BY <2>6 DEF Has
    <3>5. i + 1 \in Nat /\ 1 < i + 1 /\ Has(wire[s].down, i + 1, x)
      BY <3>1, <3>3, <3>4
    <3>6. QED
      BY <1>5, <1>10, <2>6, <3>5 DEF OnceInv, InOrder, c
  <2>7. ChatShape'
    BY <1>2, <1>3, <1>4, <1>10, <2>2, <2>4 DEF OnceInv, ChatShape, NoNew, WireShape, IsSeq
  <2>8. Numbered'
    <3>1. \A t \in Sessions : \A x : \A i \in Nat : Has(wire'[t].down, i, x) =>
            /\ Name(x) \in Questions \X CommandIds /\ t = Source[x.q] /\ x.cid \in Nat /\ x.cid <= count.calls
      BY <2>5 DEF OnceInv, Numbered
    <3>2. ASSUME NEW x \in Questions \X CommandIds, NEW k \in 1..Len(runs'[x]) PROVE runs'[x][k] <= count.calls
      <4>1. CASE x # c
        BY <2>2, <4>1 DEF OnceInv, Numbered
      <4>2. CASE x = c /\ k \in 1..n
        BY <2>1, <2>2, <4>2 DEF OnceInv, Numbered, n
      <4>3. CASE x = c /\ k = n + 1
        BY <2>1, <2>2, <4>3
      <4>4. QED
        BY <2>2, <2>3, <4>1, <4>2, <4>3
    <3>3. \A x \in retained : x[3] <= count.calls
      BY DEF OnceInv, Numbered
    <3>4. QED
      BY <1>2, <3>1, <3>2, <3>3 DEF Numbered, Has, Name
  <2>9. InOrder'
    BY <1>4, <1>10, NothingSent
  <2>10. Latest'
    <3>1. ASSUME NEW y \in retained, NEW t \in Sessions, NEW x, NEW i \in Nat,
                 Has(wire'[t].down, i, x), Name(x) = <<y[1], y[2]>>
          PROVE  x.cid <= y[3]
      <4>1. PICK j \in Nat : Has(wire[t].down, j, x)
        BY <2>5, <3>1
      <4>2. QED
        BY <3>1, <4>1 DEF OnceInv, Latest
    <3>2. QED
      BY <1>2, <3>1 DEF Latest, Has, Name
  <2>11. RunsBefore'
    <3> SUFFICES ASSUME NEW x, NEW t \in Sessions, NEW i \in Nat, Has(wire'[t].down, i, x),
                        NEW k \in 1..Len(runs'[Name(x)])
                 PROVE  runs'[Name(x)][k] < x.cid
      BY DEF RunsBefore, Has, Name
    <3>1. PICK j \in Nat : Has(wire[t].down, j, x)
      BY <2>5
    <3>2. Name(x) \in Questions \X CommandIds /\ x.cid \in Nat
      BY <3>1 DEF OnceInv, Numbered
    <3>3. CASE Name(x) # c
      BY <2>2, <3>1, <3>2, <3>3 DEF OnceInv, RunsBefore
    <3>4. CASE Name(x) = c /\ k \in 1..n
      BY <2>2, <3>1, <3>4 DEF OnceInv, RunsBefore, n
    <3>5. CASE Name(x) = c /\ k = n + 1
      BY <2>2, <2>6, <3>5
    <3>6. QED
      BY <2>2, <2>3, <3>3, <3>4, <3>5
  <2>12. ExecutedOnce'
    <3>1. DOMAIN runs' = Questions \X CommandIds /\ \A x \in Questions \X CommandIds : DOMAIN runs'[x] = 1..Len(runs'[x])
      BY <2>2
    <3>2. /\ DOMAIN runs = Questions \X CommandIds
          /\ \A x \in Questions \X CommandIds : DOMAIN runs[x] = 1..Len(runs[x])
      BY DEF OnceInv, ChatShape
    <3> SUFFICES ASSUME NEW x \in Questions \X CommandIds, NEW i \in 1..Len(runs'[x]), NEW j \in 1..Len(runs'[x]), i < j
                 PROVE  /\ <<x[1], x[2], runs'[x][i]>> \notin retained
                        /\ <<x[1], x[2], runs'[x][i]>> \notin ext'[Source[x[1]]].outcomes
      BY <1>2, <3>1 DEF ExecutedOnce
    <3>3. Source[x[1]] \in Sessions
      BY ChatAssumption
    <3>4. CASE x # c
      <4>1. <<x[1], x[2], runs'[x][i]>> # o
        <5>1. x = <<x[1], x[2]>>
          OBVIOUS
        <5>2. QED
          BY <1>8, <3>4, <5>1 DEF c
      <4>2. runs'[x] = runs[x]
        BY <2>2, <3>4
      <4>3. QED
        BY <1>3, <2>4, <3>2, <3>3, <4>1, <4>2 DEF OnceInv, ExecutedOnce
    <3>5. CASE x = c /\ j \in 1..n
      <4>1. i \in 1..n /\ runs'[x][i] = runs[c][i] /\ runs[c][i] < m.cid /\ runs[c][i] \in Nat
        BY <2>1, <2>2, <2>3, <3>5
      <4>2. <<x[1], x[2], runs'[x][i]>> # o
        BY <1>8, <2>1, <4>1
      <4>3. i \in DOMAIN runs[x] /\ j \in DOMAIN runs[x] /\ runs'[x][i] = runs[x][i]
        BY <3>2, <3>5, <4>1 DEF n
      <4>4. QED
        BY <1>3, <2>4, <3>2, <3>3, <4>2, <4>3 DEF OnceInv, ExecutedOnce
    <3>6. CASE x = c /\ j = n + 1
      <4>0. i \in 1..n
        <5>1. i \in Nat /\ i < n + 1 /\ i >= 1 /\ n \in Nat
          BY <2>2, <3>6
        <5>2. QED
          BY <5>1
      <4>1. i \in 1..n /\ runs'[x][i] = runs[c][i] /\ runs[c][i] < m.cid /\ runs[c][i] \in Nat
        BY <2>1, <2>2, <3>6, <4>0
      <4>2. x[1] = m.q /\ x[2] = m.id
        BY <1>8, <3>6 DEF c
      <4> DEFINE run == <<x[1], x[2], runs'[x][i]>>
      <4>3. run[1] = m.q /\ run[2] = m.id /\ run[3] = runs[c][i]
        BY <4>1, <4>2
      <4> HIDE DEF run
      <4>4. run \notin retained
        BY <1>8, <2>1, <4>1, <4>3 DEF c
      <4>5. run # o /\ run \notin ext[s].outcomes
        BY <1>6, <1>8, <1>10, <2>1, <4>1, <4>3
      <4>6. Source[x[1]] = s
        BY <2>1, <4>2
      <4>7. QED
        BY <1>3, <2>4, <4>4, <4>5, <4>6 DEF run
    <3>7. QED
      BY <2>2, <2>3, <3>4, <3>5, <3>6
  <2>13. QED
    BY <2>7, <2>8, <2>9, <2>10, <2>11, <2>12 DEF OnceInv
<1>11. QED
  BY <1>2, <1>4, <1>9, <1>10

LEMMA OnceStep ==
  ASSUME OnceInv, [Next]_vars
  PROVE  OnceInv'
<1>1. CASE Http
  BY <1>1, HttpOnce
<1>2. CASE (\E p \in pending : Timeout(p)) \/ \E c \in retained : RelayForgets(c)
  BY <1>2, HttpOnce
<1>3. CASE ServerRestart
  BY <1>3, ServerForgets
<1>4. ASSUME NEW s \in Sessions, Server(s) PROVE OnceInv'
  BY <1>4, ServerOnce
<1>5. ASSUME NEW s \in Sessions, Client(s) PROVE OnceInv'
  BY <1>5, ClientOnce, ExecuteOnce DEF Client
<1>6. ASSUME NEW s \in Sessions, Registry(s) PROVE OnceInv'
  BY <1>6, RegistryOnce
<1>7. ASSUME NEW s \in Sessions, Fault(s) PROVE OnceInv'
  <2>1. CASE Connect(s) \/ LinkLost(s)
    BY <2>1, RegistryOnce
  <2>2. CASE Unbind(s)
    BY <2>2, ServerOnce
  <2>3. ASSUME NEW how, Restart(s, how) PROVE OnceInv'
    BY <2>3, ExtensionForgets
  <2>4. QED
    BY <1>7, <2>1, <2>2, <2>3 DEF Fault
<1>8. CASE UNCHANGED vars
  BY <1>8, OnceShape, RelaySends DEF vars, relayState
<1>9. QED
  BY <1>1, <1>2, <1>3, <1>4, <1>5, <1>6, <1>7, <1>8 DEF Next

\* The id of a message or a stop makes its retries idempotent: it is executed
\* again only after the relay and the session have both forgotten every earlier
\* execution, however long a message was on its way.
THEOREM CommandsRunOnce == Spec => []ExecutedOnce
<1>1. Init => OnceInv
  BY OnceStarts
<1>2. OnceInv /\ [Next]_vars => OnceInv'
  BY OnceStep
<1>3. OnceInv => ExecutedOnce
  BY DEF OnceInv
<1>4. QED
  BY <1>1, <1>2, <1>3, PTL DEF Spec

-----------------------------------------------------------------------------
(* Results.  A call has an id of its own, so that a result that counts for    *)
(* one command of the relay counts for no other.                              *)

CallsDiffer == \A p, r \in pending : p.cid = r.cid => p = r
CallsCounted == count \in Counts /\ \A p \in pending : p.cid \in 1..count.calls
CallsInv == CallsDiffer /\ CallsCounted

LEMMA CallsStart == Init => CallsInv
BY DEF Init, CallsInv, CallsDiffer, CallsCounted, Counts

\* A step that makes no call.
LEMMA NoCall ==
  ASSUME CallsInv, pending' \subseteq pending, count' \in Counts, count'.calls = count.calls
  PROVE  CallsInv'
BY DEF CallsInv, CallsDiffer, CallsCounted

LEMMA OneCall ==
  ASSUME CallsInv, NEW kind, NEW q, NEW id, Dispatch(kind, q, id)
  PROVE  CallsInv'
<1> DEFINE p == [type |-> kind, cid |-> count.calls + 1, q |-> q, id |-> id,
                 conn |-> host[Source[q]].bound, prev |-> active[q]]
<1>1. pending' = pending \cup {p} /\ p.cid = count.calls + 1
  BY DEF Dispatch
<1> HIDE DEF p
<1>2. /\ count' = [count EXCEPT !.calls = count.calls + 1]
      /\ count \in Counts /\ count.calls \in Nat
  BY DEF Dispatch, CallsInv, CallsCounted, Counts
<1>3. count' \in Counts /\ count'.calls = count.calls + 1
  BY <1>2, CountsGrow DEF Counts
<1>4. CallsCounted'
  BY <1>1, <1>2, <1>3 DEF CallsInv, CallsCounted
<1>5. CallsDiffer'
  BY <1>1, <1>2 DEF CallsInv, CallsCounted, CallsDiffer
<1>6. QED
  BY <1>4, <1>5 DEF CallsInv

\* What a step does to the commands that wait and to the calls made.
LEMMA CallsStep ==
  ASSUME CallsInv, [Next]_vars
  PROVE  CallsInv'
<1>1. count \in Counts
  BY DEF CallsInv, CallsCounted
<1>2. UNCHANGED count => count' \in Counts /\ count'.calls = count.calls
  BY <1>1
<1>3. \A c \in {[count EXCEPT !.conns = @ + 1], [count EXCEPT !.moves = @ + 1],
                [count EXCEPT !.restarts = @ + 1], [count EXCEPT !.reloads = @ + 1]} :
        c \in Counts /\ c.calls = count.calls
  BY <1>1 DEF Counts
<1>4. CASE Http
  <2>1. ASSUME NEW q \in Questions, Activate(q) PROVE CallsInv'
    BY <2>1, OneCall DEF Activate
  <2>2. ASSUME NEW q \in Questions, NEW id, BrowserCommand(q, id) PROVE CallsInv'
    BY <2>2, OneCall DEF BrowserCommand
  <2>3. ASSUME NEW q \in Questions, NEW told, CloseQuestion(q, told) PROVE CallsInv'
    <3>1. UNCHANGED count /\ pending' \subseteq pending
      BY <2>3 DEF CloseQuestion, RelayCleanup
    <3>2. QED
      BY <1>2, <3>1, NoCall
  <2>4. ASSUME NEW q \in Questions, MoveQuestion(q) PROVE CallsInv'
    BY <1>3, <2>4, NoCall DEF MoveQuestion
  <2>5. ASSUME NEW q \in Questions, WithdrawQuestion(q) PROVE CallsInv'
    BY <1>2, <2>5, NoCall DEF WithdrawQuestion, relayState
  <2>6. QED
    BY <1>4, <2>1, <2>2, <2>3, <2>4, <2>5 DEF Http
<1>5. CASE (\E p \in pending : Timeout(p)) \/ \E c \in retained : RelayForgets(c)
  BY <1>2, <1>5, NoCall DEF Timeout, CommandTimeout, RelayForgets
<1>6. CASE ServerRestart
  BY <1>3, <1>6, NoCall DEF ServerRestart
<1>7. ASSUME NEW s \in Sessions, Server(s) PROVE CallsInv'
  <2>1. UNCHANGED count /\ pending' \subseteq pending
    BY <1>7 DEF Server, ServerRegister, ServerOffer, ServerComplete, ServerReconciled, ServerResult, relayState
  <2>2. QED
    BY <1>2, <2>1, NoCall
<1>8. ASSUME NEW s \in Sessions, Client(s) PROVE CallsInv'
  <2>1. UNCHANGED <<count, pending>>
    BY <1>8 DEF Client, Registered, Reconcile, ClientCleanup, ActivateHere, Execute, Conclude,
                FinishActivation, FinishCommand, relayState
  <2>2. QED
    BY <1>2, <2>1, NoCall
<1>9. ASSUME NEW s \in Sessions, Registry(s) PROVE CallsInv'
  <2>1. UNCHANGED <<count, pending>>
    BY <1>9 DEF Registry, CreationEnds, RecoveryEnds, EndingEnds, TombstoneExpires, OutcomeForgotten, relayState
  <2>2. QED
    BY <1>2, <2>1, NoCall
<1>10. ASSUME NEW s \in Sessions, Fault(s) PROVE CallsInv'
  <2>1. pending' = pending
    BY <1>10 DEF Fault, Connect, LinkLost, Unbind, Restart, relayState
  <2>2. count' = count \/ count' = [count EXCEPT !.conns = @ + 1] \/ count' = [count EXCEPT !.reloads = @ + 1]
    BY <1>10 DEF Fault, Connect, LinkLost, Unbind, Restart
  <2>3. QED
    BY <1>2, <1>3, <2>1, <2>2, NoCall
<1>11. CASE UNCHANGED vars
  BY <1>2, <1>11, NoCall DEF vars, relayState
<1>12. QED
  BY <1>4, <1>5, <1>6, <1>7, <1>8, <1>9, <1>10, <1>11 DEF Next

LEMMA OnlyResults ==
  ASSUME [Next]_vars
  PROVE  ready' = ready \/ \E s \in Sessions : ServerResult(s)
<1>1. ASSUME Http \/ (\E p \in pending : Timeout(p)) \/ (\E c \in retained : RelayForgets(c)) \/ ServerRestart
      PROVE  ready' = ready
  BY <1>1 DEF Http, Activate, BrowserCommand, CloseQuestion, MoveQuestion, WithdrawQuestion, Timeout, RelayForgets, ServerRestart
<1>2. ASSUME NEW s \in Sessions, Server(s), ~ServerResult(s) PROVE ready' = ready
  BY <1>2 DEF Server, ServerRegister, ServerOffer, ServerComplete, ServerReconciled
<1>3. ASSUME NEW s \in Sessions, Client(s) PROVE ready' = ready
  BY <1>3 DEF Client, Registered, Reconcile, ClientCleanup, ActivateHere, Execute, Conclude,
              FinishActivation, FinishCommand
<1>4. ASSUME NEW s \in Sessions, Registry(s) \/ Fault(s) PROVE ready' = ready
  BY <1>4 DEF Registry, CreationEnds, RecoveryEnds, EndingEnds, TombstoneExpires, OutcomeForgotten,
              Fault, Connect, LinkLost, Unbind, Restart
<1>5. CASE UNCHANGED vars
  BY <1>5 DEF vars
<1>6. QED
  BY <1>1, <1>2, <1>3, <1>4, <1>5 DEF Next

-----------------------------------------------------------------------------
(* What a browser hears.  A message on its way and a command being executed   *)
(* are what the relay's command of the same call asked for; what is executed, *)
(* remembered or reported as done has run.                                    *)

Carried(d) == {d[i] : i \in 1..Len(d)}
Of(m, P, n) == m.cid \in 1..n /\ \A p \in P : p.cid = m.cid => p.type = m.type /\ p.q = m.q /\ p.id = m.id
Ran(q, id, R) == <<q, id>> \in DOMAIN R /\ R[<<q, id>>] # <<>>
Backed(cid, P, n, R) ==
  cid \in 1..n /\ \A p \in P : p.cid = cid /\ p.type = "command" /\ p.id # NoCommandId => Ran(p.q, p.id, R)

DownTrue(d, P, n) == \A m \in Carried(d) : m.type \in {"command", "activate"} => Of(m, P, n)
UpTrue(u, P, n, R) == \A m \in Carried(u) : m.type = "result" /\ m.ok => Backed(m.cid, P, n, R)
Done(m, P, n, R) == Of(m, P, n) /\ (m.id # NoCommandId => Ran(m.q, m.id, R))
ExtTrue(e, P, n, R) ==
  /\ {"commands", "activations", "outcomes"} \subseteq DOMAIN e
  /\ \A m \in e.commands : Done(m, P, n, R)
  /\ \A m \in e.activations : m.type = "activate" /\ Of(m, P, n)
  /\ \A c \in e.outcomes : Ran(c[1], c[2], R)
Wired(w) ==
  DOMAIN w = Sessions /\ \A s \in Sessions : DOMAIN w[s] = {"link", "down", "up"} /\ IsSeq(w[s].down) /\ IsSeq(w[s].up)
TruthInv ==
  /\ Wired(wire) /\ DOMAIN ext = Sessions
  /\ \A s \in Sessions : /\ DownTrue(wire[s].down, pending, count.calls)
                         /\ UpTrue(wire[s].up, pending, count.calls, runs)
                         /\ ExtTrue(ext[s], pending, count.calls, runs)

\* From w to v only messages of D are sent to sessions, only those of U back.
Adds(w, v, D, U) ==
  Wired(v) /\ \A s \in Sessions : /\ Carried(v[s].down) \subseteq Carried(w[s].down) \cup D
                                  /\ Carried(v[s].up) \subseteq Carried(w[s].up) \cup U

LEMMA CarriedBy ==
  ASSUME NEW d, IsSeq(d), NEW m
  PROVE  /\ IsSeq(d \o <<m>>) /\ Carried(d \o <<m>>) = Carried(d) \cup {m}
         /\ d # <<>> => IsSeq(Tail(d)) /\ Carried(Tail(d)) \subseteq Carried(d) /\ Head(d) \in Carried(d)
         /\ IsSeq(<<>>) /\ Carried(<<>>) = {} /\ IsSeq(<<m>>) /\ Carried(<<m>>) = {m}
<1>1. PICK D : d \in Seq(D)
  BY DEF IsSeq
<1>2. /\ d \o <<m>> \in Seq(D \cup {m}) /\ Len(d) \in Nat /\ Len(d \o <<m>>) = Len(d) + 1
      /\ \A i \in 1..Len(d) : (d \o <<m>>)[i] = d[i]
      /\ (d \o <<m>>)[Len(d) + 1] = m
  BY <1>1
<1>3. Carried(d \o <<m>>) = Carried(d) \cup {m}
  <2>1. 1..(Len(d) + 1) = (1..Len(d)) \cup {Len(d) + 1}
    BY <1>2
  <2>2. QED
    BY <1>2, <2>1 DEF Carried
<1>4. ASSUME d # <<>>
      PROVE  IsSeq(Tail(d)) /\ Carried(Tail(d)) \subseteq Carried(d) /\ Head(d) \in Carried(d)
  <2>1. /\ Tail(d) \in Seq(D) /\ \A i \in 1..Len(Tail(d)) : i + 1 \in 1..Len(d) /\ Tail(d)[i] = d[i + 1]
        /\ 1 \in 1..Len(d) /\ Head(d) = d[1]
    BY <1>1, <1>4
  <2>2. QED
    BY <2>1 DEF Carried, IsSeq
<1>5. IsSeq(<<>>) /\ Carried(<<>>) = {}
  BY DEF IsSeq, Carried
<1>6. IsSeq(<<m>>) /\ Carried(<<m>>) = {m}
  <2>1. <<m>> \in Seq({m}) /\ Len(<<m>>) = 1 /\ <<m>>[1] = m /\ 1..1 = {1}
    OBVIOUS
  <2>2. QED
    BY <2>1 DEF IsSeq, Carried
<1>7. QED
  BY <1>2, <1>3, <1>4, <1>5, <1>6 DEF IsSeq

LEMMA AddsNone ==
  ASSUME NEW w, Wired(w), NEW D, NEW U
  PROVE  Adds(w, w, D, U)
BY DEF Adds

LEMMA AddsBoth ==
  ASSUME NEW u, NEW v, NEW w, NEW D, NEW U, Adds(u, v, D, U), Adds(v, w, D, U)
  PROVE  Adds(u, w, D, U)
BY DEF Adds

LEMMA AddsOne ==
  ASSUME NEW w, Wired(w), NEW s \in Sessions, NEW r, DOMAIN r = {"link", "down", "up"},
         IsSeq(r.down), IsSeq(r.up), NEW D, NEW U,
         Carried(r.down) \subseteq Carried(w[s].down) \cup D, Carried(r.up) \subseteq Carried(w[s].up) \cup U
  PROVE  Adds(w, [w EXCEPT ![s] = r], D, U)
<1> DEFINE v == [w EXCEPT ![s] = r]
<1>1. DOMAIN v = Sessions /\ \A t \in Sessions : v[t] = IF t = s THEN r ELSE w[t]
  BY DEF Wired
<1> HIDE DEF v
<1>2. Wired(v)
  BY <1>1 DEF Wired
<1>3. QED
  BY <1>1, <1>2 DEF Adds, v

LEMMA SendAdds ==
  ASSUME NEW w, Wired(w), NEW s \in Sessions, NEW D, NEW U, NEW m \in D
  PROVE  Adds(w, Send(w, s, <<m>>), D, U)
<1> DEFINE r == [w[s] EXCEPT !.down = w[s].down \o <<m>>]
<1>1. IsSeq(w[s].down) /\ IsSeq(w[s].up)
  BY DEF Wired
<1>2. IsSeq(w[s].down \o <<m>>) /\ Carried(w[s].down \o <<m>>) = Carried(w[s].down) \cup {m}
  BY <1>1, CarriedBy
<1>3. DOMAIN r = {"link", "down", "up"} /\ r.down = w[s].down \o <<m>> /\ r.up = w[s].up
  BY DEF Wired
<1>4. Send(w, s, <<m>>) \in {w, [w EXCEPT ![s] = r]}
  BY DEF Send
<1> HIDE DEF r
<1>5. Adds(w, [w EXCEPT ![s] = r], D, U)
  BY <1>1, <1>2, <1>3, AddsOne
<1>6. QED
  BY <1>4, <1>5, AddsNone

LEMMA SaidAdds ==
  ASSUME NEW w, Wired(w), NEW s \in Sessions, NEW D, NEW U, NEW m \in U
  PROVE  Adds(w, Said(s, w, <<m>>), D, U)
<1> DEFINE r == [w[s] EXCEPT !.up = w[s].up \o <<m>>]
<1>1. IsSeq(w[s].down) /\ IsSeq(w[s].up)
  BY DEF Wired
<1>2. IsSeq(w[s].up \o <<m>>) /\ Carried(w[s].up \o <<m>>) = Carried(w[s].up) \cup {m}
  BY <1>1, CarriedBy
<1>3. DOMAIN r = {"link", "down", "up"} /\ r.up = w[s].up \o <<m>> /\ r.down = w[s].down
  BY DEF Wired
<1>4. Said(s, w, <<m>>) \in {w, [w EXCEPT ![s] = r]}
  BY DEF Said
<1> HIDE DEF r
<1>5. Adds(w, [w EXCEPT ![s] = r], D, U)
  BY <1>1, <1>2, <1>3, AddsOne
<1>6. QED
  BY <1>4, <1>5, AddsNone

LEMMA TakenAdds ==
  ASSUME NEW w, Wired(w), NEW s \in Sessions, NEW D, NEW U, w[s].up # <<>>
  PROVE  Adds(w, Taken(s, w), D, U)
<1> DEFINE r == [w[s] EXCEPT !.up = Tail(w[s].up)]
<1>1. IsSeq(w[s].down) /\ IsSeq(w[s].up)
  BY DEF Wired
<1>2. IsSeq(Tail(w[s].up)) /\ Carried(Tail(w[s].up)) \subseteq Carried(w[s].up)
  BY <1>1, CarriedBy
<1>3. DOMAIN r = {"link", "down", "up"} /\ r.up = Tail(w[s].up) /\ r.down = w[s].down
  BY DEF Wired
<1>4. Taken(s, w) = [w EXCEPT ![s] = r]
  BY DEF Taken
<1> HIDE DEF r
<1>5. /\ IsSeq(r.down) /\ IsSeq(r.up)
      /\ Carried(r.down) \subseteq Carried(w[s].down) \cup D /\ Carried(r.up) \subseteq Carried(w[s].up) \cup U
  BY <1>1, <1>2, <1>3
<1>6. Adds(w, [w EXCEPT ![s] = r], D, U)
  BY <1>3, <1>5, AddsOne
<1>7. QED
  BY <1>4, <1>6

\* The server takes a message and may send one.
LEMMA AnsweredAdds ==
  ASSUME NEW w, Wired(w), NEW s \in Sessions, NEW D, NEW U, NEW m \in D, w[s].up # <<>>
  PROVE  Adds(w, Taken(s, Send(w, s, <<m>>)), D, U)
<1> DEFINE v == Send(w, s, <<m>>)
<1>1. Adds(w, v, D, U)
  BY SendAdds
<1>2. v[s].up = w[s].up
  BY DEF Send, Wired
<1> HIDE DEF v
<1>3. Adds(v, Taken(s, v), D, U)
  BY <1>1, <1>2, TakenAdds DEF Adds
<1>4. Adds(w, Taken(s, v), D, U)
  BY <1>1, <1>3, AddsBoth
<1>5. QED
  BY <1>4 DEF v

LEMMA ReadAdds ==
  ASSUME Wired(wire), NEW s \in Sessions, NEW D, NEW U, wire[s].down # <<>>
  PROVE  /\ Adds(wire, Read(s), D, U)
         /\ \A m \in U : Adds(wire, Said(s, Read(s), <<m>>), D, U)
<1> DEFINE r == [wire[s] EXCEPT !.down = Tail(wire[s].down)]
<1>1. IsSeq(wire[s].down) /\ IsSeq(wire[s].up)
  BY DEF Wired
<1>2. IsSeq(Tail(wire[s].down)) /\ Carried(Tail(wire[s].down)) \subseteq Carried(wire[s].down)
  BY <1>1, CarriedBy
<1>3. DOMAIN r = {"link", "down", "up"} /\ r.down = Tail(wire[s].down) /\ r.up = wire[s].up
  BY DEF Wired
<1>4. Read(s) = [wire EXCEPT ![s] = r]
  BY DEF Read
<1> HIDE DEF r
<1>8. /\ IsSeq(r.down) /\ IsSeq(r.up) /\ Carried(r.up) \subseteq Carried(wire[s].up) \cup U
      /\ Carried(r.down) \subseteq Carried(wire[s].down) \cup D
  BY <1>1, <1>2, <1>3
<1>9. Adds(wire, [wire EXCEPT ![s] = r], D, U)
  BY <1>3, <1>8, AddsOne
<1>5. Adds(wire, Read(s), D, U)
  BY <1>4, <1>9
<1>6. ASSUME NEW m \in U PROVE Adds(wire, Said(s, Read(s), <<m>>), D, U)
  <2>1. Wired(Read(s))
    BY <1>5 DEF Adds
  <2>2. Adds(Read(s), Said(s, Read(s), <<m>>), D, U)
    BY <2>1, SaidAdds
  <2>3. QED
    BY <1>5, <2>2, AddsBoth
<1>7. QED
  BY <1>5, <1>6

\* A step: calls are made with numbers of their own, what has run has run.
Later ==
  /\ count.calls \in Nat /\ count'.calls \in Nat /\ count.calls <= count'.calls
  /\ \A p \in pending' : p \in pending \/ p.cid \notin 1..count.calls
  /\ \A q, id : Ran(q, id, runs) => Ran(q, id, runs')
Less(e, f) ==
  /\ {"commands", "activations", "outcomes"} \subseteq DOMAIN f
  /\ f.commands \subseteq e.commands /\ f.activations \subseteq e.activations /\ f.outcomes \subseteq e.outcomes

LEMMA StillTrue ==
  ASSUME Later
  PROVE  /\ \A m : Of(m, pending, count.calls) => Of(m, pending', count'.calls)
         /\ \A cid : Backed(cid, pending, count.calls, runs) => Backed(cid, pending', count'.calls, runs')
<1>1. \A x : x \in 1..count.calls => x \in 1..count'.calls
  BY DEF Later
<1>2. ASSUME NEW m, Of(m, pending, count.calls) PROVE Of(m, pending', count'.calls)
  BY <1>1, <1>2 DEF Later, Of
<1>3. ASSUME NEW cid, Backed(cid, pending, count.calls, runs) PROVE Backed(cid, pending', count'.calls, runs')
  BY <1>1, <1>3 DEF Later, Backed
<1>4. QED
  BY <1>2, <1>3

LEMMA ExtStays ==
  ASSUME Later, NEW e, NEW f, ExtTrue(e, pending, count.calls, runs), Less(e, f)
  PROVE  ExtTrue(f, pending', count'.calls, runs')
<1>1. \A m \in f.commands : Done(m, pending', count'.calls, runs')
  BY StillTrue DEF Less, ExtTrue, Done, Later
<1>2. \A m \in f.activations : m.type = "activate" /\ Of(m, pending', count'.calls)
  BY StillTrue DEF Less, ExtTrue
<1>3. \A c \in f.outcomes : Ran(c[1], c[2], runs')
  BY DEF Less, ExtTrue, Later
<1>4. QED
  BY <1>1, <1>2, <1>3 DEF Less, ExtTrue

LEMMA TruthStays ==
  ASSUME TruthInv, Later, NEW D, NEW U, Adds(wire, wire', D, U),
         \A m \in D : m.type \in {"command", "activate"} => Of(m, pending', count'.calls),
         \A m \in U : m.type = "result" /\ m.ok => Backed(m.cid, pending', count'.calls, runs'),
         DOMAIN ext' = Sessions, \A s \in Sessions : ExtTrue(ext'[s], pending', count'.calls, runs')
  PROVE  TruthInv'
<1>1. ASSUME NEW s \in Sessions PROVE DownTrue(wire'[s].down, pending', count'.calls)
  <2>1. ASSUME NEW m \in Carried(wire'[s].down), m.type \in {"command", "activate"}
        PROVE  Of(m, pending', count'.calls)
    <3>1. CASE m \in D
      BY <2>1, <3>1
    <3>2. CASE m \in Carried(wire[s].down)
      BY <2>1, <3>2, StillTrue DEF TruthInv, DownTrue
    <3>3. QED
      BY <2>1, <3>1, <3>2 DEF Adds
  <2>2. QED
    BY <2>1 DEF DownTrue
<1>2. ASSUME NEW s \in Sessions PROVE UpTrue(wire'[s].up, pending', count'.calls, runs')
  <2>1. ASSUME NEW m \in Carried(wire'[s].up), m.type = "result", m.ok
        PROVE  Backed(m.cid, pending', count'.calls, runs')
    <3>1. CASE m \in U
      BY <2>1, <3>1
    <3>2. CASE m \in Carried(wire[s].up)
      <4>1. Backed(m.cid, pending, count.calls, runs)
        BY <2>1, <3>2 DEF TruthInv, UpTrue
      <4>2. QED
        BY <4>1, StillTrue
    <3>3. QED
      BY <2>1, <3>1, <3>2 DEF Adds
  <2>2. QED
    BY <2>1 DEF UpTrue
<1>3. Wired(wire')
  BY DEF Adds
<1>4. Wired(wire)'
  BY <1>3 DEF Wired, IsSeq
<1>5. \A s \in Sessions : DownTrue(wire[s].down, pending, count.calls)'
  BY <1>1 DEF DownTrue, Carried, Of
<1>6. \A s \in Sessions : UpTrue(wire[s].up, pending, count.calls, runs)'
  BY <1>2 DEF UpTrue, Carried, Backed, Ran
<1>7. \A s \in Sessions : ExtTrue(ext[s], pending, count.calls, runs)'
  BY DEF ExtTrue, Done, Of, Ran
<1>8. QED
  BY <1>4, <1>5, <1>6, <1>7 DEF TruthInv

\* A step that executes nothing and takes up nothing.
LEMMA NothingTaken ==
  ASSUME TruthInv, CallsInv, UNCHANGED runs, pending' \subseteq pending, count'.calls = count.calls,
         NEW D, NEW U, Adds(wire, wire', D, U),
         \A m \in D : m.type \notin {"command", "activate"},
         \A m \in U : m.type = "result" /\ m.ok => Backed(m.cid, pending, count.calls, runs),
         NEW s \in Sessions, UNCHANGED ext \/ \E f : Less(ext[s], f) /\ ext' = [ext EXCEPT ![s] = f]
  PROVE  TruthInv'
<1>1. Later
  BY DEF Later, CallsInv, CallsCounted, Counts
<1>2. \A m \in U : m.type = "result" /\ m.ok => Backed(m.cid, pending', count'.calls, runs')
  BY <1>1, StillTrue
<1>3. \A t \in Sessions : ExtTrue(ext[t], pending, count.calls, runs) /\ Less(ext[t], ext[t])
  BY DEF TruthInv, ExtTrue, Less
<1>4. DOMAIN ext' = Sessions /\ \A t \in Sessions : ExtTrue(ext'[t], pending', count'.calls, runs')
  <2>1. CASE UNCHANGED ext
    BY <1>1, <1>3, <2>1, ExtStays DEF TruthInv
  <2>2. ASSUME NEW f, Less(ext[s], f), ext' = [ext EXCEPT ![s] = f]
        PROVE  DOMAIN ext' = Sessions /\ \A t \in Sessions : ExtTrue(ext'[t], pending', count'.calls, runs')
    <3>1. DOMAIN ext' = Sessions /\ \A t \in Sessions : ext'[t] = IF t = s THEN f ELSE ext[t]
      BY <2>2 DEF TruthInv
    <3>2. ExtTrue(f, pending', count'.calls, runs')
      BY <1>1, <1>3, <2>2, ExtStays
    <3>3. \A t \in Sessions : ExtTrue(ext[t], pending', count'.calls, runs')
      BY <1>1, <1>3, ExtStays
    <3>4. QED
      BY <3>1, <3>2, <3>3
  <2>3. QED
    BY <2>1, <2>2
<1>5. QED
  BY <1>1, <1>2, <1>4, TruthStays

LEMMA TruthStarts == Init => TruthInv
<1> SUFFICES ASSUME Init PROVE TruthInv
  OBVIOUS
<1>1. DOMAIN NoWire = {"link", "down", "up"} /\ NoWire.down = <<>> /\ NoWire.up = <<>>
  BY DEF NoWire
<1>2. IsSeq(<<>>) /\ Carried(<<>>) = {}
  BY DEF IsSeq, Carried
<1>3. DOMAIN ext = Sessions /\ \A s \in Sessions : wire[s] = NoWire /\ ext[s] = NewExt
  BY DEF Init
<1>4. Wired(wire)
  BY <1>1, <1>2 DEF Init, Wired
<1>5. \A s \in Sessions : ExtTrue(ext[s], pending, count.calls, runs)
  BY <1>3 DEF ExtTrue, NewExt
<1>6. \A s \in Sessions : DownTrue(wire[s].down, pending, count.calls) /\ UpTrue(wire[s].up, pending, count.calls, runs)
  BY <1>1, <1>2, <1>3 DEF DownTrue, UpTrue
<1>7. QED
  BY <1>3, <1>4, <1>5, <1>6 DEF TruthInv

LEMMA DispatchTrue ==
  ASSUME TruthInv, CallsInv, NEW kind, NEW q \in Questions, NEW id, Dispatch(kind, q, id), UNCHANGED <<ext, runs>>
  PROVE  TruthInv'
<1> DEFINE n == count.calls + 1
           s == Source[q]
           call == [type |-> kind, cid |-> n, q |-> q, id |-> id, conn |-> host[s].bound, prev |-> active[q]]
<1>1. /\ pending' = pending \cup {call} /\ count' = [count EXCEPT !.calls = n]
      /\ wire' = Send(wire, s, <<Command(kind, n, q, id)>>) /\ s \in Sessions
  BY ChatAssumption DEF Dispatch, Deliver
<1>2. count.calls \in Nat /\ n \in Nat /\ count.calls < n /\ count'.calls = n
  BY <1>1 DEF CallsInv, CallsCounted, Counts
<1>3. call.type = kind /\ call.cid = n /\ call.q = q /\ call.id = id
  OBVIOUS
<1>4. PICK m : m = Command(kind, n, q, id)
  OBVIOUS
<1>5. m.type = kind /\ m.cid = n /\ m.q = q /\ m.id = id
  BY <1>4 DEF Command
<1> HIDE DEF call, n
<1>6. \A p \in pending : p.cid \in 1..count.calls
  BY DEF CallsInv, CallsCounted
<1>7. n \in 1..n /\ n \notin 1..count.calls
  BY <1>2
<1>8. Of(m, pending', count'.calls)
  BY <1>1, <1>2, <1>3, <1>5, <1>6, <1>7 DEF Of
<1>9. Later
  BY <1>1, <1>2, <1>3, <1>7 DEF Later
<1>10. Adds(wire, wire', {m}, {})
  BY <1>1, <1>4, SendAdds DEF TruthInv
<1>11. DOMAIN ext' = Sessions /\ \A t \in Sessions : ExtTrue(ext'[t], pending', count'.calls, runs')
  <2>1. \A t \in Sessions : ExtTrue(ext[t], pending, count.calls, runs) /\ Less(ext[t], ext[t])
    BY DEF TruthInv, ExtTrue, Less
  <2>2. QED
    BY <1>9, <2>1, ExtStays DEF TruthInv
<1>12. \A x \in {m} : x.type \in {"command", "activate"} => Of(x, pending', count'.calls)
  BY <1>8
<1>13. QED
  BY <1>9, <1>10, <1>11, <1>12, TruthStays

\* A step of the relay that only sends word of a cleanup, if anything.
LEMMA RelayTrue ==
  ASSUME TruthInv, CallsInv, UNCHANGED <<runs, ext>>, pending' \subseteq pending, count'.calls = count.calls,
         NEW D, Adds(wire, wire', D, {}), \A m \in D : m.type \notin {"command", "activate"}
  PROVE  TruthInv'
<1>1. Later
  BY DEF Later, CallsInv, CallsCounted, Counts
<1>2. \A t \in Sessions : ExtTrue(ext[t], pending, count.calls, runs) /\ Less(ext[t], ext[t])
  BY DEF TruthInv, ExtTrue, Less
<1>3. DOMAIN ext' = Sessions /\ \A t \in Sessions : ExtTrue(ext'[t], pending', count'.calls, runs')
  BY <1>1, <1>2, ExtStays DEF TruthInv
<1>4. \A m \in {} : m.type = "result" /\ m.ok => Backed(m.cid, pending', count'.calls, runs')
  OBVIOUS
<1>5. QED
  BY <1>1, <1>3, <1>4, TruthStays

LEMMA HttpTrue ==
  ASSUME TruthInv, CallsInv, Http \/ (\E p \in pending : Timeout(p)) \/ (\E c \in retained : RelayForgets(c))
  PROVE  TruthInv'
<1>1. Wired(wire)
  BY DEF TruthInv
<1>2. \A D : Adds(wire, wire, D, {})
  BY <1>1, AddsNone
<1>3. ASSUME NEW q \in Questions, Activate(q) PROVE TruthInv'
  BY <1>3, DispatchTrue DEF Activate
<1>4. ASSUME NEW q \in Questions, NEW id, BrowserCommand(q, id) PROVE TruthInv'
  BY <1>4, DispatchTrue DEF BrowserCommand
<1>5. ASSUME NEW q \in Questions, NEW told \in BOOLEAN, CloseQuestion(q, told) PROVE TruthInv'
  <2>0. PICK m : m = Cleanup(q)
    OBVIOUS
  <2>1. m = Cleanup(q) /\ m.type = "cleanup"
    BY <2>0 DEF Cleanup
  <2>2. Source[q] \in Sessions
    BY ChatAssumption
  <2> DEFINE w == IF told THEN Deliver(Source[q], <<Cleanup(q)>>) ELSE wire
  <2>3. Adds(wire, w, {m}, {})
    BY <1>1, <1>2, <2>1, <2>2, SendAdds DEF Deliver
  <2>4. wire' = w \/ wire' = Send(w, Source[q], <<m>>)
    BY <1>5, <2>1 DEF CloseQuestion, RelayCleanup
  <2>5. pending' \subseteq pending /\ UNCHANGED <<ext, runs, count>>
    BY <1>5 DEF CloseQuestion, RelayCleanup
  <2> HIDE DEF w
  <2>6. Adds(w, Send(w, Source[q], <<m>>), {m}, {})
    BY <2>2, <2>3, SendAdds DEF Adds
  <2>7. Adds(wire, wire', {m}, {})
    BY <2>3, <2>4, <2>6, AddsBoth
  <2>8. QED
    BY <2>1, <2>5, <2>7, RelayTrue
<1>6. ASSUME NEW q \in Questions, MoveQuestion(q) PROVE TruthInv'
  <2>0. PICK m : m = Cleanup(q)
    OBVIOUS
  <2>1. m = Cleanup(q) /\ m.type = "cleanup"
    BY <2>0 DEF Cleanup
  <2>2. \/ UNCHANGED wire
        \/ active[q].owner \in Sessions /\ wire' = Send(wire, active[q].owner, <<m>>)
    BY <1>6, <2>1 DEF MoveQuestion, DisposeNonTerminal, Deliver
  <2>3. Adds(wire, wire', {m}, {})
    BY <1>1, <1>2, <2>2, SendAdds
  <2>4. count'.calls = count.calls /\ pending' \subseteq pending /\ UNCHANGED <<ext, runs>>
    BY <1>6 DEF MoveQuestion, CallsInv, CallsCounted, Counts
  <2>5. QED
    BY <2>1, <2>3, <2>4, RelayTrue
<1>7. ASSUME NEW q \in Questions, WithdrawQuestion(q) PROVE TruthInv'
  <2>1. UNCHANGED <<wire, pending, ext, runs, count>>
    BY <1>7 DEF WithdrawQuestion, relayState
  <2>2. Adds(wire, wire', {}, {})
    BY <1>2, <2>1
  <2>3. QED
    BY <2>1, <2>2, RelayTrue
<1>8. CASE (\E p \in pending : Timeout(p)) \/ \E c \in retained : RelayForgets(c)
  <2>1. UNCHANGED <<wire, ext, runs, count>> /\ pending' \subseteq pending
    BY <1>8 DEF Timeout, CommandTimeout, RelayForgets
  <2>2. Adds(wire, wire', {}, {})
    BY <1>2, <2>1
  <2>3. QED
    BY <2>1, <2>2, RelayTrue
<1>9. QED
  BY <1>3, <1>4, <1>5, <1>6, <1>7, <1>8 DEF Http

LEMMA RegisterAdds ==
  ASSUME TruthInv, NEW s \in Sessions, ServerRegister(s)
  PROVE  \E D : Adds(wire, wire', D, {}) /\ \A m \in D : m.type \notin {"command", "activate"}
<1> DEFINE owed == {q \in Questions : deferred[q] = s}
           n == Cardinality(owed)
           notices == [i \in 1..n |-> Cleanup(CHOOSE q \in owed : Cardinality({p \in owed : p <= q}) = i)]
           last == [type |-> "registered"]
           r == [wire[s] EXCEPT !.up = Tail(@), !.down = notices \o <<last>>]
           S == {notices[i] : i \in 1..n}
<1>1. n \in Nat
  BY ChatAssumption, FS_Subset, FS_CardinalityType
<1> HIDE DEF n
<1>2. /\ \A i \in 1..n : notices[i] \in S
      /\ notices = [i \in 1..n |-> notices[i]] /\ \A m \in S : m.type = "cleanup"
  <2>1. \A i \in 1..n : notices[i].type = "cleanup"
    BY DEF Cleanup
  <2>2. notices = [i \in 1..n |-> notices[i]]
    OBVIOUS
  <2> HIDE DEF notices
  <2>3. QED
    BY <2>1, <2>2
<1>3. wire' = [wire EXCEPT ![s] = r] /\ wire[s].up # <<>>
  BY DEF ServerRegister, Arrives, n
<1> HIDE DEF notices
<1>4. notices \in Seq(S) /\ Len(notices) = n
  BY <1>1, <1>2
<1>5. Carried(notices) = S /\ IsSeq(notices)
  BY <1>4 DEF Carried, IsSeq
<1>6. IsSeq(notices \o <<last>>) /\ Carried(notices \o <<last>>) = S \cup {last}
  BY <1>5, CarriedBy
<1>7. IsSeq(Tail(wire[s].up)) /\ Carried(Tail(wire[s].up)) \subseteq Carried(wire[s].up)
  BY <1>3, CarriedBy DEF TruthInv, Wired
<1>8. DOMAIN r = {"link", "down", "up"} /\ r.up = Tail(wire[s].up) /\ r.down = notices \o <<last>>
  BY DEF TruthInv, Wired
<1> DEFINE D == S \cup {last}
<1>9. \A m \in D : m.type \notin {"command", "activate"}
  BY <1>2
<1> HIDE DEF r, S
<1>10. /\ IsSeq(r.down) /\ IsSeq(r.up) /\ Carried(r.down) \subseteq Carried(wire[s].down) \cup D
       /\ Carried(r.up) \subseteq Carried(wire[s].up) \cup {}
  BY <1>6, <1>7, <1>8
<1> HIDE DEF D
<1>11. Adds(wire, [wire EXCEPT ![s] = r], D, {})
  BY <1>8, <1>10, AddsOne DEF TruthInv
<1>12. QED
  BY <1>3, <1>9, <1>11

LEMMA ServerTrue ==
  ASSUME TruthInv, CallsInv, NEW s \in Sessions, Server(s) \/ Unbind(s)
  PROVE  TruthInv'
<1>1. Wired(wire)
  BY DEF TruthInv
<1>2. UNCHANGED <<ext, runs, count>> /\ pending' \subseteq pending
  BY DEF Server, ServerRegister, ServerOffer, ServerComplete, ServerReconciled, ServerResult, Unbind, relayState
<1>3. \E D : Adds(wire, wire', D, {}) /\ \A m \in D : m.type \notin {"command", "activate"}
  <2>1. CASE ServerRegister(s)
    BY <2>1, RegisterAdds
  <2>2. ASSUME NEW D, wire' = Taken(s, wire), wire[s].up # <<>>
        PROVE  Adds(wire, wire', D, {})
    BY <1>1, <2>2, TakenAdds
  <2>3. ASSUME NEW m, wire' = Taken(s, Send(wire, s, <<m>>)), wire[s].up # <<>>
        PROVE  Adds(wire, wire', {m}, {})
    BY <1>1, <2>3, AnsweredAdds
  <2>4. CASE ServerOffer(s)
    <3> DEFINE m == [type |-> "reconcile", offer |-> Head(wire[s].up).offer,
                     recover |-> Head(wire[s].up).owner = s /\ ChatsWith(Head(wire[s].up).q, s)]
    <3>1. m.type = "reconcile" /\ (wire' = Taken(s, wire) \/ wire' = Taken(s, Send(wire, s, <<m>>)))
      BY <2>4 DEF ServerOffer, Deliver
    <3>2. wire[s].up # <<>>
      BY <2>4 DEF ServerOffer, Arrives
    <3> HIDE DEF m
    <3>3. Adds(wire, wire', {m}, {})
      BY <2>2, <2>3, <3>1, <3>2
    <3>4. \A x \in {m} : x.type \notin {"command", "activate"}
      BY <3>1
    <3>5. QED
      BY <3>3, <3>4
  <2>5. CASE ServerReconciled(s)
    <3> DEFINE m == Cleanup(Head(wire[s].up).offer.q)
    <3>1. m.type = "cleanup" /\ (wire' = Taken(s, wire) \/ wire' = Taken(s, Send(wire, s, <<m>>)))
      BY <2>5 DEF ServerReconciled, Adopt, RejectRecovery, Deliver, Cleanup
    <3>2. wire[s].up # <<>>
      BY <2>5 DEF ServerReconciled, Arrives
    <3> HIDE DEF m
    <3>3. Adds(wire, wire', {m}, {})
      BY <2>2, <2>3, <3>1, <3>2
    <3>4. \A x \in {m} : x.type \notin {"command", "activate"}
      BY <3>1
    <3>5. QED
      BY <3>3, <3>4
  <2>6. CASE ServerComplete(s) \/ ServerResult(s)
    <3>1. wire' = Taken(s, wire) /\ wire[s].up # <<>>
      BY <2>6 DEF ServerComplete, ServerResult, Arrives
    <3>2. Adds(wire, wire', {}, {})
      BY <2>2, <3>1
    <3>3. QED
      BY <3>2
  <2>7. CASE Unbind(s)
    BY <1>1, <2>7, AddsNone DEF Unbind
  <2>8. QED
    BY <2>1, <2>4, <2>5, <2>6, <2>7 DEF Server
<1>4. QED
  BY <1>2, <1>3, RelayTrue

\* A step of the client or its registry, with what it says.
LEMMA SessionTrue ==
  ASSUME TruthInv, CallsInv, UNCHANGED <<runs, pending, count>>, NEW U, Adds(wire, wire', {}, U),
         \A m \in U : m.type = "result" /\ m.ok => Backed(m.cid, pending, count.calls, runs),
         NEW s \in Sessions, NEW f, Less(ext[s], f), UNCHANGED ext \/ ext' = [ext EXCEPT ![s] = f]
  PROVE  TruthInv'
<1>1. pending' \subseteq pending /\ count'.calls = count.calls /\ UNCHANGED runs
  OBVIOUS
<1>2. \A m \in {} : m.type \notin {"command", "activate"}
  OBVIOUS
<1>3. UNCHANGED ext \/ \E x : Less(ext[s], x) /\ ext' = [ext EXCEPT ![s] = x]
  OBVIOUS
<1>4. QED
  BY <1>1, <1>2, <1>3, NothingTaken

LEMMA SilentTrue ==
  ASSUME TruthInv, CallsInv, UNCHANGED <<runs, pending, count>>, Adds(wire, wire', {}, {}),
         NEW s \in Sessions, NEW f, Less(ext[s], f), UNCHANGED ext \/ ext' = [ext EXCEPT ![s] = f]
  PROVE  TruthInv'
<1>1. \A m \in {} : m.type = "result" /\ m.ok => Backed(m.cid, pending, count.calls, runs)
  OBVIOUS
<1>2. QED
  BY <1>1, SessionTrue

LEMMA OfferTrue ==
  ASSUME TruthInv, CallsInv, NEW s \in Sessions, NEW e, NEW w, Less(ext[s], e), NextOffer(s, e, w),
         NEW U, Adds(wire, w, {}, U), \A m \in U : m.type # "result",
         UNCHANGED <<runs, pending, count>>
  PROVE  TruthInv'
<1> DEFINE q == CHOOSE p \in e.offers : \A x \in e.offers : p <= x
           offer == [conn |-> w[s].link, q |-> q]
           next == [type |-> "offer", offer |-> offer, q |-> q, owner |-> disk[q].owner]
           end == [type |-> "complete"]
           f == [e EXCEPT !.completeSent = TRUE]
           g == [e EXCEPT !.offered = offer, !.offers = @ \ {q}]
           V == U \cup {next, end}
<1>1. Less(ext[s], f) /\ Less(ext[s], g)
  BY DEF Less
<1>2. \/ ext' = [ext EXCEPT ![s] = e] /\ wire' = w
      \/ ext' = [ext EXCEPT ![s] = f] /\ wire' = Said(s, w, <<end>>)
      \/ ext' = [ext EXCEPT ![s] = g] /\ wire' = Said(s, w, <<next>>)
  BY DEF NextOffer
<1>3. \A m \in V : m.type # "result"
  OBVIOUS
<1> HIDE DEF f, g, next, end, q, offer
<1>4. Adds(wire, w, {}, V) /\ Wired(w)
  BY DEF Adds
<1>5. Adds(w, Said(s, w, <<end>>), {}, V) /\ Adds(w, Said(s, w, <<next>>), {}, V)
  <2>1. end \in V /\ next \in V
    OBVIOUS
  <2> HIDE DEF V
  <2>2. QED
    BY <1>4, <2>1, SaidAdds
<1> HIDE DEF V
<1>6. Adds(wire, wire', {}, V)
  BY <1>2, <1>4, <1>5, AddsBoth
<1>7. PICK x : Less(ext[s], x) /\ ext' = [ext EXCEPT ![s] = x]
  BY <1>1, <1>2
<1>8. \A m \in V : m.type = "result" /\ m.ok => Backed(m.cid, pending, count.calls, runs)
  BY <1>3
<1>9. QED
  BY <1>6, <1>7, <1>8, SessionTrue

LEMMA RegistryLess ==
  ASSUME NEW e, NEW f, NEW q, NEW s, NEW recover, Less(e, f)
  PROVE  Less(e, RegistryCleanup(f, q)) /\ Less(e, RegistryReconcile(s, f, q, recover))
<1>1. Less(e, RegistryCleanup(f, q))
  BY DEF Less, RegistryCleanup
<1>2. QED
  BY <1>1 DEF Less, RegistryReconcile

\* What the client takes up: an activation, or a command that runs or has run.
LEMMA ActivateTrue ==
  ASSUME TruthInv, CallsInv, NEW s \in Sessions, ActivateHere(s)
  PROVE  TruthInv'
<1>1. PICK m : m = Head(wire[s].down)
  OBVIOUS
<1> DEFINE no == Result(m.cid, FALSE)
           e == [ext[s] EXCEPT !.activations = @ \cup {m}]
           f == [e EXCEPT !.entry[m.q] = IF @ = "none" THEN "creating" ELSE @]
<1>2. m.type = "activate" /\ wire[s].down # <<>> /\ UNCHANGED <<runs, count, pending>>
  BY <1>1 DEF ActivateHere, Received, relayState
<1>3. m \in Carried(wire[s].down)
  BY <1>1, <1>2, CarriedBy DEF TruthInv, Wired
<1>4. Of(m, pending, count.calls)
  BY <1>2, <1>3 DEF TruthInv, DownTrue
<1>5. ExtTrue(ext[s], pending, count.calls, runs)
  BY DEF TruthInv
<1>6. ExtTrue(f, pending, count.calls, runs)
  BY <1>2, <1>4, <1>5 DEF ExtTrue
<1>7. /\ wire' = Read(s) \/ wire' = Said(s, Read(s), <<no>>)
      /\ UNCHANGED ext \/ ext' = [ext EXCEPT ![s] = f]
  <2>1. CASE m.q \in ext[s].dead
    BY <1>1, <2>1 DEF ActivateHere
  <2>2. CASE m.q \notin ext[s].dead /\ Refuses(s, m.q)
    BY <1>1, <2>2 DEF ActivateHere
  <2>3. CASE m.q \notin ext[s].dead /\ ~Refuses(s, m.q)
    BY <1>1, <2>3 DEF ActivateHere
  <2>4. QED
    BY <2>1, <2>2, <2>3
<1>8. no.ok = FALSE
  BY DEF Result
<1> HIDE DEF no, e, f
<1>9. Adds(wire, wire', {}, {no})
  <2>1. Adds(wire, Read(s), {}, {no}) /\ Adds(wire, Said(s, Read(s), <<no>>), {}, {no})
    BY <1>2, ReadAdds DEF TruthInv
  <2>2. QED
    BY <1>7, <2>1
<1>10. Later
  BY <1>2 DEF Later, CallsInv, CallsCounted, Counts
<1>11. DOMAIN ext' = Sessions /\ \A t \in Sessions : ExtTrue(ext'[t], pending', count'.calls, runs')
  <2>1. DOMAIN ext' = Sessions /\ \A t \in Sessions : ext'[t] \in {ext[t], IF t = s THEN f ELSE ext[t]}
    BY <1>7 DEF TruthInv
  <2>2. \A t \in Sessions : ExtTrue(ext'[t], pending, count.calls, runs)
    BY <1>6, <2>1 DEF TruthInv
  <2>3. QED
    BY <1>2, <2>1, <2>2
<1>12. \A x \in {no} : x.type = "result" /\ x.ok => Backed(x.cid, pending', count'.calls, runs')
  BY <1>8
<1>13. QED
  BY <1>9, <1>10, <1>11, <1>12, TruthStays

LEMMA ExecuteTrue ==
  ASSUME OnceInv, TruthInv, CallsInv, NEW s \in Sessions, Execute(s)
  PROVE  TruthInv'
<1>1. PICK m : m = Head(wire[s].down)
  OBVIOUS
<1> DEFINE no == Result(m.cid, FALSE)
           new == m.id # NoCommandId /\ ~Known(s, m)
           o == <<m.q, m.id, m.cid>>
           e == [ext[s] EXCEPT !.commands = @ \cup {m}]
           f == [e EXCEPT !.outcomes = @ \cup {o}]
<1>2. /\ m.type = "command" /\ wire[s].down # <<>> /\ UNCHANGED <<count, pending>>
      /\ \/ wire' = Said(s, Read(s), <<no>>) /\ UNCHANGED <<ext, runs>>
         \/ wire' = Read(s) /\ ~new /\ ext' = [ext EXCEPT ![s] = e] /\ UNCHANGED runs
         \/ wire' = Read(s) /\ new /\ ext' = [ext EXCEPT ![s] = f] /\ runs' = Record(m)
  BY <1>1 DEF Execute, Received, relayState
<1>3. m \in Carried(wire[s].down)
  BY <1>1, <1>2, CarriedBy DEF TruthInv, Wired
<1>4. Of(m, pending, count.calls)
  BY <1>2, <1>3 DEF TruthInv, DownTrue
<1>5. ExtTrue(ext[s], pending, count.calls, runs)
  BY DEF TruthInv
<1>6. Known(s, m) => Ran(m.q, m.id, runs)
  BY <1>5 DEF Known, Remembers, ExtTrue
<1>7. runs' = Record(m) /\ m.id # NoCommandId =>
        /\ Ran(m.q, m.id, runs') /\ \A q, id : Ran(q, id, runs) => Ran(q, id, runs')
  <2> SUFFICES ASSUME runs' = Record(m), m.id # NoCommandId
               PROVE  /\ Ran(m.q, m.id, runs') /\ \A q, id : Ran(q, id, runs) => Ran(q, id, runs')
    OBVIOUS
  <2> DEFINE c == <<m.q, m.id>>
             more == Append(runs[c], m.cid)
  <2>1. c \in Questions \X CommandIds /\ m.cid \in Nat
    <3>1. PICK i \in 1..Len(wire[s].down) : wire[s].down[i] = m
      BY <1>3 DEF Carried
    <3>2. i \in Nat /\ Has(wire[s].down, i, m)
      BY <1>2, <3>1 DEF Has
    <3>3. QED
      BY <3>2 DEF OnceInv, Numbered, Name
  <2>2. runs \in [Questions \X CommandIds -> Seq(Nat)] /\ runs' = [runs EXCEPT ![c] = more]
    BY DEF OnceInv, ChatShape, Record
  <2>3. more # <<>>
    <3>1. runs[c] \in Seq(Nat)
      BY <2>1, <2>2
    <3>2. Len(more) = Len(runs[c]) + 1 /\ Len(runs[c]) \in Nat /\ Len(<<>>) = 0
      BY <2>1, <3>1
    <3>3. QED
      BY <3>2
  <2> HIDE DEF c, more
  <2>4. DOMAIN runs' = DOMAIN runs /\ runs'[c] = more /\ c \in DOMAIN runs
        /\ \A x \in DOMAIN runs : x # c => runs'[x] = runs[x]
    BY <2>1, <2>2
  <2>5. \A x : x \in DOMAIN runs /\ runs[x] # <<>> => x \in DOMAIN runs' /\ runs'[x] # <<>>
    BY <2>3, <2>4
  <2>6. c \in DOMAIN runs' /\ runs'[c] # <<>>
    BY <2>3, <2>4
  <2>7. QED
    BY <2>5, <2>6 DEF Ran, c
<1>8. no.ok = FALSE /\ o[1] = m.q /\ o[2] = m.id
  BY DEF Result
<1> HIDE DEF no, o
<1>9. Adds(wire, wire', {}, {no})
  <2>1. Adds(wire, Read(s), {}, {no}) /\ Adds(wire, Said(s, Read(s), <<no>>), {}, {no})
    BY <1>2, ReadAdds DEF TruthInv
  <2>2. QED
    BY <1>2, <2>1
<1>10. Later
  <2>1. \A q, id : Ran(q, id, runs) => Ran(q, id, runs')
    BY <1>2, <1>7
  <2>2. count.calls \in Nat /\ count'.calls = count.calls /\ pending' = pending
    BY <1>2 DEF CallsInv, CallsCounted, Counts
  <2>3. QED
    BY <2>1, <2>2 DEF Later
<1>11. \A t \in Sessions : ExtTrue(ext[t], pending', count'.calls, runs')
  <2>1. \A t \in Sessions : ExtTrue(ext[t], pending, count.calls, runs) /\ Less(ext[t], ext[t])
    BY DEF TruthInv, ExtTrue, Less
  <2>2. QED
    BY <1>10, <2>1, ExtStays
<1>12. Of(m, pending', count'.calls)
  BY <1>2, <1>4
<1>13. CASE UNCHANGED ext
  <2>1. \A x \in {no} : x.type = "result" /\ x.ok => Backed(x.cid, pending', count'.calls, runs')
    BY <1>8
  <2>2. DOMAIN ext' = Sessions /\ \A t \in Sessions : ExtTrue(ext'[t], pending', count'.calls, runs')
    BY <1>11, <1>13 DEF TruthInv
  <2>3. QED
    BY <1>9, <1>10, <2>1, <2>2, TruthStays
<1>14. ASSUME NEW g, ext' = [ext EXCEPT ![s] = g], ExtTrue(g, pending', count'.calls, runs')
       PROVE  TruthInv'
  <2>1. DOMAIN ext' = Sessions /\ \A t \in Sessions : ext'[t] = IF t = s THEN g ELSE ext[t]
    BY <1>14 DEF TruthInv
  <2>2. \A t \in Sessions : ExtTrue(ext'[t], pending', count'.calls, runs')
    BY <1>11, <1>14, <2>1
  <2>3. \A x \in {no} : x.type = "result" /\ x.ok => Backed(x.cid, pending', count'.calls, runs')
    BY <1>8
  <2>4. QED
    BY <1>9, <1>10, <2>1, <2>2, <2>3, TruthStays
<1>15. ASSUME m.id # NoCommandId => Ran(m.q, m.id, runs') PROVE ExtTrue(e, pending', count'.calls, runs')
  BY <1>11, <1>12, <1>15 DEF ExtTrue, Done
<1>16. CASE ~new /\ ext' = [ext EXCEPT ![s] = e] /\ UNCHANGED runs
  <2>1. m.id # NoCommandId => Ran(m.q, m.id, runs')
    BY <1>6, <1>16
  <2> HIDE DEF e
  <2>2. QED
    BY <1>14, <1>15, <1>16, <2>1
<1>17. CASE new /\ ext' = [ext EXCEPT ![s] = f] /\ runs' = Record(m)
  <2>1. Ran(m.q, m.id, runs')
    BY <1>7, <1>17
  <2>2. ExtTrue(e, pending', count'.calls, runs')
    BY <1>15, <2>1
  <2> HIDE DEF e
  <2>3. ExtTrue(f, pending', count'.calls, runs')
    BY <1>8, <2>1, <2>2 DEF ExtTrue
  <2> HIDE DEF f
  <2>4. QED
    BY <1>14, <1>17, <2>3
<1> HIDE DEF new, e, f
<1>18. QED
  BY <1>2, <1>13, <1>16, <1>17

LEMMA ClientTrue ==
  ASSUME OnceInv, TruthInv, CallsInv, NEW s \in Sessions, Client(s)
  PROVE  TruthInv'
<1>1. Wired(wire) /\ ExtTrue(ext[s], pending, count.calls, runs)
  BY DEF TruthInv
<1>2. Less(ext[s], ext[s])
  BY <1>1 DEF Less, ExtTrue
<1>3. CASE Registered(s)
  <2> DEFINE e == [ext[s] EXCEPT !.offered = NoOffer, !.offers = Loadable, !.completeSent = FALSE]
  <2>1. Less(ext[s], e)
    BY <1>2 DEF Less
  <2>2. NextOffer(s, e, Read(s)) /\ wire[s].down # <<>> /\ UNCHANGED <<pending, runs, count>>
    BY <1>3 DEF Registered, Received, relayState
  <2> HIDE DEF e
  <2>3. Adds(wire, Read(s), {}, {})
    BY <1>1, <2>2, ReadAdds
  <2>4. QED
    BY <2>1, <2>2, <2>3, OfferTrue
<1>4. CASE Reconcile(s)
  <2> DEFINE m == Head(wire[s].down)
             e == [ext[s] EXCEPT !.offered = NoOffer, !.verdicts = @ \cup {[offer |-> m.offer, recover |-> m.recover]}]
             f == RegistryReconcile(s, e, m.offer.q, m.recover)
  <2>1. Less(ext[s], e)
    BY <1>2 DEF Less
  <2>2. /\ wire' = Read(s) /\ wire[s].down # <<>> /\ UNCHANGED <<pending, runs, count>>
        /\ UNCHANGED ext \/ ext' = [ext EXCEPT ![s] = f]
    BY <1>4 DEF Reconcile, Received, relayState
  <2> HIDE DEF e, m
  <2>3. Less(ext[s], f)
    BY <2>1, RegistryLess
  <2> HIDE DEF f
  <2>4. Adds(wire, wire', {}, {})
    BY <1>1, <2>2, ReadAdds
  <2>5. QED
    BY <2>2, <2>3, <2>4, SilentTrue
<1>5. CASE ClientCleanup(s)
  <2> DEFINE q == Head(wire[s].down).q
             f == RegistryCleanup(MarkTerminal(ext[s], q), q)
  <2>1. Less(ext[s], MarkTerminal(ext[s], q))
    BY <1>2 DEF Less, MarkTerminal
  <2>2. /\ wire' = Read(s) /\ wire[s].down # <<>> /\ UNCHANGED <<pending, runs, count>>
        /\ ext' = [ext EXCEPT ![s] = f]
    BY <1>5 DEF ClientCleanup, Received, relayState
  <2> HIDE DEF q
  <2>3. Less(ext[s], f)
    BY <2>1, RegistryLess
  <2> HIDE DEF f
  <2>4. Adds(wire, wire', {}, {})
    BY <1>1, <2>2, ReadAdds
  <2>5. QED
    BY <2>2, <2>3, <2>4, SilentTrue
<1>6. ASSUME NEW v \in ext[s].verdicts, NEW status, Conclude(s, v, status) PROVE TruthInv'
  <2> DEFINE e == [ext[s] EXCEPT !.verdicts = @ \ {v},
                     !.live = IF status = "recovered" /\ ~Stale(s, v.offer.q) THEN @ \cup {v.offer.q} ELSE @]
             m == [type |-> "reconciled", offer |-> v.offer, status |-> status]
             w == Said(s, wire, <<m>>)
  <2>1. Less(ext[s], e)
    BY <1>2 DEF Less
  <2>2. NextOffer(s, e, w) /\ UNCHANGED <<pending, runs, count>>
    BY <1>6 DEF Conclude, relayState
  <2>3. m.type # "result"
    OBVIOUS
  <2> HIDE DEF e, m
  <2>4. Adds(wire, w, {}, {m})
    BY <1>1, SaidAdds
  <2> HIDE DEF w
  <2>5. \A x \in {m} : x.type # "result"
    BY <2>3
  <2>6. QED
    BY <2>1, <2>2, <2>4, <2>5, OfferTrue
<1>7. ASSUME NEW m \in ext[s].activations, FinishActivation(s, m) PROVE TruthInv'
  <2> DEFINE e == [ext[s] EXCEPT !.activations = @ \ {m}]
             f == [e EXCEPT !.live = @ \cup {m.q}]
             r == Result(m.cid, ext[s].entry[m.q] = "ready")
  <2>1. Less(ext[s], e) /\ Less(ext[s], f)
    BY <1>2 DEF Less
  <2>2. /\ ext' = [ext EXCEPT ![s] = e] \/ ext' = [ext EXCEPT ![s] = f]
        /\ wire' = wire \/ wire' = Said(s, wire, <<r>>)
        /\ UNCHANGED <<pending, runs, count>>
    BY <1>7 DEF FinishActivation, relayState
  <2>3. r.cid = m.cid
    BY DEF Result
  <2>4. m.type = "activate" /\ Of(m, pending, count.calls)
    BY <1>1 DEF ExtTrue
  <2> HIDE DEF e, f, r
  <2>5. \A x \in {r} : x.type = "result" /\ x.ok => Backed(x.cid, pending, count.calls, runs)
    BY <2>3, <2>4 DEF Of, Backed
  <2>6. Adds(wire, wire', {}, {r})
    BY <1>1, <2>2, SaidAdds, AddsNone
  <2>7. PICK x : Less(ext[s], x) /\ ext' = [ext EXCEPT ![s] = x]
    BY <2>1, <2>2
  <2> DEFINE U == {r}
  <2>8. Adds(wire, wire', {}, U) /\ UNCHANGED <<runs, pending, count>>
    BY <2>2, <2>6
  <2>9. \A y \in U : y.type = "result" /\ y.ok => Backed(y.cid, pending, count.calls, runs)
    BY <2>5
  <2> HIDE DEF U
  <2>10. QED
    BY <2>7, <2>8, <2>9, SessionTrue
<1>8. ASSUME NEW m \in ext[s].commands, FinishCommand(s, m) PROVE TruthInv'
  <2> DEFINE e == [ext[s] EXCEPT !.commands = @ \ {m}]
             r == Result(m.cid, TRUE)
  <2>1. Less(ext[s], e)
    BY <1>2 DEF Less
  <2>2. /\ ext' = [ext EXCEPT ![s] = e] /\ UNCHANGED <<pending, runs, count>>
        /\ wire' = wire \/ wire' = Said(s, wire, <<r>>)
    BY <1>8 DEF FinishCommand, relayState
  <2>3. r.cid = m.cid
    BY DEF Result
  <2>4. Done(m, pending, count.calls, runs)
    BY <1>1 DEF ExtTrue
  <2> HIDE DEF e, r
  <2>5. \A x \in {r} : x.type = "result" /\ x.ok => Backed(x.cid, pending, count.calls, runs)
    BY <2>3, <2>4 DEF Done, Of, Backed
  <2>6. Adds(wire, wire', {}, {r})
    BY <1>1, <2>2, SaidAdds, AddsNone
  <2>7. PICK x : Less(ext[s], x) /\ ext' = [ext EXCEPT ![s] = x]
    BY <2>1, <2>2
  <2> DEFINE U == {r}
  <2>8. Adds(wire, wire', {}, U) /\ UNCHANGED <<runs, pending, count>>
    BY <2>2, <2>6
  <2>9. \A y \in U : y.type = "result" /\ y.ok => Backed(y.cid, pending, count.calls, runs)
    BY <2>5
  <2> HIDE DEF U
  <2>10. QED
    BY <2>7, <2>8, <2>9, SessionTrue
<1>9. QED
  BY <1>3, <1>4, <1>5, <1>6, <1>7, <1>8, ActivateTrue, ExecuteTrue DEF Client

LEMMA RegistryTrue ==
  ASSUME TruthInv, CallsInv, NEW s \in Sessions, Registry(s)
  PROVE  TruthInv'
<1>1. Wired(wire) /\ {"commands", "activations", "outcomes"} \subseteq DOMAIN ext[s]
  BY DEF TruthInv, ExtTrue
<1>2. UNCHANGED <<wire, pending, runs, count>>
  BY DEF Registry, CreationEnds, RecoveryEnds, EndingEnds, TombstoneExpires, OutcomeForgotten, relayState
<1>3. Adds(wire, wire', {}, {})
  BY <1>1, <1>2, AddsNone
<1>4. ASSUME NEW q, NEW ok, CreationEnds(s, q, ok) \/ RecoveryEnds(s, q, ok) PROVE TruthInv'
  <2>1. \A x : Less(ext[s], [ext[s] EXCEPT !.entry[q] = x])
    BY <1>1 DEF Less
  <2>2. PICK x : ext' = [ext EXCEPT ![s] = [ext[s] EXCEPT !.entry[q] = x]]
    BY <1>4 DEF CreationEnds, RecoveryEnds
  <2>3. QED
    BY <1>2, <1>3, <2>1, <2>2, SilentTrue
<1>5. ASSUME NEW z, NEW ok, EndingEnds(s, z, ok) PROVE TruthInv'
  <2> DEFINE e == [ext[s] EXCEPT !.ending = @ \ {z}]
  <2>1. Less(ext[s], e) /\ ext' = [ext EXCEPT ![s] = e]
    BY <1>1, <1>5 DEF Less, EndingEnds
  <2> HIDE DEF e
  <2>2. QED
    BY <1>2, <1>3, <2>1, SilentTrue
<1>6. ASSUME NEW q, TombstoneExpires(s, q) PROVE TruthInv'
  <2> DEFINE e == [ext[s] EXCEPT !.tomb = @ \ {q}, !.outcomes = {c \in @ : c[1] # q}]
  <2>1. Less(ext[s], e)
    BY <1>1 DEF Less
  <2>2. ext' = [ext EXCEPT ![s] = e]
    BY <1>6 DEF TombstoneExpires
  <2> HIDE DEF e
  <2>3. QED
    BY <1>2, <1>3, <2>1, <2>2, SilentTrue
<1>7. ASSUME NEW c, OutcomeForgotten(s, c) PROVE TruthInv'
  <2> DEFINE e == [ext[s] EXCEPT !.outcomes = @ \ {c}]
  <2>1. Less(ext[s], e) /\ ext' = [ext EXCEPT ![s] = e]
    BY <1>1, <1>7 DEF Less, OutcomeForgotten
  <2> HIDE DEF e
  <2>2. QED
    BY <1>2, <1>3, <2>1, SilentTrue
<1>8. QED
  BY <1>4, <1>5, <1>6, <1>7 DEF Registry

LEMMA FaultTrue ==
  ASSUME TruthInv, CallsInv, NEW s \in Sessions, Connect(s) \/ LinkLost(s) \/ \E how : Restart(s, how)
  PROVE  TruthInv'
<1> DEFINE r == [link |-> count.conns + 1, down |-> <<>>, up |-> <<[type |-> "register"]>>]
           hello == [type |-> "register"]
           e == NewExt
           f == SuspendAll(s)
<1>1. /\ wire' = [wire EXCEPT ![s] = r] \/ wire' = [wire EXCEPT ![s] = NoWire]
      /\ UNCHANGED <<runs, pending>>
      /\ UNCHANGED ext \/ ext' = [ext EXCEPT ![s] = e] \/ ext' = [ext EXCEPT ![s] = f]
  <2>1. CASE Connect(s)
    <3>1. count'.conns = count.conns + 1
      BY <2>1 DEF Connect, CallsInv, CallsCounted, Counts
    <3>2. QED
      BY <2>1, <3>1 DEF Connect, relayState
  <2>2. CASE LinkLost(s)
    BY <2>2 DEF LinkLost, relayState
  <2>3. ASSUME NEW how, Restart(s, how)
        PROVE  /\ wire' = [wire EXCEPT ![s] = NoWire] /\ UNCHANGED <<runs, pending>>
               /\ ext' = [ext EXCEPT ![s] = e] \/ ext' = [ext EXCEPT ![s] = f]
    BY <2>3 DEF Restart, relayState
  <2>4. QED
    BY <2>1, <2>2, <2>3
<1>2. count'.calls = count.calls
  BY DEF Connect, LinkLost, Restart, CallsInv, CallsCounted, Counts
<1>3. IsSeq(<<>>) /\ Carried(<<>>) = {} /\ IsSeq(<<hello>>) /\ Carried(<<hello>>) = {hello}
  <2>1. IsSeq(<<>>)
    BY DEF IsSeq
  <2>2. QED
    BY <2>1, CarriedBy
<1>4. /\ DOMAIN r = {"link", "down", "up"} /\ r.down = <<>> /\ r.up = <<hello>>
      /\ DOMAIN NoWire = {"link", "down", "up"} /\ NoWire.down = <<>> /\ NoWire.up = <<>>
  BY DEF NoWire
<1>5. Less(ext[s], e) /\ Less(ext[s], f)
  BY DEF Less, NewExt, SuspendAll
<1>6. hello.type # "result"
  OBVIOUS
<1> HIDE DEF e, f, r, hello
<1>7. Adds(wire, wire', {}, {hello})
  <2>1. Adds(wire, [wire EXCEPT ![s] = r], {}, {hello})
    <3>1. /\ IsSeq(r.down) /\ IsSeq(r.up) /\ Carried(r.down) \subseteq Carried(wire[s].down) \cup {}
          /\ Carried(r.up) \subseteq Carried(wire[s].up) \cup {hello}
      BY <1>3, <1>4
    <3>2. QED
      BY <1>4, <3>1, AddsOne DEF TruthInv
  <2>2. Adds(wire, [wire EXCEPT ![s] = NoWire], {}, {hello})
    <3>1. /\ IsSeq(NoWire.down) /\ IsSeq(NoWire.up) /\ Carried(NoWire.down) \subseteq Carried(wire[s].down) \cup {}
          /\ Carried(NoWire.up) \subseteq Carried(wire[s].up) \cup {hello}
      BY <1>3, <1>4
    <3>2. QED
      BY <1>4, <3>1, AddsOne DEF TruthInv
  <2>3. QED
    BY <1>1, <2>1, <2>2
<1>8. \A x \in {hello} : x.type = "result" /\ x.ok => Backed(x.cid, pending, count.calls, runs)
  BY <1>6
<1>9. UNCHANGED ext \/ \E x : Less(ext[s], x) /\ ext' = [ext EXCEPT ![s] = x]
  BY <1>1, <1>5
<1>10. \A m \in {} : m.type \notin {"command", "activate"}
  OBVIOUS
<1>11. pending' \subseteq pending /\ UNCHANGED runs
  BY <1>1
<1>12. QED
  BY <1>2, <1>7, <1>8, <1>9, <1>10, <1>11, NothingTaken

LEMMA TruthStep ==
  ASSUME OnceInv, TruthInv, CallsInv, [Next]_vars
  PROVE  TruthInv'
<1>1. CASE Http \/ (\E p \in pending : Timeout(p)) \/ (\E c \in retained : RelayForgets(c))
  BY <1>1, HttpTrue
<1>2. CASE ServerRestart
  <2>1. /\ wire' = [s \in Sessions |-> NoWire] /\ pending' = {} /\ UNCHANGED <<ext, runs>>
        /\ count'.calls = count.calls
    BY <1>2 DEF ServerRestart, CallsInv, CallsCounted, Counts
  <2>2. DOMAIN NoWire = {"link", "down", "up"} /\ NoWire.down = <<>> /\ NoWire.up = <<>>
    BY DEF NoWire
  <2>3. IsSeq(<<>>) /\ Carried(<<>>) = {}
    BY DEF IsSeq, Carried
  <2>4. Adds(wire, wire', {}, {})
    BY <2>1, <2>2, <2>3 DEF Adds, Wired
  <2>5. QED
    BY <2>1, <2>4, RelayTrue
<1>3. ASSUME NEW s \in Sessions, Server(s) \/ Unbind(s) PROVE TruthInv'
  BY <1>3, ServerTrue
<1>4. ASSUME NEW s \in Sessions, Client(s) PROVE TruthInv'
  BY <1>4, ClientTrue
<1>5. ASSUME NEW s \in Sessions, Registry(s) PROVE TruthInv'
  BY <1>5, RegistryTrue
<1>6. ASSUME NEW s \in Sessions, Fault(s) PROVE TruthInv'
  BY <1>3, <1>6, FaultTrue DEF Fault
<1>7. CASE UNCHANGED vars
  <2>1. UNCHANGED <<wire, pending, ext, runs, count>>
    BY <1>7 DEF vars, relayState
  <2>2. Adds(wire, wire', {}, {})
    BY <2>1, AddsNone DEF TruthInv
  <2>3. QED
    BY <2>1, <2>2, RelayTrue
<1>8. QED
  BY <1>1, <1>2, <1>3, <1>4, <1>5, <1>6, <1>7 DEF Next

\* A result counts only while the Question is pending, and an accepted send or
\* stop has been executed, for this call or an earlier one with its id.
THEOREM SuccessesAreTrue == Spec => SuccessIsTrue
<1> DEFINE Inv == OnceInv /\ CallsInv /\ TruthInv
           A == \A p \in pending : p.cid \in ready' \ ready =>
                  /\ row[p.q] = "pending"
                  /\ p.type = "command" /\ p.id # NoCommandId => runs[<<p.q, p.id>>] # <<>>
<1>1. Init => Inv
  BY OnceStarts, CallsStart, TruthStarts
<1>2. Inv /\ [Next]_vars => Inv'
  BY OnceStep, CallsStep, TruthStep
<1>3. Inv /\ [Next]_vars => [A]_vars
  <2> SUFFICES ASSUME Inv, [Next]_vars, NEW p \in pending, p.cid \in ready' \ ready
               PROVE  /\ row[p.q] = "pending"
                      /\ p.type = "command" /\ p.id # NoCommandId => runs[<<p.q, p.id>>] # <<>>
    OBVIOUS
  <2>1. PICK s \in Sessions : ServerResult(s)
    BY OnlyResults
  <2> DEFINE m == Head(wire[s].up)
  <2>2. PICK g \in Awaited(s, m) : m.ok /\ Accepted(g) /\ g.cid = p.cid
    BY <2>1 DEF ServerResult
  <2>3. g = p /\ p.cid = m.cid
    BY <2>2 DEF Awaited, CallsInv, CallsDiffer
  <2>4. m \in Carried(wire[s].up) /\ m.type = "result"
    BY <2>1, CarriedBy DEF ServerResult, Arrives, TruthInv, Wired
  <2>5. Backed(m.cid, pending, count.calls, runs)
    BY <2>2, <2>4 DEF TruthInv, UpTrue
  <2>6. QED
    BY <2>2, <2>3, <2>5 DEF Accepted, Backed, Ran
<1>4. QED
  BY <1>1, <1>2, <1>3, PTL DEF Spec, SuccessIsTrue

-----------------------------------------------------------------------------
(* Cleaned up.  A chat.cleanup may come while an activation or a recovery is  *)
(* waiting; what they do afterwards goes by the client's own list.            *)

Down(e) == {"live", "dead"} \subseteq DOMAIN e /\ e.live \cap e.dead = {}
DownInv == DOMAIN ext = Sessions /\ \A s \in Sessions : Down(ext[s])

LEMMA DownStarts == Init => DownInv
BY DEF Init, DownInv, Down, NewExt

\* A step that changes one session's chats at most.
LEMMA DownStays ==
  ASSUME DownInv, NEW s \in Sessions,
         UNCHANGED ext \/ \E e : Down(e) /\ ext' = [ext EXCEPT ![s] = e]
  PROVE  DownInv'
<1>1. CASE UNCHANGED ext
  BY <1>1 DEF DownInv
<1>2. ASSUME NEW e, Down(e), ext' = [ext EXCEPT ![s] = e] PROVE DownInv'
  <2>1. DOMAIN ext' = Sessions /\ \A t \in Sessions : ext'[t] = IF t = s THEN e ELSE ext[t]
    BY <1>2 DEF DownInv
  <2>2. QED
    BY <1>2, <2>1 DEF DownInv
<1>3. QED
  BY <1>1, <1>2

LEMMA OfferDown ==
  ASSUME DownInv, NEW s \in Sessions, NEW e, NEW w, Down(e), NextOffer(s, e, w)
  PROVE  DownInv'
<1> DEFINE q == CHOOSE p \in e.offers : \A r \in e.offers : p <= r
           offer == [conn |-> w[s].link, q |-> q]
           f == [e EXCEPT !.completeSent = TRUE]
           g == [e EXCEPT !.offered = offer, !.offers = @ \ {q}]
<1>1. Down(f) /\ Down(g)
  BY DEF Down
<1>2. \/ ext' = [ext EXCEPT ![s] = e]
      \/ ext' = [ext EXCEPT ![s] = f]
      \/ ext' = [ext EXCEPT ![s] = g]
  BY DEF NextOffer
<1> HIDE DEF f, g
<1>3. QED
  BY <1>1, <1>2, DownStays

LEMMA ClientDown ==
  ASSUME DownInv, NEW s \in Sessions, Client(s)
  PROVE  DownInv'
<1>1. Down(ext[s])
  BY DEF DownInv
<1> DEFINE m == Head(wire[s].down)
<1>2. CASE Registered(s)
  <2> DEFINE e == [ext[s] EXCEPT !.offered = NoOffer, !.offers = Loadable, !.completeSent = FALSE]
  <2>1. Down(e)
    BY <1>1 DEF Down
  <2>2. NextOffer(s, e, Read(s))
    BY <1>2 DEF Registered
  <2> HIDE DEF e
  <2>3. QED
    BY <2>1, <2>2, OfferDown
<1>3. \A e, q, recover : Down(e) => Down(RegistryCleanup(e, q)) /\ Down(RegistryReconcile(s, e, q, recover))
  BY DEF Down, RegistryCleanup, RegistryReconcile
<1>4. CASE Reconcile(s)
  <2> DEFINE e == [ext[s] EXCEPT !.offered = NoOffer, !.verdicts = @ \cup {[offer |-> m.offer, recover |-> m.recover]}]
  <2>1. Down(e)
    BY <1>1 DEF Down
  <2>2. UNCHANGED ext \/ ext' = [ext EXCEPT ![s] = RegistryReconcile(s, e, m.offer.q, m.recover)]
    BY <1>4 DEF Reconcile
  <2> HIDE DEF e
  <2>3. QED
    BY <1>3, <2>1, <2>2, DownStays
<1>5. CASE ClientCleanup(s)
  <2> DEFINE e == MarkTerminal(ext[s], m.q)
  <2>1. Down(e)
    BY <1>1 DEF Down, MarkTerminal
  <2>2. ext' = [ext EXCEPT ![s] = RegistryCleanup(e, m.q)]
    BY <1>5 DEF ClientCleanup
  <2> HIDE DEF e
  <2>3. QED
    BY <1>3, <2>1, <2>2, DownStays
<1>6. CASE ActivateHere(s)
  <2> DEFINE f == [[ext[s] EXCEPT !.activations = @ \cup {m}] EXCEPT
                     !.entry[m.q] = IF @ = "none" THEN "creating" ELSE @]
  <2>1. Down(f)
    BY <1>1 DEF Down
  <2>2. UNCHANGED ext \/ ext' = [ext EXCEPT ![s] = f]
    <3>1. CASE m.q \in ext[s].dead
      BY <1>6, <3>1 DEF ActivateHere
    <3>2. CASE m.q \notin ext[s].dead /\ Refuses(s, m.q)
      BY <1>6, <3>2 DEF ActivateHere
    <3>3. CASE m.q \notin ext[s].dead /\ ~Refuses(s, m.q)
      BY <1>6, <3>3 DEF ActivateHere
    <3>4. QED
      BY <3>1, <3>2, <3>3
  <2> HIDE DEF f
  <2>3. QED
    BY <2>1, <2>2, DownStays
<1>7. CASE Execute(s)
  <2> DEFINE e == [ext[s] EXCEPT !.commands = @ \cup {m}]
             f == [e EXCEPT !.outcomes = @ \cup {<<m.q, m.id, m.cid>>}]
  <2>1. Down(e) /\ Down(f)
    BY <1>1 DEF Down
  <2>2. UNCHANGED ext \/ ext' = [ext EXCEPT ![s] = e] \/ ext' = [ext EXCEPT ![s] = f]
    BY <1>7 DEF Execute
  <2> HIDE DEF e, f
  <2>3. QED
    BY <2>1, <2>2, DownStays
<1>8. ASSUME NEW v \in ext[s].verdicts, NEW status, Conclude(s, v, status) PROVE DownInv'
  <2> DEFINE q == v.offer.q
             e == [ext[s] EXCEPT !.verdicts = @ \ {v},
                                 !.live = IF status = "recovered" /\ ~Stale(s, q) THEN @ \cup {q} ELSE @]
             w == Said(s, wire, <<[type |-> "reconciled", offer |-> v.offer, status |-> status]>>)
  <2>1. Down(e)
    BY <1>1 DEF Down, Stale
  <2>2. NextOffer(s, e, w)
    BY <1>8 DEF Conclude
  <2> HIDE DEF e, w
  <2>3. QED
    BY <2>1, <2>2, OfferDown
<1>9. ASSUME NEW a \in ext[s].activations, FinishActivation(s, a) PROVE DownInv'
  <2> DEFINE e == [ext[s] EXCEPT !.activations = @ \ {a}]
             f == [e EXCEPT !.live = @ \cup {a.q}]
  <2>1. Down(e) /\ (~Stale(s, a.q) => Down(f))
    BY <1>1 DEF Down, Stale
  <2>2. ext' = [ext EXCEPT ![s] = e] \/ (~Stale(s, a.q) /\ ext' = [ext EXCEPT ![s] = f])
    BY <1>9 DEF FinishActivation
  <2> HIDE DEF e, f
  <2>3. QED
    BY <2>1, <2>2, DownStays
<1>10. ASSUME NEW c \in ext[s].commands, FinishCommand(s, c) PROVE DownInv'
  <2> DEFINE e == [ext[s] EXCEPT !.commands = @ \ {c}]
  <2>1. Down(e) /\ ext' = [ext EXCEPT ![s] = e]
    BY <1>1, <1>10 DEF FinishCommand, Down
  <2> HIDE DEF e
  <2>2. QED
    BY <2>1, DownStays
<1>11. QED
  BY <1>2, <1>4, <1>5, <1>6, <1>7, <1>8, <1>9, <1>10 DEF Client

LEMMA RegistryDown ==
  ASSUME DownInv, NEW s \in Sessions, Registry(s) \/ \E how : Restart(s, how)
  PROVE  DownInv'
<1>1. Down(ext[s])
  BY DEF DownInv
<1>2. ASSUME NEW q \in Questions, NEW ok, CreationEnds(s, q, ok) \/ RecoveryEnds(s, q, ok) PROVE DownInv'
  <2>1. \A x : Down([ext[s] EXCEPT !.entry[q] = x])
    BY <1>1 DEF Down
  <2>2. \E x : ext' = [ext EXCEPT ![s] = [ext[s] EXCEPT !.entry[q] = x]]
    BY <1>2 DEF CreationEnds, RecoveryEnds
  <2>3. QED
    BY <2>1, <2>2, DownStays
<1>3. ASSUME NEW z \in ext[s].ending, NEW ok, EndingEnds(s, z, ok) PROVE DownInv'
  <2>1. Down([ext[s] EXCEPT !.ending = @ \ {z}])
    BY <1>1 DEF Down
  <2>2. ext' = [ext EXCEPT ![s] = [ext[s] EXCEPT !.ending = @ \ {z}]]
    BY <1>3 DEF EndingEnds
  <2>3. QED
    BY <2>1, <2>2, DownStays
<1>4. ASSUME NEW q \in Questions, TombstoneExpires(s, q) PROVE DownInv'
  <2> DEFINE left == {c \in ext[s].outcomes : c[1] # q}
             e == [ext[s] EXCEPT !.tomb = @ \ {q}, !.outcomes = left]
  <2>1. Down(e)
    BY <1>1 DEF Down
  <2>2. ext' = [ext EXCEPT ![s] = e]
    BY <1>4 DEF TombstoneExpires
  <2> HIDE DEF e
  <2>3. QED
    BY <2>1, <2>2, DownStays
<1>7. ASSUME NEW c \in ext[s].outcomes, OutcomeForgotten(s, c) PROVE DownInv'
  <2> DEFINE e == [ext[s] EXCEPT !.outcomes = @ \ {c}]
  <2>1. Down(e) /\ ext' = [ext EXCEPT ![s] = e]
    BY <1>1, <1>7 DEF Down, OutcomeForgotten
  <2> HIDE DEF e
  <2>2. QED
    BY <2>1, DownStays
<1>5. ASSUME NEW how, Restart(s, how) PROVE DownInv'
  <2>1. Down(SuspendAll(s)) /\ Down(NewExt)
    BY DEF Down, SuspendAll, NewExt
  <2>2. ext' = [ext EXCEPT ![s] = SuspendAll(s)] \/ ext' = [ext EXCEPT ![s] = NewExt]
    BY <1>5 DEF Restart
  <2>3. QED
    BY <2>1, <2>2, DownStays
<1>6. QED
  BY <1>2, <1>3, <1>4, <1>5, <1>7 DEF Registry

\* A chat that was cleaned up is never taken for a running one again by the
\* activation or recovery that was under way at that moment.
THEOREM CleanupIsFinal == Spec => []CleanedUpStaysDown
<1>1. DownInv /\ [Next]_vars => DownInv'
  <2> SUFFICES ASSUME DownInv, [Next]_vars PROVE DownInv'
    OBVIOUS
  <2>1. CASE Http \/ (\E p \in pending : Timeout(p)) \/ (\E c \in retained : RelayForgets(c)) \/ ServerRestart \/ UNCHANGED vars
    <3>1. UNCHANGED ext
      BY <2>1 DEF Http, Activate, BrowserCommand, CloseQuestion, MoveQuestion, WithdrawQuestion, Timeout, RelayForgets, ServerRestart, vars
    <3>2. QED
      BY <3>1 DEF DownInv
  <2>2. ASSUME NEW s \in Sessions, Server(s) \/ Connect(s) \/ LinkLost(s) \/ Unbind(s) PROVE DownInv'
    <3>1. UNCHANGED ext
      BY <2>2 DEF Server, ServerRegister, ServerOffer, ServerComplete, ServerReconciled, ServerResult,
                  Connect, LinkLost, Unbind
    <3>2. QED
      BY <3>1 DEF DownInv
  <2>3. ASSUME NEW s \in Sessions, Client(s) PROVE DownInv'
    BY <2>3, ClientDown
  <2>4. ASSUME NEW s \in Sessions, Registry(s) \/ \E how : Restart(s, how) PROVE DownInv'
    BY <2>4, RegistryDown
  <2>5. QED
    BY <2>1, <2>2, <2>3, <2>4 DEF Next, Fault
<1>2. DownInv => CleanedUpStaysDown
  BY DEF DownInv, Down, CleanedUpStaysDown
<1>3. QED
  BY <1>1, <1>2, DownStarts, PTL DEF Spec

================================================================================
