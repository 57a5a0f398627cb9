--------------------------- MODULE SctpLinkProofs ---------------------------
(***************************************************************************)
(* The safety of the SCTP link for any number of messages and any limit on *)
(* retransmissions, whatever the network loses, delays or repeats, and     *)
(* that it implements the channel the simulations rely on.                 *)
(*                                                                         *)
(* LinkInv says of each side which part of its stream the application has, *)
(* which waits in `inbound' and which the association still holds, and of  *)
(* the two sides together that nothing is received that was not written.   *)
(***************************************************************************)
EXTENDS SctpLink, WellFoundedInduction, SequenceTheorems, TLAPS

-----------------------------------------------------------------------------
(* The values the variables take.                                          *)

AppState == [pc : {"idle", "sending", "dropped"}, connected : BOOLEAN,
             got : Seq(Nat), owed : Int]

LinkEvent == [type : {"Connected", "Message", "Lost"}, n : Nat]

Datagram == [to : Side, n : Nat,
             type : {"INIT", "INIT_ACK", "COOKIE_ECHO", "COOKIE_ACK", "DATA", "SACK"}]

AssocState == {"none", "listen", "cookie_wait", "cookie_echoed", "established", "closed"}

Assoc == [state : AssocState, drained : BOOLEAN, stream : BOOLEAN,
          events : Seq({"Connected", "Readable", "Lost"}),
          tx : SUBSET Datagram, retries : Nat, written : Nat, acked : Nat,
          cum : Nat, buf : SUBSET Nat, read : Nat]

LinkTypeOK ==
    /\ app \in [Side -> AppState]
    /\ out \in [Side -> BOOLEAN]
    /\ reply \in [Side -> {"none", "ok", "error", "not_ready"}]
    /\ inbound \in [Side -> Seq(LinkEvent)]
    /\ drv \in [Side -> {"accept", "pump", "select", "exited"}]
    /\ ready \in [Side -> BOOLEAN]
    /\ assoc \in [Side -> Assoc]
    /\ net \in SUBSET Datagram

-----------------------------------------------------------------------------
(* The invariant of one side.  The arguments are the values of its         *)
(* variables: application, channel, queue, driver, stream_ready and        *)
(* association.                                                            *)

\* Until the association is established nothing has been asked of it.
HandshakeOK(s, ap, o, rd, a) ==
    /\ rd <=> a.state = "established"
    /\ a.drained => a.state = "closed"
    /\ a.state # "established" =>
          /\ ~a.stream
          /\ a.cum = 0 /\ a.written = 0
          /\ ~ap.connected
          /\ ~o
    /\ s = "server" =>
          /\ a.state \notin {"cookie_wait", "cookie_echoed", "closed"}
          /\ ap.owed > 0 => a.read > 0
          /\ o \/ a.written > 0 => a.read > 0
    /\ s = "client" => a.state \notin {"none", "listen"}

\* Only a pump is between a write and its transmission.
DriverOK(s, d, a) ==
    /\ d = "accept" => a.state = "none"
    /\ d # "pump" => a.tx = {}
    /\ a.events = <<>>
    /\ \A p \in a.tx : p.to = Peer(s) /\ (p.type = "DATA" => p.n \in 1 .. a.written)

\* The link has not ended, as far as the application can know.
Alive(ap, d, a) == ap.pc # "dropped" /\ d # "exited" /\ a.state # "closed"

\* The queue holds Connected if c is 1, then m messages that continue the
\* l the application has, then Losts.
Split(q, l, c, m) ==
    /\ c + m <= Len(q)
    /\ \A i \in 1 .. Len(q) :
          q[i] = IF i <= c THEN Connected
                 ELSE IF i <= c + m THEN Message(l + i - c)
                 ELSE Lost

\* What was read off the stream is with the application or in the queue,
\* until the link ends; its end is announced by a Lost.
Placed(ap, q, d, a, c, m) ==
    /\ Split(q, Len(ap.got), c, m)
    /\ c > 0 \/ m > 0 => a.state = "established"
    /\ Len(ap.got) + m <= a.read
    /\ Alive(ap, d, a) => c + m = Len(q) /\ Len(ap.got) + m = a.read
    /\ ~Alive(ap, d, a) /\ ap.pc # "dropped" => c + m < Len(q)

QueueOK(ap, q, d, a) ==
    /\ a.read <= a.cum
    /\ ap.pc = "dropped" => q = <<>>
    /\ \E c \in 0 .. 1, m \in Nat : Placed(ap, q, d, a, c, m)

SideOK(s, ap, o, q, d, rd, a) ==
    /\ HandshakeOK(s, ap, o, rd, a)
    /\ DriverOK(s, d, a)
    /\ QueueOK(ap, q, d, a)

Sides ==
    \A s \in Side :
        SideOK(s, app[s], out[s], inbound[s], drv[s], ready[s], assoc[s])

\* Nothing is received, buffered or in flight that the peer did not write.
NothingInvented ==
    /\ \A s \in Side :
          /\ assoc[s].cum <= assoc[Peer(s)].written
          /\ assoc[s].buf \subseteq 1 .. assoc[Peer(s)].written
    /\ \A p \in net : p.type = "DATA" => p.n \in 1 .. assoc[Peer(p.to)].written

\* The inductive invariant.
LinkInv == LinkTypeOK /\ Sides /\ NothingInvented /\ ReadyOnceConnected

-----------------------------------------------------------------------------
(* Lemmas about the operators.                                             *)

\* The two sides are each other's peer.
LEMMA Peers ==
    ASSUME NEW s \in Side
    PROVE  Peer(s) \in Side /\ Peer(s) # s /\ Peer(Peer(s)) = s
BY DEF Peer, Side

\* A bounded set of numbers has its maximum (Cumulative takes one).
LEMMA MaxIsMember ==
    ASSUME NEW N \in Nat, NEW S, S \subseteq 0 .. N, S # {}
    PROVE  Max(S) \in S /\ \A y \in S : y <= Max(S)
<1> DEFINE T == {N - x : x \in S}
           R == OpToRel(<, Nat)
<1>1. T \subseteq Nat /\ T # {}
  <2>1. \A x \in S : x \in 0 .. N
    OBVIOUS
  <2>2. \A x \in S : N - x \in Nat
    BY <2>1
  <2>3. PICK x : x \in S
    OBVIOUS
  <2>4. N - x \in T
    BY <2>3
  <2> QED
    BY <2>2, <2>4
<1>2. PICK m \in T : \A y \in T : ~(<<y, m>> \in R)
  <2> HIDE DEF T
  <2> QED
    BY <1>1, NatLessThanWellFounded, WFMin
<1>3. \A y \in T : m <= y
  <2> TAKE y \in T
  <2>1. m \in Nat /\ y \in Nat
    BY <1>1
  <2>2. y < m => <<y, m>> \in R
    BY <2>1, Zenon DEF OpToRel
  <2>3. ~(<<y, m>> \in R)
    BY <1>2
  <2> HIDE DEF R
  <2> QED
    BY <2>1, <2>2, <2>3
<1>4. PICK x \in S : m = N - x
  BY <1>2
<1>5. \A y \in S : x >= y
  BY <1>3, <1>4
<1> QED
  BY <1>5 DEF Max

\* What the cumulative acknowledgement moves to was received.
LEMMA CumulativeIsReceived ==
    ASSUME NEW a, NEW n, NEW W \in Nat,
           a.cum \in 0 .. W, a.buf \subseteq 1 .. W, n \in 1 .. W
    PROVE  Cumulative(a, n) \in a.cum .. W
<1> DEFINE have == a.buf \cup {n}
           S == {a.cum} \cup {k \in have : k > a.cum /\ a.cum + 1 .. k \subseteq have}
<1>1. S \subseteq 0 .. W /\ a.cum \in S
  OBVIOUS
<1>2. Max(S) \in S
  <2> HIDE DEF S
  <2> QED
    BY <1>1, MaxIsMember
<1>3. \A x \in S : x \in a.cum .. W
  OBVIOUS
<1>4. Cumulative(a, n) = Max(S)
  BY DEF Cumulative
<1> QED
  BY <1>2, <1>3, <1>4

\* A poll without events changes nothing.
LEMMA PollNone ==
    ASSUME NEW s, NEW a, a.events = <<>>
    PROVE  Poll(s, a) = [events |-> <<>>, ready |-> ready[s], read |-> a.read]
<1> DEFINE base == [events |-> <<>>, ready |-> ready[s], read |-> a.read]
           D == DOMAIN a.events
           F(g) == [S \in SUBSET D |->
                      IF S = {} THEN base
                      ELSE PollEvent(g[S \ {Max(S)}], a.events[Max(S)], a)]
           it == CHOOSE g : g = F(g)
<1>1. D = {}
  OBVIOUS
<1>2. \E g : g = F(g)
  <2> DEFINE g == [S \in SUBSET D |-> base]
  <2>1. g = F(g)
    BY <1>1
  <2> QED
    BY <2>1
<1>3. it = F(it)
  BY <1>2
<1>4. F(it)[D] = base
  <2> HIDE DEF it
  <2> QED
    BY <1>1
<1>5. Poll(s, a) = it[D]
  BY DEF Poll, FoldLeft, MapThenFoldSet
<1>6. it[D] = base
  BY <1>3, <1>4
<1> QED
  BY <1>5, <1>6

\* A poll of one event handles that event.
LEMMA PollOne ==
    ASSUME NEW s, NEW a, NEW e, a.events = <<e>>
    PROVE  Poll(s, a) =
              PollEvent([events |-> <<>>, ready |-> ready[s], read |-> a.read], e, a)
<1> DEFINE base == [events |-> <<>>, ready |-> ready[s], read |-> a.read]
           D == DOMAIN a.events
           F(g) == [S \in SUBSET D |->
                      IF S = {} THEN base
                      ELSE PollEvent(g[S \ {Max(S)}], a.events[Max(S)], a)]
           it == CHOOSE g : g = F(g)
           r == PollEvent(base, e, a)
<1>1. D = {1} /\ a.events[1] = e
  OBVIOUS
<1>2. Max({1}) = 1
  BY DEF Max
<1>3. \A S \in SUBSET D : S = {} \/ S = {1}
  BY <1>1
<1>4. {} # {1} /\ {1} \ {1} = {} /\ {} \in SUBSET D /\ {1} \in SUBSET D
  BY <1>1
<1> HIDE DEF base
<1>5. \E g : g = F(g)
  <2> DEFINE g == [S \in SUBSET D |-> IF S = {} THEN base ELSE r]
  <2>1. g[{}] = base
    BY <1>4
  <2>2. \A S \in SUBSET D :
            (IF S = {} THEN base ELSE r)
              = IF S = {} THEN base
                ELSE PollEvent(g[S \ {Max(S)}], a.events[Max(S)], a)
    <3> HIDE DEF g
    <3> QED
      BY <1>1, <1>2, <1>3, <1>4, <2>1
  <2>3. g = F(g)
    BY <2>2
  <2> QED
    BY <2>3
<1>6. it = F(it)
  BY <1>5
<1>7. it[{}] = base
  <2>1. F(it)[{}] = base
    <3> HIDE DEF it
    <3> QED
      BY <1>4
  <2> QED
    BY <1>6, <2>1
<1>8. it[{1}] = r
  <2>1. F(it)[{1}] = PollEvent(it[{}], e, a)
    <3> HIDE DEF it
    <3> QED
      BY <1>1, <1>2, <1>4
  <2> QED
    BY <1>6, <1>7, <2>1
<1>9. Poll(s, a) = it[D]
  BY DEF Poll, FoldLeft, MapThenFoldSet, base
<1> QED
  BY <1>1, <1>8, <1>9 DEF base

-----------------------------------------------------------------------------
(* The queue, as it is filled by pump and emptied by recv.                 *)

\* The events are distinct, and of the type of the queue.
LEMMA EventTypes ==
    /\ Connected \in LinkEvent /\ Lost \in LinkEvent
    /\ Connected # Lost
    /\ Connected.type = "Connected" /\ Lost.type = "Lost"
    /\ \A n \in Nat : /\ Message(n) \in LinkEvent
                      /\ Message(n).type = "Message" /\ Message(n).n = n
                      /\ Message(n) # Lost /\ Message(n) # Connected
BY DEF LinkEvent, Connected, Lost, Message

\* Connected is the first event of a queue.
LEMMA SplitConnected ==
    ASSUME NEW q \in Seq(LinkEvent), NEW l, q = <<>>
    PROVE  /\ q \o <<Connected>> \in Seq(LinkEvent)
           /\ Len(q \o <<Connected>>) = 1
           /\ Split(q \o <<Connected>>, l, 1, 0)
BY EventTypes DEF Split

\* A function on 1 .. k is a sequence of length k.
LEMMA FunctionIsSeq ==
    ASSUME NEW T, NEW k \in Nat, NEW f \in [1 .. k -> T]
    PROVE  f \in Seq(T) /\ Len(f) = k
OBVIOUS

\* f is the k messages after message r.
Messages(f, r, k) ==
    f \in [1 .. k -> LinkEvent] /\ \A i \in 1 .. k : f[i] = Message(r + i)

\* u is q followed by f.
Joined(u, q, f) == u = q \o f

\* The next messages follow the ones in the queue.
LEMMA SplitMessages ==
    ASSUME NEW q \in Seq(LinkEvent), NEW l \in Nat, NEW c \in 0 .. 1, NEW m \in Nat,
           NEW k \in Nat, NEW r \in Nat, r = l + m, NEW n \in Nat, n = m + k,
           NEW f, Messages(f, r, k), NEW u, Joined(u, q, f),
           Split(q, l, c, m), c + m = Len(q)
    PROVE  u \in Seq(LinkEvent) /\ Len(u) = c + n /\ Split(u, l, c, n)
<1>1. f \in Seq(LinkEvent) /\ Len(f) = k
  BY FunctionIsSeq DEF Messages
<1>2. u \in Seq(LinkEvent) /\ Len(u) = c + (m + k)
  <2>1. Len(u) = Len(q) + k /\ u \in Seq(LinkEvent)
    BY <1>1, ConcatProperties DEF Joined
  <2> QED
    BY <2>1
<1>3. ASSUME NEW i \in 1 .. Len(u)
      PROVE  u[i] = IF i <= c THEN Connected
                    ELSE IF i <= c + (m + k) THEN Message(l + i - c) ELSE Lost
  <2>1. CASE i <= Len(q)
    <3>1. u[i] = q[i]
      BY <1>1, <2>1 DEF Joined
    <3> QED
      BY <2>1, <3>1 DEF Split
  <2>2. CASE i > Len(q)
    <3> DEFINE j == i - Len(q)
    <3>1. j \in 1 .. k
      BY <1>2, <2>2
    <3>2. u[i] = f[j]
      BY <1>1, <1>2, <2>2 DEF Joined
    <3>3. f[j] = Message(r + j)
      BY <3>1 DEF Messages
    <3>4. Len(q) \in Nat /\ i \in Nat
      OBVIOUS
    <3>5. r + j = l + i - c
      <4>1. \A x, y \in Nat : x = c + m => l + m + (y - x) = l + y - c
        OBVIOUS
      <4> QED
        BY <3>4, <4>1
    <3>6. i <= c + (m + k) /\ ~(i <= c)
      BY <1>2, <2>2
    <3> QED
      BY <3>2, <3>3, <3>5, <3>6
  <2> QED
    BY <2>1, <2>2
<1>4. Split(u, l, c, n)
  BY <1>2, <1>3 DEF Split
<1> QED
  BY <1>2, <1>4

\* A Lost goes behind everything.
LEMMA SplitLost ==
    ASSUME NEW q \in Seq(LinkEvent), NEW l \in Nat, NEW c \in 0 .. 1, NEW m \in Nat,
           Split(q, l, c, m)
    PROVE  /\ Append(q, Lost) \in Seq(LinkEvent)
           /\ Len(Append(q, Lost)) = Len(q) + 1
           /\ q \o <<Lost>> = Append(q, Lost)
           /\ Split(Append(q, Lost), l, c, m)
BY EventTypes DEF Split

\* recv takes Connected off the queue.
LEMMA SplitTailConnected ==
    ASSUME NEW q \in Seq(LinkEvent), NEW l \in Nat, NEW c \in 0 .. 1, NEW m \in Nat,
           Split(q, l, c, m), q # <<>>, Head(q).type = "Connected"
    PROVE  /\ Tail(q) \in Seq(LinkEvent)
           /\ Len(Tail(q)) = Len(q) - 1
           /\ c = 1
           /\ Split(Tail(q), l, 0, m)
<1>1. Len(q) \in Nat /\ Len(q) > 0 /\ Head(q) = q[1]
  OBVIOUS
<1>2. c = 1
  <2>1. CASE c = 0 /\ m > 0
    <3>1. q[1] = Message(l + 1)
      BY <1>1, <2>1 DEF Split
    <3> QED
      BY <1>1, <3>1, EventTypes
  <2>2. CASE c = 0 /\ m = 0
    <3>1. q[1] = Lost
      BY <1>1, <2>2 DEF Split
    <3> QED
      BY <1>1, <3>1, EventTypes
  <2> QED
    BY <2>1, <2>2
<1>3. Tail(q) \in Seq(LinkEvent) /\ Len(Tail(q)) = Len(q) - 1
  BY <1>1
<1>4. \A i \in 1 .. Len(q) - 1 : Tail(q)[i] = q[i + 1]
  BY <1>1
<1>5. ASSUME NEW i \in 1 .. Len(Tail(q))
      PROVE  Tail(q)[i] = IF i <= 0 THEN Connected
                          ELSE IF i <= 0 + m THEN Message(l + i - 0) ELSE Lost
  <2>1. i + 1 \in 1 .. Len(q) /\ Tail(q)[i] = q[i + 1]
    BY <1>1, <1>3, <1>4
  <2>2. q[i + 1] = IF i + 1 <= c THEN Connected
                   ELSE IF i + 1 <= c + m THEN Message(l + (i + 1) - c) ELSE Lost
    BY <2>1 DEF Split
  <2>3. l + (i + 1) - c = l + i - 0
    BY <1>2
  <2> QED
    BY <1>2, <2>1, <2>2, <2>3
<1>6. 0 + m <= Len(Tail(q))
  BY <1>1, <1>2, <1>3 DEF Split
<1> QED
  BY <1>2, <1>3, <1>5, <1>6 DEF Split

\* recv takes a message off the queue: it is the one the application misses.
LEMMA SplitTailMessage ==
    ASSUME NEW q \in Seq(LinkEvent), NEW l \in Nat, NEW c \in 0 .. 1, NEW m \in Nat,
           Split(q, l, c, m), q # <<>>, Head(q).type = "Message"
    PROVE  /\ Tail(q) \in Seq(LinkEvent)
           /\ Len(Tail(q)) = Len(q) - 1
           /\ c = 0 /\ m > 0
           /\ Head(q).n = l + 1
           /\ Split(Tail(q), l + 1, 0, m - 1)
<1>1. Len(q) \in Nat /\ Len(q) > 0 /\ Head(q) = q[1]
  OBVIOUS
<1>2. c = 0 /\ m > 0
  <2>1. CASE c = 1
    <3>1. q[1] = Connected
      BY <1>1, <2>1 DEF Split
    <3> QED
      BY <1>1, <3>1, EventTypes
  <2>2. CASE c = 0 /\ m = 0
    <3>1. q[1] = Lost
      BY <1>1, <2>2 DEF Split
    <3> QED
      BY <1>1, <3>1, EventTypes
  <2> QED
    BY <2>1, <2>2
<1>3. Tail(q) \in Seq(LinkEvent) /\ Len(Tail(q)) = Len(q) - 1
  BY <1>1
<1>4. \A i \in 1 .. Len(q) - 1 : Tail(q)[i] = q[i + 1]
  BY <1>1
<1>5. Head(q) = Message(l + 1)
  BY <1>1, <1>2 DEF Split
<1>6. Head(q).n = l + 1
  BY <1>5, EventTypes
<1>7. ASSUME NEW i \in 1 .. Len(Tail(q))
      PROVE  Tail(q)[i] = IF i <= 0 THEN Connected
                          ELSE IF i <= 0 + (m - 1) THEN Message((l + 1) + i - 0)
                          ELSE Lost
  <2>1. i + 1 \in 1 .. Len(q) /\ Tail(q)[i] = q[i + 1]
    BY <1>1, <1>3, <1>4
  <2>2. q[i + 1] = IF i + 1 <= c THEN Connected
                   ELSE IF i + 1 <= c + m THEN Message(l + (i + 1) - c) ELSE Lost
    BY <2>1 DEF Split
  <2>3. l + (i + 1) - c = (l + 1) + i - 0
    BY <1>2
  <2> QED
    BY <1>2, <2>1, <2>2, <2>3
<1>8. 0 + (m - 1) <= Len(Tail(q))
  BY <1>1, <1>2, <1>3 DEF Split
<1> QED
  BY <1>2, <1>3, <1>6, <1>7, <1>8 DEF Split

\* Nothing follows the end of a link, and an end has been announced.
LEMMA SplitEnds ==
    ASSUME NEW q \in Seq(LinkEvent), NEW l \in Nat, NEW c \in 0 .. 1, NEW m \in Nat,
           Split(q, l, c, m)
    PROVE  /\ c + m < Len(q) => Lost \in ToSet(q)
           /\ \A i \in 1 .. Len(q) - 1 : q[i] = Lost => q[i + 1] = Lost
<1>1. c + m < Len(q) => Lost \in ToSet(q)
  <2> HAVE c + m < Len(q)
  <2>1. Len(q) \in 1 .. Len(q) /\ ~(Len(q) <= c) /\ ~(Len(q) <= c + m)
    OBVIOUS
  <2>2. q[Len(q)] = Lost
    BY <2>1 DEF Split
  <2> QED
    BY <2>1, <2>2 DEF ToSet
<1>2. ASSUME NEW i \in 1 .. Len(q) - 1, q[i] = Lost
      PROVE  q[i + 1] = Lost
  <2>1. i \in 1 .. Len(q) /\ i + 1 \in 1 .. Len(q)
    OBVIOUS
  <2>2. i > c
    <3> SUFFICES ASSUME i <= c PROVE FALSE
      OBVIOUS
    <3>1. q[i] = Connected
      BY <2>1 DEF Split
    <3> QED
      BY <1>2, <3>1, EventTypes
  <2>3. i > c + m
    <3> SUFFICES ASSUME i <= c + m PROVE FALSE
      OBVIOUS
    <3>1. q[i] = Message(l + i - c)
      BY <2>1, <2>2 DEF Split
    <3>2. l + i - c \in Nat
      BY <2>2
    <3> QED
      BY <1>2, <3>1, <3>2, EventTypes
  <2> QED
    BY <2>1, <2>3 DEF Split
<1> QED
  BY <1>1, <1>2

-----------------------------------------------------------------------------
(* pump.                                                                   *)

\* What handling a datagram or a timeout leaves for pump: association b has
\* become a, with at most one event.
Stimulated(s, b, a) ==
    /\ a \in Assoc
    /\ a.written = b.written /\ a.read = b.read /\ a.read <= a.cum
    /\ a.drained => a.state = "closed"
    /\ a.state # "established" => ~a.stream /\ a.cum = 0
    /\ s = "server" => a.state \notin {"cookie_wait", "cookie_echoed", "closed"}
    /\ s = "client" => a.state \notin {"none", "listen"}
    /\ \A p \in a.tx : p.to = Peer(s) /\ (p.type = "DATA" => p.n \in 1 .. a.written)
    /\ \/ /\ a.events = <<>>
          /\ a.state = "established" <=> b.state = "established"
          /\ a.state = "closed" <=> b.state = "closed"
       \/ /\ a.events = <<"Connected">>
          /\ a.state = "established" /\ b.state \notin {"established", "closed"}
          /\ a.cum = 0 /\ ~a.stream
       \/ /\ a.events = <<"Readable">>
          /\ a.state = "established" /\ b.state = "established"
       \/ /\ a.events = <<"Lost">>
          /\ a.state = "closed" /\ b.state \notin {"established", "closed"}

\* What poll makes of the event, st_ready being rd before.
Polled(a, rd, st) ==
    /\ a.events = <<>> => st.events = <<>> /\ st.ready = rd /\ st.read = a.read
    /\ a.events = <<"Connected">> =>
          /\ st.events = <<Connected>> /\ st.read = a.read
          /\ st.ready \in BOOLEAN /\ (~a.stream => st.ready)
    /\ a.events = <<"Lost">> =>
          st.events = <<Lost>> /\ st.ready = rd /\ st.read = a.read
    /\ a.events = <<"Readable">> =>
          /\ st.ready = rd /\ st.read = a.cum
          /\ Messages(st.events, a.read, a.cum - a.read)

\* open_stream succeeds unless the peer's data has made the stream.
LEMMA PollConnected ==
    ASSUME NEW rd, NEW rr, NEW a, NEW base,
           base = [events |-> <<>>, ready |-> rd, read |-> rr]
    PROVE  \E st :
              /\ PollEvent(base, "Connected", a) = st
              /\ st.events = <<Connected>> /\ st.read = rr
              /\ st.ready \in BOOLEAN /\ (~a.stream => st.ready)
<1>1. PICK opened \in BOOLEAN : opened = (rd \/ ~a.stream)
  OBVIOUS
<1>2. PICK st : st = [base EXCEPT !.events = Append(@, Connected), !.ready = opened]
  OBVIOUS
<1>3. PollEvent(base, "Connected", a) = st
  BY <1>1, <1>2 DEF PollEvent
<1>4. st.events = <<Connected>> /\ st.read = rr /\ st.ready = opened
  BY <1>2
<1> QED
  BY <1>1, <1>3, <1>4

\* Poll gives that.
LEMMA PollResult ==
    ASSUME NEW s, NEW a \in Assoc, a.read <= a.cum
    PROVE  Polled(a, ready[s], Poll(s, a))
<1> DEFINE base == [events |-> <<>>, ready |-> ready[s], read |-> a.read]
           st == Poll(s, a)
<1>1. ASSUME a.events = <<>>
      PROVE  st.events = <<>> /\ st.ready = ready[s] /\ st.read = a.read
  BY <1>1, PollNone
<1>2. ASSUME a.events = <<"Connected">>
      PROVE  /\ st.events = <<Connected>> /\ st.read = a.read
             /\ st.ready \in BOOLEAN /\ (~a.stream => st.ready)
  <2>1. PICK x : x = base
    OBVIOUS
  <2>2. st = PollEvent(x, "Connected", a)
    BY <1>2, <2>1, PollOne
  <2>3. PICK y : /\ PollEvent(x, "Connected", a) = y
                 /\ y.events = <<Connected>> /\ y.read = a.read
                 /\ y.ready \in BOOLEAN /\ (~a.stream => y.ready)
    BY <2>1, PollConnected
  <2>4. st = y
    BY <2>2, <2>3
  <2> HIDE DEF st
  <2> QED
    BY <2>3, <2>4
<1>3. ASSUME a.events = <<"Lost">>
      PROVE  st.events = <<Lost>> /\ st.ready = ready[s] /\ st.read = a.read
  <2>1. st = PollEvent(base, "Lost", a)
    BY <1>3, PollOne
  <2>2. PollEvent(base, "Lost", a) = [base EXCEPT !.events = Append(@, Lost)]
    BY DEF PollEvent
  <2> QED
    BY <2>1, <2>2
<1>4. ASSUME a.events = <<"Readable">>
      PROVE  /\ st.ready = ready[s] /\ st.read = a.cum
             /\ Messages(st.events, a.read, a.cum - a.read)
  <2> DEFINE k == a.cum - a.read
             f == [i \in 1 .. k |-> Message(a.read + i)]
  <2>1. st = PollEvent(base, "Readable", a)
    BY <1>4, PollOne
  <2>2. PollEvent(base, "Readable", a) = ReadStream(base, a)
    BY DEF PollEvent
  <2>3. k \in Nat /\ a.read \in Nat
    BY DEF Assoc
  <2>4. \A i \in 1 .. k : Message(a.read + i) \in LinkEvent
    <3>1. \A i \in 1 .. k : a.read + i \in Nat
      BY <2>3
    <3> QED
      BY <3>1, EventTypes
  <2>5. f \in [1 .. k -> LinkEvent]
    BY <2>4
  <2>6. f \in Seq(LinkEvent)
    <3> HIDE DEF f, k
    <3> QED
      BY <2>3, <2>5, FunctionIsSeq
  <2>7. <<>> \o f = f
    <3> HIDE DEF f
    <3> QED
      BY <2>6, ConcatEmptySeq
  <2>8. ReadStream(base, a) = [base EXCEPT !.events = <<>> \o f, !.read = a.cum]
    BY DEF ReadStream
  <2>9. st.ready = ready[s] /\ st.read = a.cum /\ st.events = f
    <3> HIDE DEF f
    <3> QED
      BY <2>1, <2>2, <2>7, <2>8
  <2> QED
    BY <2>5, <2>9 DEF Messages
<1> QED
  BY <1>1, <1>2, <1>3, <1>4 DEF Polled

\* What pump makes of an association: events and packets are taken.
Emptied(a, st, a2) ==
    /\ a2 \in Assoc
    /\ a2.events = <<>> /\ a2.tx = {} /\ a2.read = st.read
    /\ a2.state = a.state /\ a2.drained = a.drained
    /\ a2.cum = a.cum /\ a2.buf = a.buf /\ a2.written = a.written
    /\ a2.stream <=> a.stream \/ st.ready

\* No events.
LEMMA EmptyEvents == <<>> \in Seq({"Connected", "Readable", "Lost"})
OBVIOUS

\* The assignments of Pump amount to that.
LEMMA PumpAssoc ==
    ASSUME NEW a \in Assoc, NEW st, st.read \in Nat, NEW a2,
           a2 = [a EXCEPT !.events = <<>>, !.tx = {}, !.read = st.read,
                          !.stream = @ \/ st.ready]
    PROVE  Emptied(a, st, a2)
<1>1. PICK x \in BOOLEAN : x = (a.stream \/ st.ready)
  OBVIOUS
<1>2. PICK e \in Seq({"Connected", "Readable", "Lost"}) : e = <<>>
  BY EmptyEvents, Zenon
<1>3. a2 = [a EXCEPT !.events = e, !.tx = {}, !.read = st.read, !.stream = x]
  BY <1>1, <1>2
<1> SUFFICES ASSUME NEW b, b = [a EXCEPT !.events = e, !.tx = {}, !.read = st.read,
                                         !.stream = x],
                    b = a2
             PROVE  Emptied(a, st, b)
  BY <1>3
<1>4. b \in Assoc
  BY DEF Assoc
<1>5. /\ b.events = e /\ b.tx = {} /\ b.read = st.read
      /\ b.state = a.state /\ b.drained = a.drained
      /\ b.cum = a.cum /\ b.buf = a.buf /\ b.written = a.written
  BY DEF Assoc
<1>6. b.stream = x
  BY DEF Assoc
<1> QED
  BY <1>1, <1>2, <1>4, <1>5, <1>6 DEF Emptied

\* The queue after pump; without an application there is none.
Handed(ap, q, ev) == IF ap.pc = "dropped" THEN q ELSE q \o ev

\* pump keeps the side in order: what it takes from the association goes to
\* the application's queue, in order and once.
LEMMA PumpSide ==
    ASSUME NEW s \in Side, NEW ap \in AppState, NEW o \in BOOLEAN,
           NEW q \in Seq(LinkEvent), NEW d \in {"pump", "select"}, NEW rd \in BOOLEAN,
           NEW b \in Assoc, SideOK(s, ap, o, q, d, rd, b),
           NEW a, Stimulated(s, b, a),
           NEW st, Polled(a, rd, st),
           NEW a2, Emptied(a, st, a2),
           NEW d2 \in {"select", "exited"}, d2 = "exited" => a.drained
    PROVE  /\ Handed(ap, q, st.events) \in Seq(LinkEvent)
           /\ SideOK(s, ap, o, Handed(ap, q, st.events), d2, st.ready, a2)
<1> DEFINE q2 == Handed(ap, q, st.events)
<1>1. a \in Assoc /\ a.read \in Nat /\ a.cum \in Nat /\ a.read <= a.cum
      /\ b.read \in Nat /\ a.read = b.read /\ a.state \in AssocState
  BY DEF Stimulated, Assoc
<1>2. \/ a.events = <<>> \/ a.events = <<"Connected">>
      \/ a.events = <<"Readable">> \/ a.events = <<"Lost">>
  BY DEF Stimulated
<1>3. /\ st.read \in Nat /\ st.ready \in BOOLEAN
      /\ a.read <= st.read /\ st.read <= a.cum
  <2>1. st.ready \in BOOLEAN
    BY <1>2 DEF Polled
  <2>2. st.read = a.read \/ st.read = a.cum
    BY <1>2 DEF Polled
  <2> QED
    BY <1>1, <2>1, <2>2
<1>4. /\ a2 \in Assoc
      /\ a2.events = <<>> /\ a2.tx = {} /\ a2.read = st.read
      /\ a2.state = a.state /\ a2.drained = a.drained
      /\ a2.cum = a.cum /\ a2.buf = a.buf /\ a2.written = a.written
      /\ a2.stream <=> a.stream \/ st.ready
  BY DEF Emptied
<1>5. HandshakeOK(s, ap, o, st.ready, a2)
  <2>1. st.ready <=> a.state = "established"
    BY <1>2 DEF SideOK, HandshakeOK, Stimulated, Polled
  <2>2. a.written = b.written
    BY DEF Stimulated
  <2>3. a.state # "established" => b.state # "established"
    BY DEF Stimulated
  <2>4. a.drained => a.state = "closed"
    BY DEF Stimulated
  <2>5. a.state # "established" => ~a.stream /\ a.cum = 0
    BY DEF Stimulated
  <2>6. /\ s = "server" => a.state \notin {"cookie_wait", "cookie_echoed", "closed"}
        /\ s = "client" => a.state \notin {"none", "listen"}
    BY DEF Stimulated
  <2>7. b.read > 0 => st.read > 0
    BY <1>1, <1>3
  <2> QED
    BY <1>4, <2>1, <2>2, <2>3, <2>4, <2>5, <2>6, <2>7 DEF SideOK, HandshakeOK
<1>6. DriverOK(s, d2, a2)
  BY <1>4 DEF DriverOK
<1>7. q2 \in Seq(LinkEvent) /\ QueueOK(ap, q2, d2, a2)
  <2>1. q2 = IF ap.pc = "dropped" THEN q ELSE q \o st.events
    BY DEF Handed
  <2> HIDE DEF q2
  <2>2. PICK l \in Nat : l = Len(ap.got)
    BY DEF AppState
  <2>3. l \in Nat /\ ap.pc \in {"idle", "sending", "dropped"}
    BY DEF AppState
  <2>4. PICK c \in 0 .. 1, m \in Nat :
          /\ Split(q, l, c, m)
          /\ c > 0 \/ m > 0 => b.state = "established"
          /\ l + m <= b.read
          /\ Alive(ap, d, b) => c + m = Len(q) /\ l + m = b.read
          /\ ~Alive(ap, d, b) /\ ap.pc # "dropped" => c + m < Len(q)
    BY <2>2 DEF SideOK, QueueOK, Placed
  <2>5. Len(q) \in Nat
    OBVIOUS
  <2>6. d2 = "exited" => a.state = "closed"
    BY DEF Stimulated
  <2>7. Alive(ap, d2, a2) <=> ap.pc # "dropped" /\ a.state # "closed"
    BY <1>4, <2>6 DEF Alive
  <2>8. Alive(ap, d, b) <=> ap.pc # "dropped" /\ b.state # "closed"
    BY DEF Alive
  <2>9. b.state = "established" => a.state = "established"
    BY DEF Stimulated
  <2>10. CASE ap.pc = "dropped"
    <3>1. q2 = q /\ q = <<>>
      BY <2>1, <2>10 DEF SideOK, QueueOK
    <3>2. c > 0 \/ m > 0 => a2.state = "established"
      BY <1>4, <2>4, <2>9
    <3>3. l + m <= a2.read
      BY <1>1, <1>3, <1>4, <2>3, <2>4
    <3>4. Placed(ap, q2, d2, a2, c, m)
      BY <2>4, <2>7, <2>10, <2>2, <3>1, <3>2, <3>3 DEF Placed
    <3> QED
      BY <1>1, <1>3, <1>4, <3>1, <3>4 DEF QueueOK
  <2>11. CASE ap.pc # "dropped" /\ a.events = <<>>
    <3>1. st.events = <<>> /\ st.read = a.read
      BY <2>11 DEF Polled
    <3>2. q2 = q
      BY <2>1, <2>11, <3>1
    <3>3. a.state = "closed" <=> b.state = "closed"
      BY <2>11 DEF Stimulated
    <3>4. Placed(ap, q2, d2, a2, c, m)
      BY <1>1, <1>4, <2>4, <2>7, <2>8, <2>9, <2>11, <2>2, <3>1, <3>2, <3>3 DEF Placed
    <3> QED
      BY <1>1, <1>3, <1>4, <2>11, <3>2, <3>4 DEF QueueOK
  <2>12. CASE ap.pc # "dropped" /\ a.events = <<"Connected">>
    <3>1. st.events = <<Connected>> /\ st.read = a.read
      BY <2>12 DEF Polled
    <3>2. a.state = "established" /\ b.state \notin {"established", "closed"}
      BY <2>12 DEF Stimulated
    <3>3. c = 0 /\ m = 0 /\ Len(q) = 0 /\ l = b.read
      BY <2>3, <2>4, <2>5, <2>8, <2>12, <3>2
    <3>4. q = <<>>
      BY <3>3
    <3>5. q2 = q \o <<Connected>>
      BY <2>1, <2>12, <3>1
    <3>6. q2 \in Seq(LinkEvent) /\ Split(q2, l, 1, 0) /\ Len(q2) = 1
      BY <3>4, <3>5, SplitConnected
    <3>7. l + 0 = a2.read /\ 1 + 0 = Len(q2) /\ a2.read <= a2.cum
      BY <1>1, <1>4, <2>3, <3>1, <3>3, <3>6
    <3>8. Placed(ap, q2, d2, a2, 1, 0)
      BY <1>4, <2>7, <2>12, <2>2, <3>2, <3>6, <3>7 DEF Placed
    <3> QED
      BY <2>12, <3>6, <3>7, <3>8 DEF QueueOK
  <2>13. CASE ap.pc # "dropped" /\ a.events = <<"Readable">>
    <3>1. PICK r \in Nat, w \in Nat : r = a.read /\ w = a.cum /\ r <= w
      BY <1>1
    <3>2. PICK k \in Nat : k = w - r
      BY <3>1
    <3>3. PICK f : f = st.events
      OBVIOUS
    <3>4. st.read = w /\ Messages(f, r, k)
      BY <2>13, <3>1, <3>2, <3>3 DEF Polled
    <3>5. a.state = "established" /\ b.state = "established"
      BY <2>13 DEF Stimulated
    <3>6. c + m = Len(q) /\ l + m = r
      BY <1>1, <2>3, <2>4, <2>8, <2>13, <3>5, <3>1
    <3>7. Joined(q2, q, f)
      BY <2>1, <2>13, <3>3 DEF Joined
    <3>8. PICK n \in Nat : n = m + k
      OBVIOUS
    <3>9. q2 \in Seq(LinkEvent) /\ Len(q2) = c + n /\ Split(q2, l, c, n)
      <4>1. Split(q, l, c, m) /\ c + m = Len(q) /\ r = l + m /\ Messages(f, r, k)
        BY <2>4, <3>4, <3>6
      <4> QED
        BY <3>7, <3>8, <4>1, SplitMessages, SMTT(60)
    <3>10. a2.read = w /\ a2.cum = w
      BY <1>4, <3>4, <3>1
    <3>11. l + n = w
      BY <3>6, <3>8, <3>2
    <3>12. Placed(ap, q2, d2, a2, c, n)
      BY <1>4, <2>7, <2>13, <2>2, <3>5, <3>9, <3>10, <3>11 DEF Placed
    <3> QED
      BY <2>13, <3>9, <3>10, <3>12 DEF QueueOK
  <2>14. CASE ap.pc # "dropped" /\ a.events = <<"Lost">>
    <3>1. st.events = <<Lost>> /\ st.read = a.read
      BY <2>14 DEF Polled
    <3>2. a.state = "closed" /\ b.state \notin {"established", "closed"}
      BY <2>14 DEF Stimulated
    <3>3. c = 0 /\ m = 0 /\ Len(q) = 0
      BY <2>3, <2>4, <2>5, <2>8, <2>14, <3>2
    <3>4. q2 = Append(q, Lost) /\ q2 \in Seq(LinkEvent) /\ Len(q2) = 1 /\ Split(q2, l, c, m)
      <4>1. q2 = q \o <<Lost>>
        BY <2>1, <2>14, <3>1
      <4>2. Split(q, l, c, m)
        BY <2>3, <2>4
      <4>3. /\ Append(q, Lost) \in Seq(LinkEvent) /\ Len(Append(q, Lost)) = Len(q) + 1
            /\ q \o <<Lost>> = Append(q, Lost) /\ Split(Append(q, Lost), l, c, m)
        BY <4>2, SplitLost
      <4> QED
        BY <3>3, <4>1, <4>3
    <3>5. l + m <= a2.read /\ c + m < Len(q2) /\ a2.read <= a2.cum
      BY <1>1, <1>4, <2>3, <2>4, <3>1, <3>3, <3>4
    <3>6. Placed(ap, q2, d2, a2, c, m)
      BY <1>4, <2>7, <2>14, <2>2, <3>2, <3>3, <3>4, <3>5 DEF Placed
    <3> QED
      BY <2>14, <3>4, <3>5, <3>6 DEF QueueOK
  <2> QED
    BY <1>2, <2>10, <2>11, <2>12, <2>13, <2>14
<1> QED
  BY <1>3, <1>4, <1>5, <1>6, <1>7 DEF SideOK

\* A step of pump preserves the invariant, whatever made it necessary.
LEMMA PumpInv ==
    ASSUME LinkInv, NEW s \in Side, drv[s] \in {"pump", "select"},
           NEW a, Stimulated(s, assoc[s], a),
           a.cum <= assoc[Peer(s)].written,
           a.buf \subseteq 1 .. assoc[Peer(s)].written,
           NEW left, left \subseteq net,
           Pump(s, a, left), UNCHANGED <<app, out, reply>>
    PROVE  /\ LinkInv'
           /\ \A t \in Side : assoc'[t].written = assoc[t].written
<1> DEFINE t == Peer(s)
<1>1. t \in Side /\ t # s /\ Peer(t) = s /\ \A x \in Side : x = s \/ x = t
  BY Peers DEF Side, Peer
<1>2. PICK st : st = Poll(s, a)
  OBVIOUS
<1>3. Polled(a, ready[s], st)
  BY <1>2, PollResult DEF Stimulated
<1>4. st.read \in Nat
  BY <1>3 DEF Stimulated, Polled, Assoc
<1>5. PICK a2 : a2 = [a EXCEPT !.events = <<>>, !.tx = {}, !.read = st.read,
                               !.stream = @ \/ st.ready]
  OBVIOUS
<1>6. Emptied(a, st, a2)
  BY <1>4, <1>5, PumpAssoc DEF Stimulated
<1>7. PICK d2 \in {"select", "exited"} : d2 = IF a.drained THEN "exited" ELSE "select"
  OBVIOUS
<1>8. PICK q2 : q2 = Handed(app[s], inbound[s], st.events)
  OBVIOUS
<1>9. /\ inbound' = [inbound EXCEPT ![s] = q2]
      /\ ready' = [ready EXCEPT ![s] = st.ready]
      /\ assoc' = [assoc EXCEPT ![s] = a2]
      /\ drv' = [drv EXCEPT ![s] = d2]
      /\ net' \subseteq left \cup a.tx
  BY <1>2, <1>5, <1>7, <1>8 DEF Pump, Handed
<1>10. /\ app \in [Side -> AppState] /\ out \in [Side -> BOOLEAN]
       /\ inbound \in [Side -> Seq(LinkEvent)]
       /\ ready \in [Side -> BOOLEAN] /\ assoc \in [Side -> Assoc]
       /\ drv \in [Side -> {"accept", "pump", "select", "exited"}]
       /\ net \in SUBSET Datagram
       /\ reply \in [Side -> {"none", "ok", "error", "not_ready"}]
  BY DEF LinkInv, LinkTypeOK
<1>11. /\ inbound'[s] = q2 /\ ready'[s] = st.ready /\ assoc'[s] = a2 /\ drv'[s] = d2
       /\ inbound'[t] = inbound[t] /\ ready'[t] = ready[t] /\ assoc'[t] = assoc[t]
       /\ drv'[t] = drv[t]
  BY <1>1, <1>9, <1>10
<1>12. /\ q2 \in Seq(LinkEvent)
       /\ SideOK(s, app[s], out[s], q2, d2, st.ready, a2)
  <2>1. /\ app[s] \in AppState /\ out[s] \in BOOLEAN /\ inbound[s] \in Seq(LinkEvent)
        /\ ready[s] \in BOOLEAN /\ assoc[s] \in Assoc
    BY <1>10
  <2>2. SideOK(s, app[s], out[s], inbound[s], drv[s], ready[s], assoc[s])
    BY DEF LinkInv, Sides
  <2>3. d2 = "exited" => a.drained
    BY <1>7
  <2> QED
    BY <1>3, <1>6, <1>8, <2>1, <2>2, <2>3, PumpSide
<1>13. a2 \in Assoc /\ a2.written = a.written /\ a2.cum = a.cum /\ a2.buf = a.buf
  BY <1>6 DEF Emptied
<1>14. a.written = assoc[s].written /\ a.tx \subseteq Datagram
  BY DEF Stimulated, Assoc
<1>15. \A x \in Side : assoc'[x].written = assoc[x].written
  BY <1>1, <1>11, <1>13, <1>14
<1>16. LinkTypeOK'
  <2>1. st.ready \in BOOLEAN
    BY <1>3, <1>10 DEF Stimulated, Polled
  <2>2. net' \in SUBSET Datagram
    BY <1>9, <1>10, <1>14
  <2> QED
    BY <1>9, <1>10, <1>12, <1>13, <2>1, <2>2 DEF LinkTypeOK
<1>17. Sides'
  <2> SUFFICES ASSUME NEW x \in Side
               PROVE  SideOK(x, app[x], out[x], inbound'[x], drv'[x], ready'[x], assoc'[x])
    BY DEF Sides
  <2>1. CASE x = s
    BY <1>11, <1>12, <2>1
  <2>2. CASE x = t
    <3>1. SideOK(t, app[t], out[t], inbound[t], drv[t], ready[t], assoc[t])
      BY <1>1 DEF LinkInv, Sides
    <3> QED
      BY <1>11, <2>2, <3>1
  <2> QED
    BY <1>1, <2>1, <2>2
<1>18. NothingInvented'
  <2>1. ASSUME NEW x \in Side
        PROVE  /\ assoc'[x].cum <= assoc'[Peer(x)].written
               /\ assoc'[x].buf \subseteq 1 .. assoc'[Peer(x)].written
    <3>1. Peer(x) \in Side /\ assoc'[Peer(x)].written = assoc[Peer(x)].written
      BY <1>15, Peers
    <3>2. CASE x = s
      BY <1>11, <1>13, <3>1, <3>2
    <3>3. CASE x = t
      BY <1>11, <3>1, <3>3 DEF LinkInv, NothingInvented
    <3> QED
      BY <1>1, <3>2, <3>3
  <2>2. ASSUME NEW p \in net', p.type = "DATA"
        PROVE  p.n \in 1 .. assoc'[Peer(p.to)].written
    <3>1. CASE p \in net
      <4>1. p.n \in 1 .. assoc[Peer(p.to)].written
        BY <2>2, <3>1 DEF LinkInv, NothingInvented
      <4>2. p.to \in Side
        BY <1>10, <3>1 DEF Datagram
      <4>3. Peer(p.to) \in Side
        BY <4>2, Peers
      <4> QED
        BY <1>15, <4>1, <4>3
    <3>2. CASE p \in a.tx
      <4>1. p.to = t /\ p.n \in 1 .. a.written
        BY <2>2, <3>2 DEF Stimulated
      <4>2. Peer(p.to) = s
        BY <1>1, <4>1
      <4> QED
        BY <1>11, <1>13, <4>1, <4>2
    <3> QED
      BY <1>9, <3>1, <3>2
  <2> QED
    BY <2>1, <2>2 DEF NothingInvented
<1>19. ReadyOnceConnected'
  BY DEF LinkInv, ReadyOnceConnected
<1> QED
  BY <1>15, <1>16, <1>17, <1>18, <1>19 DEF LinkInv

-----------------------------------------------------------------------------
(* What datagrams and timeouts do to an association.                       *)

\* An association nothing has happened to.
LEMMA Untouched ==
    ASSUME NEW s \in Side, NEW ap, NEW o, NEW q, NEW d, NEW rd, NEW b \in Assoc,
           SideOK(s, ap, o, q, d, rd, b)
    PROVE  Stimulated(s, b, b)
<1>1. b.events = <<>>
  BY DEF SideOK, DriverOK
<1>2. \A p \in b.tx : p.to = Peer(s) /\ (p.type = "DATA" => p.n \in 1 .. b.written)
  BY DEF SideOK, DriverOK
<1>3. b.read <= b.cum
  BY DEF SideOK, QueueOK
<1> QED
  BY <1>1, <1>2, <1>3 DEF SideOK, HandshakeOK, Stimulated

\* Packets are queued for transmission.
LEMMA Transmits ==
    ASSUME NEW s \in Side, NEW b, NEW a, Stimulated(s, b, a),
           NEW T \in SUBSET Datagram,
           \A p \in T : p.to = Peer(s) /\ (p.type = "DATA" => p.n \in 1 .. a.written),
           NEW a2, a2 = [a EXCEPT !.tx = @ \cup T]
    PROVE  Stimulated(s, b, a2) /\ a2.cum = a.cum /\ a2.buf = a.buf
<1>1. a \in Assoc
  BY DEF Stimulated
<1>2. PICK X \in SUBSET Datagram : X = a.tx \cup T
  BY <1>1 DEF Assoc
<1>3. a2 = [a EXCEPT !.tx = X]
  BY <1>2
<1>4. /\ a2 \in Assoc /\ a2.tx = X
      /\ a2.state = a.state /\ a2.drained = a.drained /\ a2.stream = a.stream
      /\ a2.events = a.events /\ a2.written = a.written /\ a2.read = a.read
      /\ a2.cum = a.cum /\ a2.buf = a.buf
  BY <1>1, <1>3 DEF Assoc
<1>5. \A p \in X : p.to = Peer(s) /\ (p.type = "DATA" => p.n \in 1 .. a.written)
  BY <1>2 DEF Stimulated
<1> QED
  BY <1>4, <1>5 DEF Stimulated

\* A handshake packet may be transmitted at any time.
LEMMA TransmitsPacket ==
    ASSUME NEW s \in Side, NEW b, NEW a, Stimulated(s, b, a),
           NEW type \in {"INIT", "INIT_ACK", "COOKIE_ECHO", "COOKIE_ACK", "SACK"},
           NEW n \in Nat,
           NEW a2, a2 = [a EXCEPT !.tx = @ \cup {Packet(Peer(s), type, n)}]
    PROVE  Stimulated(s, b, a2) /\ a2.cum = a.cum /\ a2.buf = a.buf
<1>1. PICK T : T = {Packet(Peer(s), type, n)}
  OBVIOUS
<1>2. /\ T \in SUBSET Datagram
      /\ \A p \in T : p.to = Peer(s) /\ p.type # "DATA"
  BY <1>1, Peers DEF Packet, Datagram
<1> QED
  BY <1>1, <1>2, Transmits

\* One event is queued.
LEMMA OneEvent ==
    ASSUME NEW ev \in {"Connected", "Readable", "Lost"}, NEW e, e = <<>>
    PROVE  /\ Append(e, ev) = <<ev>>
           /\ <<ev>> \in Seq({"Connected", "Readable", "Lost"})
OBVIOUS

\* The association comes up.
LEMMA Establishes ==
    ASSUME NEW s \in Side, NEW ap, NEW o, NEW q, NEW d, NEW rd, NEW b \in Assoc,
           SideOK(s, ap, o, q, d, rd, b),
           b.state \in {"listen", "cookie_echoed"},
           NEW a, a = Established(b)
    PROVE  Stimulated(s, b, a) /\ a.cum = b.cum /\ a.buf = b.buf /\ a.tx = b.tx
<1>1. PICK e \in Seq({"Connected", "Readable", "Lost"}) :
         e = Append(b.events, "Connected") /\ e = <<"Connected">>
  <2>1. b.events = <<>>
    BY DEF SideOK, DriverOK
  <2>2. /\ Append(b.events, "Connected") = <<"Connected">>
        /\ <<"Connected">> \in Seq({"Connected", "Readable", "Lost"})
    BY <2>1, OneEvent
  <2> QED
    BY <2>2, Zenon
<1>2. PICK zero \in Nat : zero = 0
  OBVIOUS
<1>3. a = [b EXCEPT !.state = "established", !.retries = zero, !.events = e]
  BY <1>1, <1>2 DEF Established
<1>4. /\ a \in Assoc /\ a.state = "established" /\ a.events = e
      /\ a.tx = b.tx /\ a.drained = b.drained /\ a.stream = b.stream
      /\ a.written = b.written /\ a.read = b.read
      /\ a.cum = b.cum /\ a.buf = b.buf
  <2>1. "established" \in AssocState
    BY DEF AssocState
  <2> QED
    BY <1>3, <2>1 DEF Assoc
<1>5. ~b.drained /\ ~b.stream /\ b.cum = 0
  BY DEF SideOK, HandshakeOK
<1> QED
  BY <1>1, <1>4, <1>5 DEF SideOK, HandshakeOK, DriverOK, QueueOK, Stimulated

\* The association is given up, and says so.
LEMMA Closes ==
    ASSUME NEW s \in Side, NEW ap, NEW o, NEW q, NEW d, NEW rd, NEW b \in Assoc,
           SideOK(s, ap, o, q, d, rd, b),
           b.state \in {"cookie_wait", "cookie_echoed"}, NEW dr \in BOOLEAN,
           NEW a, a = Closed(b, dr)
    PROVE  Stimulated(s, b, a) /\ a.cum = b.cum /\ a.buf = b.buf
<1>1. PICK e \in Seq({"Connected", "Readable", "Lost"}) :
         e = Append(b.events, "Lost") /\ e = <<"Lost">>
  <2>1. b.events = <<>>
    BY DEF SideOK, DriverOK
  <2>2. /\ Append(b.events, "Lost") = <<"Lost">>
        /\ <<"Lost">> \in Seq({"Connected", "Readable", "Lost"})
    BY <2>1, OneEvent
  <2> QED
    BY <2>2, Zenon
<1>2. a = [b EXCEPT !.state = "closed", !.drained = dr, !.events = e]
  BY <1>1 DEF Closed
<1>3. /\ a \in Assoc /\ a.state = "closed" /\ a.events = e
      /\ a.tx = b.tx /\ a.stream = b.stream
      /\ a.written = b.written /\ a.read = b.read
      /\ a.cum = b.cum /\ a.buf = b.buf
  BY <1>2 DEF Assoc, AssocState
<1>4. ~b.stream /\ b.cum = 0 /\ s = "client"
  BY DEF SideOK, HandshakeOK, Side
<1> QED
  BY <1>1, <1>3, <1>4 DEF SideOK, DriverOK, QueueOK, Stimulated

\* Message n has arrived and c is the new cumulative acknowledgement.
Received(b, n, c) ==
    [b EXCEPT !.stream = TRUE, !.cum = c,
              !.buf = {k \in @ \cup {n} : k > c},
              !.events = IF c > b.read THEN Append(@, "Readable") ELSE @]

\* Data arrives that the peer has written: it is taken in order.
LEMMA Receives ==
    ASSUME NEW s \in Side, NEW ap, NEW o, NEW q, NEW d, NEW rd, NEW b \in Assoc,
           SideOK(s, ap, o, q, d, rd, b), b.state = "established",
           NEW W \in Nat, b.cum <= W, b.buf \subseteq 1 .. W, NEW n \in 1 .. W,
           NEW c, c = Cumulative(b, n),
           NEW a, a = Received(b, n, c)
    PROVE  /\ c \in Nat
           /\ Stimulated(s, b, a) /\ a.cum <= W /\ a.buf \subseteq 1 .. W /\ a.tx = b.tx
<1>1. b.cum \in Nat /\ b.buf \in SUBSET Nat /\ b.read \in Nat
  BY DEF Assoc
<1>2. c \in b.cum .. W
  BY <1>1, CumulativeIsReceived
<1>3. b.read <= b.cum /\ b.events = <<>>
  BY DEF SideOK, QueueOK, DriverOK
<1>4. PICK e \in Seq({"Connected", "Readable", "Lost"}) :
         /\ e = IF c > b.read THEN Append(b.events, "Readable") ELSE b.events
         /\ e = <<>> \/ e = <<"Readable">>
  <2>1. Append(b.events, "Readable") = <<"Readable">>
    BY <1>3
  <2>2. <<"Readable">> \in Seq({"Connected", "Readable", "Lost"})
    OBVIOUS
  <2> QED
    BY <1>3, <2>1, <2>2, EmptyEvents, Zenon
<1>5. PICK B \in SUBSET Nat : B = {k \in b.buf \cup {n} : k > c} /\ B \subseteq 1 .. W
  <2> DEFINE B == {k \in b.buf \cup {n} : k > c}
  <2>1. B \subseteq b.buf \cup {n}
    BY Zenon
  <2>2. B \subseteq 1 .. W /\ B \subseteq Nat
    BY <1>1, <2>1
  <2> QED
    BY <2>2, Zenon
<1>6. a = [b EXCEPT !.stream = TRUE, !.cum = c, !.buf = B, !.events = e]
  BY <1>4, <1>5 DEF Received
<1>7. c \in Nat /\ c <= W /\ b.read <= c
  BY <1>1, <1>2, <1>3
<1>8. /\ a \in Assoc /\ a.state = "established" /\ a.events = e /\ a.drained = b.drained
      /\ a.tx = b.tx /\ a.written = b.written /\ a.read = b.read
      /\ a.cum = c /\ a.buf = B
  BY <1>6, <1>7 DEF Assoc
<1> QED
  BY <1>4, <1>5, <1>7, <1>8 DEF SideOK, HandshakeOK, DriverOK, Stimulated

\* What the application and the driver of a side know of its peer.
LEMMA SideFacts ==
    ASSUME LinkInv, NEW s \in Side
    PROVE  /\ assoc[s] \in Assoc /\ assoc[Peer(s)] \in Assoc
           /\ SideOK(s, app[s], out[s], inbound[s], drv[s], ready[s], assoc[s])
           /\ assoc[Peer(s)].written \in Nat
           /\ assoc[s].cum <= assoc[Peer(s)].written
           /\ assoc[s].buf \subseteq 1 .. assoc[Peer(s)].written
<1>1. Peer(s) \in Side
  BY Peers
<1>2. assoc[s] \in Assoc /\ assoc[Peer(s)] \in Assoc
  BY <1>1 DEF LinkInv, LinkTypeOK
<1>3. assoc[Peer(s)].written \in Nat
  BY <1>2 DEF Assoc
<1> QED
  BY <1>2, <1>3 DEF LinkInv, Sides, NothingInvented

\* The server writes only what answers the client, so no data is on its way
\* to a client that is still in the handshake.
LEMMA NoEarlyData ==
    ASSUME LinkInv, NEW s \in Side, assoc[s].state = "cookie_echoed"
    PROVE  assoc[Peer(s)].written = 0
<1>1. s = "client" /\ Peer(s) = "server" /\ Peer("server") = "client" /\ "server" \in Side
  BY SideFacts DEF SideOK, HandshakeOK, Side, Peer
<1>2. assoc["client"].written = 0
  BY <1>1, SideFacts DEF SideOK, HandshakeOK
<1>3. assoc["server"] \in Assoc /\ assoc["server"].cum <= 0
  BY <1>1, <1>2, SideFacts
<1>4. assoc["server"].read <= assoc["server"].cum
  BY <1>1, SideFacts DEF SideOK, QueueOK
<1>5. assoc["server"].written > 0 => assoc["server"].read > 0
  BY <1>1, SideFacts DEF SideOK, HandshakeOK
<1> QED
  BY <1>1, <1>3, <1>4, <1>5 DEF Assoc

\* Any datagram leaves the association fit for pump.
LEMMA DatagramStimulates ==
    ASSUME LinkInv, NEW s \in Side, NEW p \in net, p.to = s,
           NEW a, a = handle_event(s, assoc[s], p)
    PROVE  /\ Stimulated(s, assoc[s], a)
           /\ a.cum <= assoc[Peer(s)].written
           /\ a.buf \subseteq 1 .. assoc[Peer(s)].written
<1>1. PICK b \in Assoc : b = assoc[s]
  BY SideFacts
<1>2. PICK W \in Nat : W = assoc[Peer(s)].written
  BY SideFacts
<1>3. b.cum <= W /\ b.buf \subseteq 1 .. W
  BY <1>1, <1>2, SideFacts
<1>4. SideOK(s, app[s], out[s], inbound[s], drv[s], ready[s], b)
  BY <1>1, SideFacts
<1>5. Stimulated(s, b, b)
  BY <1>4, Untouched
<1> SUFFICES Stimulated(s, b, a) /\ a.cum <= W /\ a.buf \subseteq 1 .. W
  BY <1>1, <1>2
<1>6. a = handle_event(s, b, p)
  BY <1>1
<1>7. p \in Datagram
  BY DEF LinkInv, LinkTypeOK
<1>8. CASE p.type = "INIT" /\ b.state = "listen"
  <2>1. a = [b EXCEPT !.tx = @ \cup {Packet(Peer(s), "INIT_ACK", 0)}]
    BY <1>6, <1>8 DEF handle_event
  <2> QED
    BY <1>3, <1>5, <2>1, TransmitsPacket
<1>9. CASE p.type = "INIT_ACK" /\ b.state = "cookie_wait"
  <2>1. PICK zero \in Nat : zero = 0
    OBVIOUS
  <2>2. PICK c : c = [b EXCEPT !.state = "cookie_echoed", !.retries = zero]
    OBVIOUS
  <2>3. /\ c \in Assoc /\ c.state = "cookie_echoed" /\ c.events = b.events
        /\ c.tx = b.tx /\ c.drained = b.drained /\ c.stream = b.stream
        /\ c.written = b.written /\ c.read = b.read
        /\ c.cum = b.cum /\ c.buf = b.buf
    BY <2>2 DEF Assoc, AssocState
  <2>4. Stimulated(s, b, c)
    BY <1>5, <1>9, <2>3 DEF Stimulated
  <2>5. a = [c EXCEPT !.tx = @ \cup {Packet(Peer(s), "COOKIE_ECHO", 0)}]
    <3>1. a = [b EXCEPT !.state = "cookie_echoed", !.retries = zero,
                        !.tx = @ \cup {Packet(Peer(s), "COOKIE_ECHO", 0)}]
      BY <1>6, <1>9, <2>1 DEF handle_event
    <3> QED
      BY <2>2, <2>3, <3>1
  <2> QED
    BY <1>3, <2>3, <2>4, <2>5, TransmitsPacket
<1>10. CASE p.type = "COOKIE_ECHO" /\ b.state = "listen"
  <2>1. PICK c : c = Established(b)
    OBVIOUS
  <2>2. Stimulated(s, b, c) /\ c.cum = b.cum /\ c.buf = b.buf /\ c.tx = b.tx
    BY <1>4, <1>10, <2>1, Establishes
  <2>3. a = [c EXCEPT !.tx = @ \cup {Packet(Peer(s), "COOKIE_ACK", 0)}]
    BY <1>6, <1>10, <2>1 DEF handle_event
  <2> QED
    BY <1>3, <2>2, <2>3, TransmitsPacket
<1>11. CASE p.type = "COOKIE_ECHO" /\ b.state = "established"
  <2>1. a = [b EXCEPT !.tx = @ \cup {Packet(Peer(s), "COOKIE_ACK", 0)}]
    BY <1>6, <1>11 DEF handle_event
  <2> QED
    BY <1>3, <1>5, <2>1, TransmitsPacket
<1>12. CASE p.type = "COOKIE_ACK" /\ b.state = "cookie_echoed"
  <2>1. a = Established(b)
    BY <1>6, <1>12 DEF handle_event
  <2> QED
    BY <1>3, <1>4, <1>12, <2>1, Establishes
<1>13. CASE p.type = "DATA" /\ b.state \in {"cookie_echoed", "established"}
  <2>1. p.n \in 1 .. W
    BY <1>2, <1>13 DEF LinkInv, NothingInvented
  <2>2. b.state = "established"
    BY <1>1, <1>2, <1>13, <2>1, NoEarlyData
  <2>3. PICK c : c = Cumulative(b, p.n)
    OBVIOUS
  <2>4. PICK x : x = Received(b, p.n, c)
    OBVIOUS
  <2>5. /\ c \in Nat
        /\ Stimulated(s, b, x) /\ x.cum <= W /\ x.buf \subseteq 1 .. W /\ x.tx = b.tx
    BY <1>3, <1>4, <2>1, <2>2, <2>3, <2>4, Receives
  <2>6. a = [x EXCEPT !.tx = @ \cup {Packet(Peer(s), "SACK", c)}]
    <3>1. a = [b EXCEPT !.stream = TRUE, !.cum = c,
                        !.buf = {k \in @ \cup {p.n} : k > c},
                        !.events = IF c > b.read THEN Append(@, "Readable") ELSE @,
                        !.tx = @ \cup {Packet(Peer(s), "SACK", c)}]
      BY <1>6, <1>13, <2>3 DEF handle_event
    <3> QED
      BY <2>4, <2>5, <3>1, Zenon DEF Received
  <2>7. Stimulated(s, b, a) /\ a.cum = x.cum /\ a.buf = x.buf
    BY <2>5, <2>6, TransmitsPacket
  <2> QED
    BY <2>5, <2>7
<1>14. CASE p.type = "SACK" /\ b.state = "established"
  <2>1. b.acked \in Nat /\ p.n \in Nat
    BY <1>7 DEF Assoc, Datagram
  <2>2. PICK m \in Nat : m = Max({b.acked, p.n})
    <3>1. \E x \in {b.acked, p.n} : \A y \in {b.acked, p.n} : x >= y
      BY <2>1
    <3>2. Max({b.acked, p.n}) \in {b.acked, p.n}
      BY <3>1 DEF Max
    <3> QED
      BY <2>1, <3>2
  <2>3. a = [b EXCEPT !.acked = m]
    BY <1>6, <1>14, <2>2 DEF handle_event
  <2>4. /\ a \in Assoc /\ a.state = b.state /\ a.events = b.events
        /\ a.tx = b.tx /\ a.drained = b.drained /\ a.stream = b.stream
        /\ a.written = b.written /\ a.read = b.read
        /\ a.cum = b.cum /\ a.buf = b.buf
    BY <2>3 DEF Assoc
  <2> QED
    BY <1>3, <1>5, <2>4 DEF Stimulated
<1>15. CASE /\ ~(p.type = "INIT" /\ b.state = "listen")
            /\ ~(p.type = "INIT_ACK" /\ b.state = "cookie_wait")
            /\ ~(p.type = "COOKIE_ECHO" /\ b.state = "listen")
            /\ ~(p.type = "COOKIE_ECHO" /\ b.state = "established")
            /\ ~(p.type = "COOKIE_ACK" /\ b.state = "cookie_echoed")
            /\ ~(p.type = "DATA" /\ b.state \in {"cookie_echoed", "established"})
            /\ ~(p.type = "SACK" /\ b.state = "established")
  <2>1. a = b
    BY <1>6, <1>15, Zenon DEF handle_event
  <2> QED
    BY <1>3, <1>5, <2>1
<1> QED
  BY <1>8, <1>9, <1>10, <1>11, <1>12, <1>13, <1>14, <1>15

\* So does every outcome of a timeout.
LEMMA TimeoutStimulates ==
    ASSUME LinkInv, NEW s \in Side, HasDeadline(assoc[s]),
           NEW a \in handle_timeout(s, assoc[s])
    PROVE  /\ Stimulated(s, assoc[s], a)
           /\ a.cum <= assoc[Peer(s)].written
           /\ a.buf \subseteq 1 .. assoc[Peer(s)].written
<1>1. PICK b \in Assoc : b = assoc[s]
  BY SideFacts
<1>2. SideOK(s, app[s], out[s], inbound[s], drv[s], ready[s], b)
  BY <1>1, SideFacts
<1>3. Stimulated(s, b, b)
  BY <1>2, Untouched
<1> SUFFICES Stimulated(s, b, a) /\ a.cum = b.cum /\ a.buf = b.buf
  BY <1>1, SideFacts
<1>4. a \in handle_timeout(s, b) /\ HasDeadline(b)
  BY <1>1
<1>5. b.retries \in Nat
  BY DEF Assoc
<1>6. ASSUME NEW type \in {"INIT", "COOKIE_ECHO"},
             a = [b EXCEPT !.retries = @ + 1,
                           !.tx = @ \cup {Packet(Peer(s), type, 0)}]
      PROVE  Stimulated(s, b, a) /\ a.cum = b.cum /\ a.buf = b.buf
  <2>1. PICK n \in Nat : n = b.retries + 1
    BY <1>5
  <2>2. PICK c : c = [b EXCEPT !.retries = n]
    OBVIOUS
  <2>3. /\ c \in Assoc /\ c.state = b.state /\ c.events = b.events
        /\ c.tx = b.tx /\ c.drained = b.drained /\ c.stream = b.stream
        /\ c.written = b.written /\ c.read = b.read
        /\ c.cum = b.cum /\ c.buf = b.buf
    BY <2>2 DEF Assoc
  <2>4. Stimulated(s, b, c)
    BY <1>3, <2>3 DEF Stimulated
  <2>5. a = [c EXCEPT !.tx = @ \cup {Packet(Peer(s), type, 0)}]
    BY <1>6, <2>1, <2>2, <2>3
  <2> QED
    BY <2>3, <2>4, <2>5, TransmitsPacket
<1>7. CASE b.state = "cookie_wait" /\ b.retries < MaxRetrans
  <2>1. a = [b EXCEPT !.retries = @ + 1,
                      !.tx = @ \cup {Packet(Peer(s), "INIT", 0)}]
    BY <1>4, <1>7 DEF handle_timeout
  <2> QED
    BY <1>6, <2>1
<1>8. CASE b.state = "cookie_echoed" /\ b.retries < MaxRetrans
  <2>1. a = [b EXCEPT !.retries = @ + 1,
                      !.tx = @ \cup {Packet(Peer(s), "COOKIE_ECHO", 0)}]
    BY <1>4, <1>8 DEF handle_timeout
  <2> QED
    BY <1>6, <2>1
<1>9. CASE b.state = "established"
  <2>1. PICK T : T = {Packet(Peer(s), "DATA", n) : n \in b.acked + 1 .. b.written}
    OBVIOUS
  <2>2. a = [b EXCEPT !.tx = @ \cup T]
    BY <1>4, <1>9, <2>1 DEF handle_timeout
  <2>3. b.acked \in Nat /\ b.written \in Nat
    BY DEF Assoc
  <2>4. \A n \in b.acked + 1 .. b.written : n \in Nat /\ n \in 1 .. b.written
    BY <2>3
  <2>5. \A n \in Nat : /\ Packet(Peer(s), "DATA", n) \in Datagram
                       /\ Packet(Peer(s), "DATA", n).to = Peer(s)
                       /\ Packet(Peer(s), "DATA", n).n = n
    BY Peers DEF Packet, Datagram
  <2>6. \A p \in T : /\ p \in Datagram /\ p.to = Peer(s)
                     /\ p.type = "DATA" => p.n \in 1 .. b.written
    BY <2>1, <2>4, <2>5
  <2>7. T \in SUBSET Datagram
    BY <2>6
  <2> QED
    BY <1>3, <2>2, <2>6, <2>7, Transmits
<1>10. CASE b.state = "closed"
  <2>1. a = [b EXCEPT !.drained = TRUE]
    BY <1>4, <1>10 DEF handle_timeout
  <2>2. /\ a \in Assoc /\ a.state = b.state /\ a.events = b.events
        /\ a.tx = b.tx /\ a.stream = b.stream
        /\ a.written = b.written /\ a.read = b.read
        /\ a.cum = b.cum /\ a.buf = b.buf
    BY <2>1 DEF Assoc
  <2> QED
    BY <1>3, <1>10, <2>2 DEF Stimulated
<1>11. CASE /\ b.state \in {"cookie_wait", "cookie_echoed"}
            /\ ~(b.retries < MaxRetrans)
  <2>1. PICK dr \in BOOLEAN : a = Closed(b, dr)
    BY <1>4, <1>11 DEF handle_timeout
  <2> QED
    BY <1>2, <1>11, <2>1, Closes
<1> QED
  BY <1>4, <1>7, <1>8, <1>9, <1>10, <1>11 DEF HasDeadline

-----------------------------------------------------------------------------
(* The actions.                                                            *)

\* The step neither sends nor delivers.
Silent ==
    \A t \in Side : assoc'[t].written = assoc[t].written /\ app'[t].got = app[t].got

\* A step of side s leaves the other side in order.
LEMMA OneSide ==
    ASSUME LinkInv, NEW s \in Side,
           \A t \in Side \ {s} :
              /\ app'[t] = app[t] /\ out'[t] = out[t] /\ inbound'[t] = inbound[t]
              /\ drv'[t] = drv[t] /\ ready'[t] = ready[t] /\ assoc'[t] = assoc[t],
           SideOK(s, app'[s], out'[s], inbound'[s], drv'[s], ready'[s], assoc'[s])
    PROVE  Sides'
<1> SUFFICES ASSUME NEW t \in Side
             PROVE  SideOK(t, app'[t], out'[t], inbound'[t], drv'[t], ready'[t], assoc'[t])
  BY DEF Sides
<1>1. CASE t = s
  BY <1>1
<1>2. CASE t # s
  <2>1. SideOK(t, app[t], out[t], inbound[t], drv[t], ready[t], assoc[t])
    BY DEF LinkInv, Sides
  <2> QED
    BY <1>2, <2>1
<1> QED
  BY <1>1, <1>2

\* While the associations and the network stay as they are, nothing is invented.
LEMMA SameAssociations ==
    ASSUME LinkInv, UNCHANGED assoc, net' \subseteq net
    PROVE  NothingInvented'
BY DEF LinkInv, NothingInvented

\* The type of a side's variables.
LEMMA SideTypes ==
    ASSUME LinkInv, NEW s \in Side
    PROVE  /\ app[s] \in AppState /\ out[s] \in BOOLEAN
           /\ inbound[s] \in Seq(LinkEvent) /\ ready[s] \in BOOLEAN
           /\ drv[s] \in {"accept", "pump", "select", "exited"}
           /\ reply[s] \in {"none", "ok", "error", "not_ready"}
           /\ assoc[s] \in Assoc
BY DEF LinkInv, LinkTypeOK

\* A queue may be empty.
LEMMA EmptyQueue == <<>> \in Seq(LinkEvent)
OBVIOUS

\* The state of an application that has returned.
Returned(ap) == [ap EXCEPT !.pc = "dropped", !.owed = 0]

\* An application that returns takes its queue along.
LEMMA ReturnSide ==
    ASSUME NEW s \in Side, NEW ap \in AppState, NEW o, NEW q \in Seq(LinkEvent),
           NEW d, NEW rd, NEW a \in Assoc, SideOK(s, ap, o, q, d, rd, a),
           NEW ap2, ap2 = Returned(ap)
    PROVE  /\ ap2 \in AppState /\ ap2.got = ap.got
           /\ SideOK(s, ap2, o, <<>>, d, rd, a)
<1>1. PICK zero \in Int : zero = 0
  OBVIOUS
<1>2. ap2 = [ap EXCEPT !.pc = "dropped", !.owed = zero]
  BY <1>1 DEF Returned
<1>3. /\ ap2 \in AppState /\ ap2.pc = "dropped" /\ ap2.owed = zero
      /\ ap2.connected = ap.connected /\ ap2.got = ap.got
  BY <1>2 DEF AppState
<1>4. PICK l \in Nat : l = Len(ap.got)
  BY DEF AppState
<1>5. l <= a.read /\ a.read \in Nat
  <2>1. PICK c \in 0 .. 1, m \in Nat : Placed(ap, q, d, a, c, m)
    BY DEF SideOK, QueueOK
  <2>2. l + m <= a.read /\ a.read \in Nat
    BY <1>4, <2>1 DEF Placed, Assoc
  <2> QED
    BY <2>2
<1>6. Placed(ap2, <<>>, d, a, 0, 0)
  <2>1. Split(<<>>, l, 0, 0)
    BY DEF Split
  <2>2. ~Alive(ap2, d, a)
    BY <1>3 DEF Alive
  <2> QED
    BY <1>3, <1>4, <1>5, <2>1, <2>2 DEF Placed
<1>7. QueueOK(ap2, <<>>, d, a)
  BY <1>6 DEF QueueOK, SideOK
<1>8. HandshakeOK(s, ap2, o, rd, a)
  BY <1>1, <1>3 DEF SideOK, HandshakeOK
<1> QED
  BY <1>3, <1>7, <1>8 DEF SideOK

\* The return of an application, whatever the reason.
LEMMA ReturnInv ==
    ASSUME LinkInv, NEW s \in Side, Return(s), UNCHANGED <<out, drv, ready, assoc, net>>
    PROVE  LinkInv' /\ Silent
<1>1. PICK ap2 : ap2 = Returned(app[s])
  OBVIOUS
<1>2. /\ app' = [app EXCEPT ![s] = ap2]
      /\ inbound' = [inbound EXCEPT ![s] = <<>>]
      /\ reply' = [reply EXCEPT ![s] = "none"]
  <2>1. app \in [Side -> AppState] /\ s \in Side
    BY DEF LinkInv, LinkTypeOK
  <2> QED
    BY <1>1, <2>1 DEF Return, Returned
<1>3. /\ ap2 \in AppState /\ ap2.got = app[s].got
      /\ SideOK(s, ap2, out[s], <<>>, drv[s], ready[s], assoc[s])
  <2>1. PICK ap \in AppState : ap = app[s]
    BY SideTypes
  <2>2. PICK q \in Seq(LinkEvent) : q = inbound[s]
    BY SideTypes
  <2>3. PICK a \in Assoc : a = assoc[s]
    BY SideTypes
  <2>4. SideOK(s, ap, out[s], q, drv[s], ready[s], a)
    BY <2>1, <2>2, <2>3, SideFacts, Zenon
  <2>5. ap2 = Returned(ap)
    BY <1>1, <2>1, Zenon
  <2>6. /\ ap2 \in AppState /\ ap2.got = ap.got
        /\ SideOK(s, ap2, out[s], <<>>, drv[s], ready[s], a)
    BY <2>4, <2>5, ReturnSide, Zenon
  <2> QED
    BY <2>1, <2>3, <2>6, Zenon
<1>4. PICK e \in Seq(LinkEvent) : e = <<>>
  BY EmptyQueue, Zenon
<1>5. LinkTypeOK'
  BY <1>2, <1>3, <1>4 DEF LinkInv, LinkTypeOK
<1>6. /\ app'[s] = ap2 /\ inbound'[s] = <<>>
      /\ \A t \in Side \ {s} : app'[t] = app[t] /\ inbound'[t] = inbound[t]
  BY <1>2 DEF LinkInv, LinkTypeOK
<1>7. Sides'
  BY <1>3, <1>6, OneSide
<1>8. NothingInvented'
  BY SameAssociations
<1>9. ReadyOnceConnected'
  BY <1>2 DEF LinkInv, LinkTypeOK, ReadyOnceConnected
<1>10. Silent
  BY <1>3, <1>6 DEF Silent
<1> QED
  BY <1>5, <1>7, <1>8, <1>9, <1>10 DEF LinkInv

\* send into the channel: only over an association that is up.
LEMMA SendSide ==
    ASSUME NEW s \in Side, NEW ap \in AppState, NEW o, NEW q \in Seq(LinkEvent),
           NEW d, NEW rd, NEW a \in Assoc, SideOK(s, ap, o, q, d, rd, a),
           ap.pc = "idle", IF s = "client" THEN ap.connected ELSE ap.owed > 0,
           NEW ap2, ap2 = [ap EXCEPT !.pc = "sending"]
    PROVE  /\ ap2 \in AppState /\ ap2.got = ap.got
           /\ SideOK(s, ap2, TRUE, q, d, rd, a)
<1>1. /\ ap2 \in AppState /\ ap2.pc = "sending" /\ ap2.owed = ap.owed
      /\ ap2.connected = ap.connected /\ ap2.got = ap.got
  BY DEF AppState
<1>2. a.read <= a.cum /\ a.read \in Nat /\ a.cum \in Nat
  BY DEF SideOK, QueueOK, Assoc
<1>3. s = "server" => a.read > 0
  BY DEF SideOK, HandshakeOK
<1>4. a.state = "established"
  BY <1>2, <1>3 DEF SideOK, HandshakeOK, Side
<1>5. HandshakeOK(s, ap2, TRUE, rd, a)
  BY <1>1, <1>3, <1>4 DEF SideOK, HandshakeOK
<1>6. Alive(ap2, d, a) <=> Alive(ap, d, a)
  BY <1>1 DEF Alive
<1>7. PICK c \in 0 .. 1, m \in Nat : Placed(ap, q, d, a, c, m)
  BY DEF SideOK, QueueOK
<1>8. Placed(ap2, q, d, a, c, m)
  BY <1>1, <1>6, <1>7 DEF Placed
<1>9. QueueOK(ap2, q, d, a)
  BY <1>1, <1>2, <1>8 DEF QueueOK
<1> QED
  BY <1>1, <1>5, <1>9 DEF SideOK

\* send preserves the invariant.
LEMMA SendInv ==
    ASSUME LinkInv, NEW s \in Side, send(s)
    PROVE  LinkInv' /\ Silent
<1>1. CASE Return(s) /\ UNCHANGED out
  BY <1>1, ReturnInv DEF send
<1>2. CASE /\ app' = [app EXCEPT ![s].pc = "sending"]
           /\ out' = [out EXCEPT ![s] = TRUE]
           /\ UNCHANGED <<reply, inbound>>
  <2>1. PICK ap2 : ap2 = [app[s] EXCEPT !.pc = "sending"]
    OBVIOUS
  <2>2. app' = [app EXCEPT ![s] = ap2]
    BY <1>2, <2>1
  <2>3. UNCHANGED <<drv, ready, assoc, net>>
    BY DEF send
  <2>4. app[s].pc = "idle" /\ (IF s = "client" THEN app[s].connected ELSE app[s].owed > 0)
    BY DEF send
  <2>5. /\ ap2 \in AppState /\ ap2.got = app[s].got
        /\ SideOK(s, ap2, TRUE, inbound[s], drv[s], ready[s], assoc[s])
    <3>1. PICK ap \in AppState : ap = app[s]
      BY SideTypes
    <3>2. PICK q \in Seq(LinkEvent) : q = inbound[s]
      BY SideTypes
    <3>3. PICK a \in Assoc : a = assoc[s]
      BY SideTypes
    <3>4. SideOK(s, ap, out[s], q, drv[s], ready[s], a)
      BY <3>1, <3>2, <3>3, SideFacts, Zenon
    <3>5. ap2 = [ap EXCEPT !.pc = "sending"]
      BY <2>1, <3>1, Zenon
    <3>6. ap.pc = "idle" /\ (IF s = "client" THEN ap.connected ELSE ap.owed > 0)
      BY <2>4, <3>1, Zenon
    <3>7. /\ ap2 \in AppState /\ ap2.got = ap.got
          /\ SideOK(s, ap2, TRUE, q, drv[s], ready[s], a)
      BY <3>4, <3>5, <3>6, SendSide, Zenon
    <3> QED
      BY <3>1, <3>2, <3>3, <3>7, Zenon
  <2>6. LinkTypeOK'
    BY <1>2, <2>2, <2>3, <2>5 DEF LinkInv, LinkTypeOK
  <2>7. /\ app'[s] = ap2 /\ out'[s] = TRUE
        /\ \A t \in Side \ {s} : app'[t] = app[t] /\ out'[t] = out[t]
    BY <1>2, <2>2 DEF LinkInv, LinkTypeOK
  <2>8. Sides'
    BY <1>2, <2>3, <2>5, <2>7, OneSide
  <2>9. NothingInvented'
    BY <2>3, SameAssociations
  <2>10. ReadyOnceConnected'
    BY <1>2 DEF LinkInv, ReadyOnceConnected
  <2>11. Silent
    BY <2>3, <2>5, <2>7 DEF Silent
  <2> QED
    BY <2>6, <2>8, <2>9, <2>10, <2>11 DEF LinkInv
<1> QED
  BY <1>1, <1>2 DEF send

\* A step of the application that leaves the association alone.
LEMMA AppInv ==
    ASSUME LinkInv, NEW s \in Side, NEW ap2 \in AppState, NEW q2 \in Seq(LinkEvent),
           app' = [app EXCEPT ![s] = ap2], inbound' = [inbound EXCEPT ![s] = q2],
           reply' \in [Side -> {"none", "ok", "error"}],
           UNCHANGED <<out, drv, ready, assoc, net>>,
           SideOK(s, ap2, out[s], q2, drv[s], ready[s], assoc[s])
    PROVE  LinkInv'
<1>1. LinkTypeOK'
  BY DEF LinkInv, LinkTypeOK
<1>2. /\ app'[s] = ap2 /\ inbound'[s] = q2
      /\ \A t \in Side \ {s} : app'[t] = app[t] /\ inbound'[t] = inbound[t]
  BY DEF LinkInv, LinkTypeOK
<1>3. Sides'
  BY <1>2, OneSide
<1>4. NothingInvented'
  BY SameAssociations
<1>5. ReadyOnceConnected'
  BY DEF ReadyOnceConnected
<1> QED
  BY <1>1, <1>3, <1>4, <1>5 DEF LinkInv

\* The state of an application whose send has returned Ok.
Answered(s, ap) ==
    [ap EXCEPT !.pc = "idle", !.owed = IF s = "server" THEN @ - 1 ELSE @]

\* send returns Ok.
LEMMA AnsweredSide ==
    ASSUME NEW s \in Side, NEW ap \in AppState, NEW o, NEW q \in Seq(LinkEvent),
           NEW d, NEW rd, NEW a \in Assoc, SideOK(s, ap, o, q, d, rd, a),
           ap.pc = "sending", NEW ap2, ap2 = Answered(s, ap)
    PROVE  /\ ap2 \in AppState /\ ap2.got = ap.got
           /\ SideOK(s, ap2, o, q, d, rd, a)
<1>1. ap.owed \in Int
  BY DEF AppState
<1>2. PICK w \in Int : w = (IF s = "server" THEN ap.owed - 1 ELSE ap.owed)
  BY <1>1
<1>3. ap2 = [ap EXCEPT !.pc = "idle", !.owed = w]
  BY <1>2 DEF Answered
<1>4. /\ ap2 \in AppState /\ ap2.pc = "idle" /\ ap2.owed = w
      /\ ap2.connected = ap.connected /\ ap2.got = ap.got
  BY <1>3 DEF AppState
<1>5. s = "server" => (w > 0 => ap.owed > 0)
  BY <1>1, <1>2
<1>6. HandshakeOK(s, ap2, o, rd, a)
  BY <1>4, <1>5 DEF SideOK, HandshakeOK
<1>7. Alive(ap2, d, a) <=> Alive(ap, d, a)
  BY <1>4 DEF Alive
<1>8. PICK c \in 0 .. 1, m \in Nat : Placed(ap, q, d, a, c, m)
  BY DEF SideOK, QueueOK
<1>9. Placed(ap2, q, d, a, c, m)
  BY <1>4, <1>7, <1>8 DEF Placed
<1>10. QueueOK(ap2, q, d, a)
  BY <1>4, <1>9 DEF SideOK, QueueOK
<1> QED
  BY <1>4, <1>6, <1>10 DEF SideOK

\* SendReturns preserves the invariant.
LEMMA SendReturnsInv ==
    ASSUME LinkInv, NEW s \in Side, SendReturns(s)
    PROVE  LinkInv' /\ Silent
<1>1. UNCHANGED <<out, drv, ready, assoc, net>> /\ app[s].pc = "sending"
  BY DEF SendReturns
<1>2. CASE Return(s)
  BY <1>1, <1>2, ReturnInv
<1>3. CASE /\ app' = [app EXCEPT ![s].pc = "idle",
                                 ![s].owed = IF s = "server" THEN @ - 1 ELSE @]
           /\ reply' = [reply EXCEPT ![s] = "none"]
           /\ UNCHANGED inbound
  <2>1. PICK ap2 : ap2 = Answered(s, app[s])
    OBVIOUS
  <2>2. app \in [Side -> AppState] /\ inbound \in [Side -> Seq(LinkEvent)]
    BY DEF LinkInv, LinkTypeOK
  <2>3. app' = [app EXCEPT ![s] = ap2]
    BY <1>3, <2>1, <2>2 DEF Answered
  <2>4. PICK ap \in AppState : ap = app[s]
    BY SideTypes
  <2>5. PICK q \in Seq(LinkEvent) : q = inbound[s]
    BY SideTypes
  <2>6. PICK a \in Assoc : a = assoc[s]
    BY SideTypes
  <2>7. SideOK(s, ap, out[s], q, drv[s], ready[s], a)
    BY <2>4, <2>5, <2>6, SideFacts, Zenon
  <2>8. ap2 = Answered(s, ap) /\ ap.pc = "sending"
    BY <1>1, <2>1, <2>4, Zenon
  <2>9. /\ ap2 \in AppState /\ ap2.got = ap.got
        /\ SideOK(s, ap2, out[s], q, drv[s], ready[s], a)
    BY <2>7, <2>8, AnsweredSide, Zenon
  <2>10. inbound' = [inbound EXCEPT ![s] = q]
    BY <1>3, <2>2, <2>5
  <2>11. reply' \in [Side -> {"none", "ok", "error"}]
    BY <1>3 DEF LinkInv, LinkTypeOK, ReadyOnceConnected
  <2>12. LinkInv'
    BY <1>1, <2>3, <2>6, <2>9, <2>10, <2>11, AppInv
  <2>13. Silent
    BY <1>1, <2>2, <2>3, <2>4, <2>9 DEF Silent
  <2> QED
    BY <2>12, <2>13
<1> QED
  BY <1>2, <1>3 DEF SendReturns

\* e is the first event of q, u are the others.
Taken(q, e, u) == q # <<>> /\ e = Head(q) /\ u = Tail(q)

\* The application of side s takes e.
Receiving(s, ap, o, q, d, rd, a, e, u) ==
    /\ ap \in AppState /\ q \in Seq(LinkEvent) /\ a \in Assoc
    /\ SideOK(s, ap, o, q, d, rd, a)
    /\ ap.pc = "idle"
    /\ Taken(q, e, u)

\* recv yields Connected.
LEMMA ConnectedSide ==
    ASSUME NEW s \in Side, NEW ap, NEW o, NEW q, NEW d, NEW rd, NEW a, NEW e, NEW u,
           Receiving(s, ap, o, q, d, rd, a, e, u), e.type = "Connected",
           NEW ap2, ap2 = Yielded(s, ap, e)
    PROVE  /\ ap2 \in AppState /\ ap2.got = ap.got /\ u \in Seq(LinkEvent)
           /\ SideOK(s, ap2, o, u, d, rd, a)
<1>1. /\ ap \in AppState /\ q \in Seq(LinkEvent) /\ a \in Assoc
       /\ SideOK(s, ap, o, q, d, rd, a) /\ ap.pc = "idle" /\ Taken(q, e, u)
  BY DEF Receiving
<1> USE <1>1
<1>2. /\ ap2 \in AppState /\ ap2.pc = "idle" /\ ap2.owed = ap.owed
      /\ ap2.connected = TRUE /\ ap2.got = ap.got
  <2>1. ap2 = [ap EXCEPT !.connected = TRUE]
    BY DEF Yielded
  <2> QED
    BY <2>1 DEF AppState
<1>3. PICK c \in 0 .. 1, m \in Nat : Placed(ap, q, d, a, c, m)
  BY DEF SideOK, QueueOK
<1>4. PICK l \in Nat : l = Len(ap.got)
  BY DEF AppState
<1>5. Split(q, l, c, m)
  BY <1>3, <1>4 DEF Placed
<1>6. u \in Seq(LinkEvent) /\ Len(u) = Len(q) - 1 /\ c = 1 /\ Split(u, l, 0, m)
  BY <1>5, SplitTailConnected DEF Taken
<1>7. a.state = "established"
  BY <1>3, <1>6 DEF Placed
<1>8. HandshakeOK(s, ap2, o, rd, a)
  BY <1>2, <1>7 DEF SideOK, HandshakeOK
<1>9. Alive(ap2, d, a) <=> Alive(ap, d, a)
  BY <1>2 DEF Alive
<1>10. Len(q) \in Nat
  OBVIOUS
<1>11. Placed(ap2, u, d, a, 0, m)
  <2>1. l + m <= a.read
    BY <1>3, <1>4 DEF Placed
  <2>2. Alive(ap, d, a) => 0 + m = Len(u) /\ l + m = a.read
    BY <1>3, <1>4, <1>6, <1>10 DEF Placed
  <2>3. ~Alive(ap, d, a) /\ ap.pc # "dropped" => 0 + m < Len(u)
    BY <1>3, <1>6, <1>10 DEF Placed
  <2> QED
    BY <1>2, <1>4, <1>6, <1>7, <1>9, <2>1, <2>2, <2>3 DEF Placed
<1>12. QueueOK(ap2, u, d, a)
  <2>1. 0 \in 0 .. 1
    OBVIOUS
  <2> QED
    BY <1>2, <1>11, <2>1 DEF SideOK, QueueOK
<1> QED
  BY <1>2, <1>6, <1>8, <1>12 DEF SideOK

\* recv yields the next message in order.
LEMMA MessageSide ==
    ASSUME NEW s \in Side, NEW ap, NEW o, NEW q, NEW d, NEW rd, NEW a, NEW e, NEW u,
           Receiving(s, ap, o, q, d, rd, a, e, u), e.type = "Message",
           NEW ap2, ap2 = Yielded(s, ap, e)
    PROVE  /\ ap2 \in AppState /\ u \in Seq(LinkEvent)
           /\ ap2.got = Append(ap.got, Len(ap.got) + 1) /\ Len(ap.got) < a.read
           /\ SideOK(s, ap2, o, u, d, rd, a)
<1>1. /\ ap \in AppState /\ q \in Seq(LinkEvent) /\ a \in Assoc
       /\ SideOK(s, ap, o, q, d, rd, a) /\ ap.pc = "idle" /\ Taken(q, e, u)
  BY DEF Receiving
<1> USE <1>1
<1>2. PICK c \in 0 .. 1, m \in Nat : Placed(ap, q, d, a, c, m)
  BY DEF SideOK, QueueOK
<1>3. PICK l \in Nat : l = Len(ap.got)
  BY DEF AppState
<1>4. Split(q, l, c, m)
  BY <1>2, <1>3 DEF Placed
<1>5. PICK k : k = m - 1
  OBVIOUS
<1>6. PICK l2 \in Nat : l2 = l + 1
  OBVIOUS
<1>7. /\ u \in Seq(LinkEvent) /\ Len(u) = Len(q) - 1 /\ c = 0 /\ m > 0
      /\ e.n = l2 /\ Split(u, l2, 0, k)
  BY <1>4, <1>5, <1>6, SplitTailMessage DEF Taken
<1>8. k \in Nat /\ l2 + k = l + m
  BY <1>5, <1>6, <1>7
<1>9. PICK g \in Seq(Nat) : g = Append(ap.got, l2) /\ Len(g) = l2
  <2>1. ap.got \in Seq(Nat)
    BY DEF AppState
  <2>2. Append(ap.got, l2) \in Seq(Nat) /\ Len(Append(ap.got, l2)) = l + 1
    BY <1>3, <2>1
  <2> QED
    BY <1>6, <2>2, Zenon
<1>10. PICK w \in Int : w = (IF s = "server" THEN ap.owed + 1 ELSE ap.owed)
  BY DEF AppState
<1>11. ap2 = [ap EXCEPT !.got = g, !.owed = w]
  BY <1>7, <1>9, <1>10 DEF Yielded
<1>12. /\ ap2 \in AppState /\ ap2.pc = "idle" /\ ap2.owed = w
       /\ ap2.connected = ap.connected /\ ap2.got = g
  BY <1>11 DEF AppState
<1>13. l + m <= a.read /\ a.state = "established" /\ a.read \in Nat
  BY <1>2, <1>3, <1>7 DEF Placed, Assoc
<1>14. l < a.read /\ a.read > 0
  BY <1>7, <1>13
<1>15. HandshakeOK(s, ap2, o, rd, a)
  BY <1>12, <1>13, <1>14 DEF SideOK, HandshakeOK
<1>16. Alive(ap2, d, a) <=> Alive(ap, d, a)
  BY <1>12 DEF Alive
<1>17. Placed(ap2, u, d, a, 0, k)
  <2>1. Len(q) \in Nat
    OBVIOUS
  <2>2. l2 + k <= a.read
    BY <1>8, <1>13
  <2>3. Alive(ap, d, a) => 0 + k = Len(u) /\ l2 + k = a.read
    <3> HAVE Alive(ap, d, a)
    <3>1. c + m = Len(q) /\ Len(ap.got) + m = a.read
      BY <1>2 DEF Placed
    <3>2. 0 + k = Len(u)
      BY <1>5, <1>7, <2>1, <3>1
    <3>3. l2 + k = a.read
      BY <1>3, <1>8, <3>1, Zenon
    <3> QED
      BY <3>2, <3>3
  <2>4. ~Alive(ap, d, a) /\ ap.pc # "dropped" => 0 + k < Len(u)
    BY <1>2, <1>5, <1>7, <2>1 DEF Placed
  <2> QED
    BY <1>7, <1>9, <1>12, <1>13, <1>16, <2>2, <2>3, <2>4 DEF Placed
<1>18. QueueOK(ap2, u, d, a)
  <2>1. 0 \in 0 .. 1
    OBVIOUS
  <2> QED
    BY <1>8, <1>12, <1>17, <2>1 DEF SideOK, QueueOK
<1>19. SideOK(s, ap2, o, u, d, rd, a)
  BY <1>15, <1>18 DEF SideOK
<1> QED
  BY <1>3, <1>6, <1>7, <1>9, <1>12, <1>14, <1>19

\* The step delivers the next message to side s and sends nothing.
Delivers(s) ==
    /\ Len(app[s].got) < assoc[Peer(s)].written
    /\ app'[s].got = Append(app[s].got, Len(app[s].got) + 1)
    /\ \A t \in Side \ {s} : app'[t].got = app[t].got
    /\ UNCHANGED assoc

\* recv preserves the invariant; it delivers at most the next message.
LEMMA RecvInv ==
    ASSUME LinkInv, NEW s \in Side, recv(s)
    PROVE  LinkInv' /\ (Silent \/ Delivers(s))
<1>1. /\ UNCHANGED <<out, drv, ready, assoc, net>>
      /\ app[s].pc = "idle" /\ inbound[s] # <<>>
  BY DEF recv
<1>2. app \in [Side -> AppState] /\ inbound \in [Side -> Seq(LinkEvent)]
  BY DEF LinkInv, LinkTypeOK
<1>3. PICK ap \in AppState : ap = app[s]
  BY SideTypes
<1>4. PICK q \in Seq(LinkEvent) : q = inbound[s]
  BY SideTypes
<1>5. PICK a \in Assoc : a = assoc[s]
  BY SideTypes
<1>6. SideOK(s, ap, out[s], q, drv[s], ready[s], a) /\ ap.pc = "idle"
  BY <1>1, <1>3, <1>4, <1>5, SideFacts, Zenon
<1>7. PICK e, u : Taken(q, e, u)
  BY <1>1, <1>4, Zenon DEF Taken
<1>8. Receiving(s, ap, out[s], q, drv[s], ready[s], a, e, u)
  BY <1>6, <1>7, Zenon DEF Receiving
<1>9. e.type \in {"Connected", "Message", "Lost"}
  <2>1. e \in LinkEvent
    BY <1>7 DEF Taken
  <2> QED
    BY <2>1 DEF LinkEvent
<1>10. CASE Return(s)
  BY <1>1, <1>10, ReturnInv
<1>11. CASE /\ e.type # "Lost"
           /\ app' = [app EXCEPT ![s] = Yielded(s, @, e)]
           /\ inbound' = [inbound EXCEPT ![s] = u]
           /\ UNCHANGED reply
  <2>1. reply' \in [Side -> {"none", "ok", "error"}]
    BY <1>11 DEF LinkInv, LinkTypeOK, ReadyOnceConnected
  <2>2. CASE e.type = "Connected"
    <3>1. PICK ap2 : ap2 = Yielded(s, ap, e)
      OBVIOUS
    <3>2. app' = [app EXCEPT ![s] = ap2]
      BY <1>3, <1>11, <3>1
    <3>3. /\ ap2 \in AppState /\ ap2.got = ap.got /\ u \in Seq(LinkEvent)
          /\ SideOK(s, ap2, out[s], u, drv[s], ready[s], a)
      BY <1>8, <2>2, <3>1, ConnectedSide
    <3>4. LinkInv'
      BY <1>1, <1>5, <1>11, <2>1, <3>2, <3>3, AppInv
    <3>5. Silent
      BY <1>1, <1>2, <1>3, <3>2, <3>3 DEF Silent
    <3> QED
      BY <3>4, <3>5
  <2>3. CASE e.type = "Message"
    <3>1. PICK ap2 : ap2 = Yielded(s, ap, e)
      OBVIOUS
    <3>2. app' = [app EXCEPT ![s] = ap2]
      BY <1>3, <1>11, <3>1
    <3>3. /\ ap2 \in AppState /\ u \in Seq(LinkEvent)
          /\ ap2.got = Append(ap.got, Len(ap.got) + 1) /\ Len(ap.got) < a.read
          /\ SideOK(s, ap2, out[s], u, drv[s], ready[s], a)
      BY <1>8, <2>3, <3>1, MessageSide
    <3>4. LinkInv'
      BY <1>1, <1>5, <1>11, <2>1, <3>2, <3>3, AppInv
    <3>5. Len(app[s].got) < assoc[Peer(s)].written
      <4>1. a.read <= a.cum
        BY <1>6 DEF SideOK, QueueOK
      <4>2. a.read \in Nat /\ a.cum \in Nat /\ Len(ap.got) \in Nat
        BY DEF Assoc, AppState
      <4>3. PICK W \in Nat : W = assoc[Peer(s)].written /\ a.cum <= W
        BY <1>5, SideFacts
      <4>4. Len(ap.got) < W
        BY <3>3, <4>1, <4>2, <4>3
      <4> QED
        BY <1>3, <4>3, <4>4, Zenon
    <3>6. app'[s] = ap2 /\ \A t \in Side \ {s} : app'[t] = app[t]
      BY <1>2, <3>2
    <3>7. Delivers(s)
      BY <1>1, <1>3, <3>3, <3>5, <3>6, Zenon DEF Delivers
    <3> QED
      BY <3>4, <3>7
  <2> QED
    BY <1>11, <1>9, <2>2, <2>3
<1> QED
  BY <1>4, <1>7, <1>10, <1>11, Zenon DEF recv, Taken

\* Drop preserves the invariant.
LEMMA DropInv ==
    ASSUME LinkInv, NEW s \in Side, Drop(s)
    PROVE  LinkInv' /\ Silent
BY ReturnInv DEF Drop

\* A pump changes nothing an application has.
LEMMA PumpSilent ==
    ASSUME UNCHANGED app, \A t \in Side : assoc'[t].written = assoc[t].written
    PROVE  Silent
BY DEF Silent

\* PumpPending preserves the invariant.
LEMMA PumpPendingInv ==
    ASSUME LinkInv, NEW s \in Side, PumpPending(s)
    PROVE  LinkInv' /\ Silent
<1>1. /\ drv[s] = "pump" /\ Pump(s, assoc[s], net) /\ UNCHANGED <<app, out, reply>>
  BY DEF PumpPending
<1>2. PICK b \in Assoc : b = assoc[s]
  BY SideTypes
<1>3. SideOK(s, app[s], out[s], inbound[s], drv[s], ready[s], b)
  BY <1>2, SideFacts
<1>4. Stimulated(s, b, b)
  BY <1>3, Untouched
<1>5. b.cum <= assoc[Peer(s)].written /\ b.buf \subseteq 1 .. assoc[Peer(s)].written
  BY <1>2, SideFacts
<1>6. LinkInv' /\ \A t \in Side : assoc'[t].written = assoc[t].written
  BY <1>1, <1>2, <1>4, <1>5, PumpInv
<1> QED
  BY <1>1, <1>6, PumpSilent

\* DriveDatagram preserves the invariant.
LEMMA DriveDatagramInv ==
    ASSUME LinkInv, NEW p \in net, DriveDatagram(p.to, p)
    PROVE  LinkInv' /\ Silent
<1>1. PICK s \in Side : s = p.to
  BY DEF LinkInv, LinkTypeOK, Datagram
<1>2. PICK a : a = handle_event(s, assoc[s], p)
  OBVIOUS
<1>3. PICK left : left = net \ {p}
  OBVIOUS
<1>4. drv[s] = "select" /\ Pump(s, a, left) /\ UNCHANGED <<app, out, reply>>
  BY <1>1, <1>2, <1>3, Zenon DEF DriveDatagram
<1>5. left \subseteq net
  BY <1>3
<1>6. /\ Stimulated(s, assoc[s], a)
      /\ a.cum <= assoc[Peer(s)].written
      /\ a.buf \subseteq 1 .. assoc[Peer(s)].written
  BY <1>1, <1>2, DatagramStimulates
<1>7. LinkInv' /\ \A t \in Side : assoc'[t].written = assoc[t].written
  BY <1>4, <1>5, <1>6, PumpInv
<1> QED
  BY <1>4, <1>7, PumpSilent

\* DriveTimer preserves the invariant.
LEMMA DriveTimerInv ==
    ASSUME LinkInv, NEW s \in Side, DriveTimer(s)
    PROVE  LinkInv' /\ Silent
<1>1. PICK a \in handle_timeout(s, assoc[s]) : Pump(s, a, net)
  BY DEF DriveTimer
<1>2. drv[s] = "select" /\ HasDeadline(assoc[s]) /\ UNCHANGED <<app, out, reply>>
  BY DEF DriveTimer
<1>3. /\ Stimulated(s, assoc[s], a)
      /\ a.cum <= assoc[Peer(s)].written
      /\ a.buf \subseteq 1 .. assoc[Peer(s)].written
  BY <1>2, TimeoutStimulates
<1>4. LinkInv' /\ \A t \in Side : assoc'[t].written = assoc[t].written
  BY <1>1, <1>2, <1>3, PumpInv
<1> QED
  BY <1>2, <1>4, PumpSilent

\* The step sends the next message of side s and delivers nothing.
Sends(s) ==
    /\ assoc'[s].written = assoc[s].written + 1
    /\ \A t \in Side \ {s} : assoc'[t].written = assoc[t].written
    /\ UNCHANGED app

\* The driver writes what the application has put into the channel.
LEMMA WriteSide ==
    ASSUME NEW s \in Side, NEW ap, NEW o, NEW q, NEW d, NEW rd, NEW b \in Assoc,
           SideOK(s, ap, o, q, d, rd, b), o, d = "select", NEW a, a = Write(s, b),
           NEW o2, ~o2, NEW d2, d2 = "pump"
    PROVE  /\ a \in Assoc /\ a.written = b.written + 1
           /\ a.cum = b.cum /\ a.buf = b.buf
           /\ SideOK(s, ap, o2, q, d2, rd, a)
<1>1. b.written \in Nat /\ b.tx = {}
  BY DEF SideOK, DriverOK, Assoc
<1>2. PICK w \in Nat : w = b.written + 1
  BY <1>1
<1>3. PICK p : p = Packet(Peer(s), "DATA", w)
  OBVIOUS
<1>4. p \in Datagram /\ p.to = Peer(s) /\ p.n = w
  BY <1>3, Peers DEF Packet, Datagram
<1>5. PICK T \in SUBSET Datagram : T = b.tx \cup {p} /\ T = {p}
  BY <1>1, <1>4
<1>6. a = [b EXCEPT !.written = w, !.tx = T]
  BY <1>2, <1>3, <1>5 DEF Write
<1>7. /\ a \in Assoc /\ a.written = w /\ a.tx = T
      /\ a.state = b.state /\ a.drained = b.drained /\ a.stream = b.stream
      /\ a.events = b.events /\ a.cum = b.cum /\ a.buf = b.buf /\ a.read = b.read
  BY <1>6 DEF Assoc
<1>8. HandshakeOK(s, ap, o2, rd, a)
  BY <1>7 DEF SideOK, HandshakeOK
<1>9. DriverOK(s, d2, a)
  <2>1. w \in 1 .. w
    BY <1>1, <1>2
  <2>2. \A x \in a.tx : x.to = Peer(s) /\ x.n \in 1 .. a.written
    BY <1>4, <1>5, <1>7, <2>1
  <2>3. a.events = <<>>
    BY <1>7 DEF SideOK, DriverOK
  <2> QED
    BY <2>2, <2>3 DEF DriverOK
<1>10. QueueOK(ap, q, d2, a)
  <2>1. PICK c \in 0 .. 1, m \in Nat : Placed(ap, q, d, b, c, m)
    BY DEF SideOK, QueueOK
  <2>2. Alive(ap, d2, a) <=> Alive(ap, d, b)
    BY <1>7 DEF Alive
  <2>3. Placed(ap, q, d2, a, c, m)
    BY <1>7, <2>1, <2>2 DEF Placed
  <2> QED
    BY <1>7, <2>3 DEF SideOK, QueueOK
<1> QED
  BY <1>2, <1>7, <1>8, <1>9, <1>10 DEF SideOK

\* DriveOutbound preserves the invariant: the send it finds in the channel
\* never fails, because none is made before the association is up.
LEMMA DriveOutboundInv ==
    ASSUME LinkInv, NEW s \in Side, DriveOutbound(s)
    PROVE  LinkInv' /\ Sends(s)
<1>1. PICK b \in Assoc : b = assoc[s]
  BY SideTypes
<1>2. out[s] = TRUE /\ drv[s] = "select"
  BY SideTypes DEF DriveOutbound
<1>3. SideOK(s, app[s], out[s], inbound[s], drv[s], ready[s], b)
  BY <1>1, SideFacts
<1>4. b.state = "established" /\ ready[s]
  BY <1>2, <1>3 DEF SideOK, HandshakeOK
<1>5. PICK a : a = Write(s, b)
  OBVIOUS
<1>6. PICK r \in {"none", "ok"} : reply' = [reply EXCEPT ![s] = r]
  BY <1>1, <1>4 DEF DriveOutbound
<1>7. PICK o2 \in BOOLEAN, d2 \in {"pump"} : ~o2
  OBVIOUS
<1>8. /\ out' = [out EXCEPT ![s] = o2]
      /\ assoc' = [assoc EXCEPT ![s] = a]
      /\ drv' = [drv EXCEPT ![s] = d2]
      /\ UNCHANGED <<app, inbound, ready, net>>
  BY <1>1, <1>4, <1>5, <1>7 DEF DriveOutbound
<1>9. /\ a \in Assoc /\ a.written = b.written + 1
      /\ a.cum = b.cum /\ a.buf = b.buf
      /\ SideOK(s, app[s], o2, inbound[s], d2, ready[s], a)
  BY <1>2, <1>3, <1>5, <1>7, WriteSide
<1>10. LinkTypeOK'
  BY <1>6, <1>8, <1>9 DEF LinkInv, LinkTypeOK
<1>11. /\ out'[s] = o2 /\ assoc'[s] = a /\ drv'[s] = d2
       /\ \A t \in Side \ {s} : out'[t] = out[t] /\ assoc'[t] = assoc[t] /\ drv'[t] = drv[t]
  BY <1>8 DEF LinkInv, LinkTypeOK
<1>12. Sides'
  BY <1>8, <1>9, <1>11, OneSide
<1>13. \A t \in Side : /\ assoc[t].written \in Nat /\ assoc'[t].written \in Nat
                       /\ assoc[t].written <= assoc'[t].written
                       /\ assoc'[t].cum = assoc[t].cum /\ assoc'[t].buf = assoc[t].buf
  <2> TAKE t \in Side
  <2>1. assoc[t].written \in Nat /\ b.written \in Nat
    BY <1>1, SideTypes DEF Assoc
  <2>2. CASE t = s
    BY <1>1, <1>9, <1>11, <2>1, <2>2
  <2>3. CASE t # s
    BY <1>11, <2>1, <2>3
  <2> QED
    BY <2>2, <2>3
<1>14. NothingInvented'
  <2>1. ASSUME NEW t \in Side
        PROVE  /\ assoc'[t].cum <= assoc'[Peer(t)].written
               /\ assoc'[t].buf \subseteq 1 .. assoc'[Peer(t)].written
    <3>1. PICK W \in Nat, V \in Nat :
             W = assoc[Peer(t)].written /\ V = assoc'[Peer(t)].written /\ W <= V
      BY <1>13, Peers
    <3>2. assoc[t].cum <= W /\ assoc[t].buf \subseteq 1 .. W /\ assoc[t].cum \in Nat
      BY <3>1, SideFacts DEF Assoc
    <3>3. assoc[t].cum <= V /\ 1 .. W \subseteq 1 .. V
      BY <3>1, <3>2
    <3> QED
      BY <1>13, <3>1, <3>2, <3>3
  <2>2. ASSUME NEW p \in net, p.type = "DATA"
        PROVE  p.n \in 1 .. assoc'[Peer(p.to)].written
    <3>1. p.to \in Side
      BY DEF LinkInv, LinkTypeOK, Datagram
    <3>2. PICK W \in Nat, V \in Nat :
             W = assoc[Peer(p.to)].written /\ V = assoc'[Peer(p.to)].written /\ W <= V
      BY <1>13, <3>1, Peers
    <3>3. p.n \in 1 .. W
      BY <2>2, <3>2 DEF LinkInv, NothingInvented
    <3>4. p.n \in 1 .. V
      BY <3>2, <3>3
    <3> QED
      BY <3>2, <3>4
  <2> QED
    BY <1>8, <2>1, <2>2 DEF NothingInvented
<1>15. ReadyOnceConnected'
  BY <1>6 DEF LinkInv, LinkTypeOK, ReadyOnceConnected
<1>16. Sends(s)
  BY <1>1, <1>8, <1>9, <1>11 DEF Sends
<1> QED
  BY <1>10, <1>12, <1>14, <1>15, <1>16 DEF LinkInv

\* A driver that exits has told the application, or has none.
LEMMA ExitSide ==
    ASSUME NEW s \in Side, NEW ap \in AppState, NEW o, NEW q \in Seq(LinkEvent),
           NEW d, NEW rd, NEW a \in Assoc, SideOK(s, ap, o, q, d, rd, a), d = "select",
           NEW d2, d2 = "exited",
           NEW q2,
           \/ q2 = q /\ ap.pc = "dropped"
           \/ q2 = Append(q, Lost) /\ ap.pc # "dropped"
    PROVE  q2 \in Seq(LinkEvent) /\ SideOK(s, ap, o, q2, d2, rd, a)
<1>1. PICK c \in 0 .. 1, m \in Nat : Placed(ap, q, d, a, c, m)
  BY DEF SideOK, QueueOK
<1>2. PICK l \in Nat : l = Len(ap.got)
  BY DEF AppState
<1>3. Split(q, l, c, m)
  BY <1>1, <1>2 DEF Placed
<1>4. ~Alive(ap, d2, a)
  BY DEF Alive
<1>5. /\ q2 \in Seq(LinkEvent) /\ Split(q2, l, c, m)
      /\ ap.pc # "dropped" => c + m < Len(q2)
  <2>1. CASE q2 = q /\ ap.pc = "dropped"
    BY <1>3, <2>1
  <2>2. CASE q2 = Append(q, Lost) /\ ap.pc # "dropped"
    <3>1. q2 \in Seq(LinkEvent) /\ Len(q2) = Len(q) + 1 /\ Split(q2, l, c, m)
      BY <1>3, <2>2, SplitLost
    <3>2. c + m <= Len(q) /\ Len(q) \in Nat
      BY <1>3 DEF Split
    <3> QED
      BY <3>1, <3>2
  <2> QED
    BY <2>1, <2>2
<1>6. Placed(ap, q2, d2, a, c, m)
  BY <1>1, <1>2, <1>4, <1>5 DEF Placed
<1>7. QueueOK(ap, q2, d2, a)
  <2>1. ap.pc = "dropped" => q2 = <<>>
    BY DEF SideOK, QueueOK
  <2> QED
    BY <1>6, <2>1 DEF SideOK, QueueOK
<1>8. DriverOK(s, d2, a)
  BY DEF SideOK, DriverOK
<1> QED
  BY <1>5, <1>7, <1>8 DEF SideOK

\* The exit of a driver, whatever the reason.
LEMMA ExitInv ==
    ASSUME LinkInv, NEW s \in Side, drv[s] = "select", NEW q2,
           \/ q2 = inbound[s] /\ app[s].pc = "dropped"
           \/ q2 = Append(inbound[s], Lost) /\ app[s].pc # "dropped",
           inbound' = [inbound EXCEPT ![s] = q2],
           drv' = [drv EXCEPT ![s] = "exited"],
           UNCHANGED <<app, out, reply, ready, assoc, net>>
    PROVE  LinkInv' /\ Silent
<1>1. PICK d2 \in {"exited"} : TRUE
  OBVIOUS
<1>2. q2 \in Seq(LinkEvent) /\ SideOK(s, app[s], out[s], q2, d2, ready[s], assoc[s])
  <2>1. PICK ap \in AppState : ap = app[s]
    BY SideTypes
  <2>2. PICK q \in Seq(LinkEvent) : q = inbound[s]
    BY SideTypes
  <2>3. PICK a \in Assoc : a = assoc[s]
    BY SideTypes
  <2>4. SideOK(s, ap, out[s], q, drv[s], ready[s], a)
    BY <2>1, <2>2, <2>3, SideFacts, Zenon
  <2>5. \/ q2 = q /\ ap.pc = "dropped"
        \/ q2 = Append(q, Lost) /\ ap.pc # "dropped"
    BY <2>1, <2>2, Zenon
  <2>6. q2 \in Seq(LinkEvent) /\ SideOK(s, ap, out[s], q2, d2, ready[s], a)
    BY <1>1, <2>4, <2>5, ExitSide
  <2> QED
    BY <2>1, <2>3, <2>6, Zenon
<1>3. drv' = [drv EXCEPT ![s] = d2]
  BY <1>1
<1>4. LinkTypeOK'
  BY <1>2, <1>3 DEF LinkInv, LinkTypeOK
<1>5. /\ inbound'[s] = q2 /\ drv'[s] = d2
      /\ \A t \in Side \ {s} : inbound'[t] = inbound[t] /\ drv'[t] = drv[t]
  BY <1>3 DEF LinkInv, LinkTypeOK
<1>6. Sides'
  BY <1>2, <1>5, OneSide
<1>7. NothingInvented'
  BY SameAssociations
<1>8. ReadyOnceConnected'
  BY DEF LinkInv, ReadyOnceConnected
<1>9. Silent
  BY DEF Silent
<1> QED
  BY <1>4, <1>6, <1>7, <1>8, <1>9 DEF LinkInv

\* DriveClosed preserves the invariant.
LEMMA DriveClosedInv ==
    ASSUME LinkInv, NEW s \in Side, DriveClosed(s)
    PROVE  LinkInv' /\ Silent
<1>1. /\ drv[s] = "select" /\ app[s].pc = "dropped"
      /\ drv' = [drv EXCEPT ![s] = "exited"]
      /\ UNCHANGED <<app, out, reply, inbound, ready, assoc, net>>
  BY DEF DriveClosed
<1>2. PICK q2 : q2 = inbound[s]
  OBVIOUS
<1>3. inbound' = [inbound EXCEPT ![s] = q2]
  BY <1>1, <1>2 DEF LinkInv, LinkTypeOK
<1> QED
  BY <1>1, <1>2, <1>3, ExitInv

\* DriveSocketError preserves the invariant.
LEMMA DriveSocketErrorInv ==
    ASSUME LinkInv, NEW s \in Side, DriveSocketError(s)
    PROVE  LinkInv' /\ Silent
<1>1. PICK q2 : q2 = Append(inbound[s], Lost)
  OBVIOUS
<1>2. /\ drv[s] = "select" /\ app[s].pc # "dropped"
      /\ inbound' = [inbound EXCEPT ![s] = q2]
      /\ drv' = [drv EXCEPT ![s] = "exited"]
      /\ UNCHANGED <<app, out, reply, ready, assoc, net>>
  BY <1>1, Zenon DEF DriveSocketError
<1> QED
  BY <1>1, <1>2, ExitInv

\* Lose preserves the invariant.
LEMMA LoseInv ==
    ASSUME LinkInv, NEW p \in net, Lose(p)
    PROVE  LinkInv' /\ Silent
<1>1. net' \subseteq net /\ UNCHANGED <<app, out, reply, inbound, drv, ready, assoc>>
  BY DEF Lose
<1>2. LinkTypeOK'
  BY <1>1 DEF LinkInv, LinkTypeOK
<1>3. Sides'
  BY <1>1 DEF LinkInv, Sides
<1>4. NothingInvented'
  BY <1>1, SameAssociations
<1>5. ReadyOnceConnected'
  BY <1>1 DEF LinkInv, ReadyOnceConnected
<1>6. Silent
  BY <1>1 DEF Silent
<1> QED
  BY <1>2, <1>3, <1>4, <1>5, <1>6 DEF LinkInv

\* What an association is when it is made.
Fresh(a, state, T) ==
    /\ a \in Assoc /\ a.state = state /\ a.tx = T /\ a.events = <<>>
    /\ ~a.drained /\ ~a.stream
    /\ a.written = 0 /\ a.cum = 0 /\ a.read = 0 /\ a.buf = {}

\* The packets of T are for the peer of s and carry no data.
Greets(s, T) == \A p \in T : p.to = Peer(s) /\ p.type # "DATA"

\* A new association.
LEMMA NewAssociation ==
    ASSUME NEW state \in AssocState, NEW T \in SUBSET Datagram,
           NEW a, a = Association(state, T)
    PROVE  Fresh(a, state, T)
<1>1. PICK zero \in Nat : zero = 0
  OBVIOUS
<1>2. PICK e \in Seq({"Connected", "Readable", "Lost"}) : e = <<>>
  BY EmptyEvents, Zenon
<1>3. PICK B \in SUBSET Nat : B = {}
  OBVIOUS
<1>4. PICK f \in BOOLEAN : f = FALSE
  OBVIOUS
<1>5. a = [state |-> state, drained |-> f, stream |-> f, events |-> e,
           tx |-> T, retries |-> zero, written |-> zero, acked |-> zero,
           cum |-> zero, buf |-> B, read |-> zero]
  BY <1>1, <1>2, <1>3, <1>4, Zenon DEF Association
<1>6. /\ a \in Assoc /\ a.state = state /\ a.tx = T /\ a.events = e
      /\ a.drained = f /\ a.stream = f
      /\ a.written = zero /\ a.cum = zero /\ a.read = zero /\ a.buf = B
  BY <1>5 DEF Assoc
<1> QED
  BY <1>1, <1>2, <1>3, <1>4, <1>6, Zenon DEF Fresh

\* The first INIT makes the server's association.
LEMMA AcceptSide ==
    ASSUME NEW s \in Side, s = "server", NEW ap \in AppState, NEW o,
           NEW q \in Seq(LinkEvent), NEW d, NEW rd, NEW b \in Assoc,
           SideOK(s, ap, o, q, d, rd, b), d = "accept", NEW d2, d2 = "pump",
           NEW T, Greets(s, T), NEW a, NEW state, state = "listen", Fresh(a, state, T)
    PROVE  b.written = 0 /\ SideOK(s, ap, o, q, d2, rd, a)
<1>1. /\ a \in Assoc /\ a.state = "listen" /\ a.tx = T /\ a.events = <<>>
      /\ ~a.drained /\ ~a.stream
      /\ a.written = 0 /\ a.cum = 0 /\ a.read = 0
      /\ \A p \in T : p.to = Peer(s) /\ p.type # "DATA"
  BY DEF Fresh, Greets
<1> USE <1>1
<1>2. /\ b.state = "none" /\ ~rd /\ ~ap.connected /\ ~o
      /\ b.cum = 0 /\ b.written = 0
  BY DEF SideOK, DriverOK, HandshakeOK
<1>3. b.read = 0
  <2>1. b.read <= b.cum /\ b.read \in Nat
    BY DEF SideOK, QueueOK, Assoc
  <2> QED
    BY <1>2, <2>1
<1>4. ~(ap.owed > 0)
  BY <1>3 DEF SideOK, HandshakeOK
<1>5. HandshakeOK(s, ap, o, rd, a)
  BY <1>2, <1>4 DEF HandshakeOK
<1>6. DriverOK(s, d2, a)
  BY DEF DriverOK
<1>7. QueueOK(ap, q, d2, a)
  <2>1. PICK c \in 0 .. 1, m \in Nat : Placed(ap, q, d, b, c, m)
    BY DEF SideOK, QueueOK
  <2>2. Alive(ap, d2, a) <=> Alive(ap, d, b)
    BY <1>2 DEF Alive
  <2>3. a.read = b.read
    BY <1>3
  <2>4. ~(c > 0 \/ m > 0)
    BY <1>2, <2>1 DEF Placed
  <2>5. Placed(ap, q, d2, a, c, m)
    BY <2>1, <2>2, <2>3, <2>4 DEF Placed
  <2>6. a.read <= a.cum
    OBVIOUS
  <2> QED
    BY <2>5, <2>6 DEF SideOK, QueueOK
<1> QED
  BY <1>2, <1>5, <1>6, <1>7 DEF SideOK

\* accept preserves the invariant.
LEMMA AcceptInv ==
    ASSUME LinkInv, NEW p \in net, accept(p)
    PROVE  LinkInv' /\ Silent
<1>1. /\ net' = net \ {p} /\ UNCHANGED <<app, out, reply, inbound, ready>>
      /\ drv["server"] = "accept"
  BY DEF accept
<1>2. CASE UNCHANGED <<assoc, drv>>
  <2>1. net' \subseteq net
    BY <1>1
  <2>2. LinkTypeOK'
    BY <1>1, <1>2, <2>1 DEF LinkInv, LinkTypeOK
  <2>3. Sides'
    BY <1>1, <1>2 DEF LinkInv, Sides
  <2>4. NothingInvented'
    BY <1>2, <2>1, SameAssociations
  <2>5. ReadyOnceConnected'
    BY <1>1 DEF LinkInv, ReadyOnceConnected
  <2>6. Silent
    BY <1>1, <1>2 DEF Silent
  <2> QED
    BY <2>2, <2>3, <2>4, <2>5, <2>6 DEF LinkInv
<1>3. CASE /\ assoc' = [assoc EXCEPT !["server"] =
                            Association("listen", {Packet("client", "INIT_ACK", 0)})]
           /\ drv' = [drv EXCEPT !["server"] = "pump"]
  <2>1. PICK s \in Side : s = "server" /\ Peer(s) = "client"
    BY DEF Side, Peer
  <2>2. PICK T \in SUBSET Datagram :
           /\ T = {Packet("client", "INIT_ACK", 0)}
           /\ Greets(s, T)
    <3>1. PICK x : x = Packet("client", "INIT_ACK", 0)
      OBVIOUS
    <3>2. x \in Datagram /\ x.to = "client" /\ x.type = "INIT_ACK"
      BY <3>1 DEF Packet, Datagram, Side
    <3>3. {x} \in SUBSET Datagram /\ Greets(s, {x})
      BY <2>1, <3>2 DEF Greets
    <3> QED
      BY <3>1, <3>3, Zenon
  <2>3. PICK state \in AssocState : state = "listen"
    BY DEF AssocState
  <2>4. PICK a : a = Association(state, T)
    OBVIOUS
  <2>5. Fresh(a, state, T)
    BY <2>4, NewAssociation
  <2>6. a \in Assoc /\ a.written = 0 /\ a.cum = 0 /\ a.buf = {}
    BY <2>5 DEF Fresh
  <2>7. PICK d2 \in {"pump"} : TRUE
    OBVIOUS
  <2>8. /\ assoc' = [assoc EXCEPT ![s] = a]
        /\ drv' = [drv EXCEPT ![s] = d2]
    BY <1>3, <2>1, <2>2, <2>4, <2>7, <2>3
  <2>9. assoc[s].written = 0 /\ SideOK(s, app[s], out[s], inbound[s], d2, ready[s], a)
    <3>1. PICK ap \in AppState : ap = app[s]
      BY SideTypes
    <3>2. PICK q \in Seq(LinkEvent) : q = inbound[s]
      BY SideTypes
    <3>3. PICK b \in Assoc : b = assoc[s]
      BY SideTypes
    <3>4. PICK d : d = drv[s]
      OBVIOUS
    <3>5. SideOK(s, ap, out[s], q, d, ready[s], b)
      BY <3>1, <3>2, <3>3, <3>4, SideFacts, Zenon
    <3>6. d = "accept" /\ d2 = "pump" /\ s = "server" /\ Greets(s, T)
      BY <1>1, <2>1, <2>2, <2>7, <3>4
    <3>7. b.written = 0 /\ SideOK(s, ap, out[s], q, d2, ready[s], a)
      BY <2>3, <2>5, <3>5, <3>6, AcceptSide
    <3> QED
      BY <3>1, <3>2, <3>3, <3>7, Zenon
  <2>10. LinkTypeOK'
    BY <1>1, <2>6, <2>8 DEF LinkInv, LinkTypeOK
  <2>11. /\ assoc'[s] = a /\ drv'[s] = d2
        /\ \A t \in Side \ {s} : assoc'[t] = assoc[t] /\ drv'[t] = drv[t]
    BY <2>8 DEF LinkInv, LinkTypeOK
  <2>12. Sides'
    BY <1>1, <2>9, <2>11, OneSide
  <2>13. \A t \in Side : assoc'[t].written = assoc[t].written
    BY <2>6, <2>9, <2>11
  <2>14. NothingInvented'
    <3>1. ASSUME NEW t \in Side
          PROVE  /\ assoc'[t].cum <= assoc'[Peer(t)].written
                 /\ assoc'[t].buf \subseteq 1 .. assoc'[Peer(t)].written
      <4>1. PICK W \in Nat : W = assoc[Peer(t)].written /\ W = assoc'[Peer(t)].written
        BY <2>13, SideFacts, Peers
      <4>2. CASE t = s
        BY <2>6, <2>11, <4>1, <4>2
      <4>3. CASE t # s
        BY <2>11, <4>1, <4>3, SideFacts
      <4> QED
        BY <4>2, <4>3
    <3>2. ASSUME NEW x \in net', x.type = "DATA"
          PROVE  x.n \in 1 .. assoc'[Peer(x.to)].written
      <4>1. x \in net
        BY <1>1
      <4>2. Peer(x.to) \in Side
        BY <4>1, Peers DEF LinkInv, LinkTypeOK, Datagram
      <4> QED
        BY <2>13, <3>2, <4>1, <4>2 DEF LinkInv, NothingInvented
    <3> QED
      BY <3>1, <3>2 DEF NothingInvented
  <2>15. ReadyOnceConnected'
    BY <1>1 DEF LinkInv, ReadyOnceConnected
  <2>16. Silent
    BY <1>1, <2>13 DEF Silent
  <2> QED
    BY <2>10, <2>12, <2>14, <2>15, <2>16 DEF LinkInv
<1> QED
  BY <1>2, <1>3 DEF accept

-----------------------------------------------------------------------------
(* The invariant.                                                          *)

\* A side as it starts: the client with its INIT to send, the server waiting.
LEMMA InitSide ==
    ASSUME NEW s \in Side, NEW ap \in AppState,
           ap.pc = "idle", ~ap.connected, Len(ap.got) = 0, ap.owed = 0,
           NEW o, ~o, NEW q \in Seq(LinkEvent), Len(q) = 0,
           NEW d, NEW rd, ~rd, NEW a, NEW state, NEW T, Fresh(a, state, T), Greets(s, T),
           \/ s = "client" /\ state = "cookie_wait" /\ d = "pump"
           \/ s = "server" /\ state = "none" /\ d = "accept" /\ T = {}
    PROVE  SideOK(s, ap, o, q, d, rd, a)
<1>1. /\ a \in Assoc /\ a.state = state /\ a.tx = T /\ a.events = <<>>
      /\ ~a.drained /\ ~a.stream
      /\ a.written = 0 /\ a.cum = 0 /\ a.read = 0
  BY DEF Fresh
<1>2. HandshakeOK(s, ap, o, rd, a)
  BY <1>1 DEF HandshakeOK
<1>3. DriverOK(s, d, a)
  BY <1>1 DEF DriverOK, Greets
<1>4. QueueOK(ap, q, d, a)
  <2>1. Split(q, Len(ap.got), 0, 0)
    BY DEF Split
  <2>2. Alive(ap, d, a)
    BY <1>1 DEF Alive
  <2>3. Placed(ap, q, d, a, 0, 0)
    BY <1>1, <2>1, <2>2 DEF Placed
  <2>4. ap.pc # "dropped" /\ a.read <= a.cum /\ 0 \in 0 .. 1 /\ 0 \in Nat
    BY <1>1
  <2> QED
    BY <2>3, <2>4 DEF QueueOK
<1> QED
  BY <1>2, <1>3, <1>4 DEF SideOK

\* The application, the queue and the associations as they start.
LEMMA InitValues ==
    ASSUME LinkInit, NEW s \in Side
    PROVE  /\ app[s] \in AppState /\ app[s].pc = "idle" /\ ~app[s].connected
           /\ app[s].got = <<>> /\ Len(app[s].got) = 0 /\ app[s].owed = 0
           /\ inbound[s] \in Seq(LinkEvent) /\ Len(inbound[s]) = 0
           /\ drv[s] = (IF s = "client" THEN "pump" ELSE "accept")
           /\ ~out[s] /\ ~ready[s] /\ reply[s] = "none"
           /\ \E state \in AssocState, T \in SUBSET Datagram :
                 /\ Fresh(assoc[s], state, T) /\ Greets(s, T)
                 /\ IF s = "client" THEN state = "cookie_wait"
                    ELSE state = "none" /\ T = {}
<1>1. PICK z \in Int : z = 0
  OBVIOUS
<1>2. PICK g \in Seq(Nat) : g = <<>> /\ Len(g) = 0
  <2>1. <<>> \in Seq(Nat) /\ Len(<<>>) = 0
    OBVIOUS
  <2> QED
    BY <2>1, Zenon
<1>3. PICK q \in Seq(LinkEvent) : q = <<>> /\ Len(q) = 0
  <2>1. Len(<<>>) = 0
    OBVIOUS
  <2> QED
    BY <2>1, EmptyQueue, Zenon
<1>4. PICK f \in BOOLEAN : f = FALSE
  OBVIOUS
<1>5. PICK ap : ap = [pc |-> "idle", connected |-> f, got |-> g, owed |-> z]
  OBVIOUS
<1>6. ap \in AppState /\ ap.pc = "idle" /\ ap.connected = f /\ ap.got = g /\ ap.owed = z
  BY <1>5 DEF AppState
<1>7. app[s] = ap
  BY <1>1, <1>2, <1>4, <1>5, Zenon DEF LinkInit
<1>8. inbound[s] = q
  BY <1>3, Zenon DEF LinkInit
<1>9. /\ drv[s] = (IF s = "client" THEN "pump" ELSE "accept")
      /\ ~out[s] /\ ~ready[s] /\ reply[s] = "none"
  BY DEF LinkInit
<1>10. \E state \in AssocState, T \in SUBSET Datagram :
          /\ Fresh(assoc[s], state, T) /\ Greets(s, T)
          /\ IF s = "client" THEN state = "cookie_wait" ELSE state = "none" /\ T = {}
  <2>1. CASE s = "client"
    <3>1. PICK x : x = Packet("server", "INIT", 0)
      OBVIOUS
    <3>2. x \in Datagram /\ x.to = "server" /\ x.type = "INIT"
      BY <3>1 DEF Packet, Datagram, Side
    <3>3. PICK T \in SUBSET Datagram : T = {x}
      BY <3>2
    <3>4. Greets(s, T)
      BY <2>1, <3>2, <3>3 DEF Greets, Peer
    <3>5. PICK state \in AssocState : state = "cookie_wait"
      BY DEF AssocState
    <3>6. assoc[s] = Association(state, T)
      BY <2>1, <3>1, <3>3, <3>5, Zenon DEF LinkInit
    <3>7. Fresh(assoc[s], state, T)
      BY <3>6, NewAssociation
    <3> QED
      BY <2>1, <3>4, <3>5, <3>7
  <2>2. CASE s # "client"
    <3>1. PICK T \in SUBSET Datagram : T = {}
      OBVIOUS
    <3>2. Greets(s, T)
      BY <3>1 DEF Greets
    <3>3. PICK state \in AssocState : state = "none"
      BY DEF AssocState
    <3>4. assoc[s] = Association(state, T)
      BY <2>2, <3>1, <3>3, Zenon DEF LinkInit
    <3>5. Fresh(assoc[s], state, T)
      BY <3>4, NewAssociation
    <3> QED
      BY <2>2, <3>1, <3>2, <3>3, <3>5
  <2> QED
    BY <2>1, <2>2
<1>11. app[s].got = <<>> /\ Len(app[s].got) = 0 /\ app[s].owed = 0 /\ ~app[s].connected
  BY <1>1, <1>2, <1>4, <1>6, <1>7, Zenon
<1> QED
  BY <1>3, <1>6, <1>7, <1>8, <1>9, <1>10, <1>11, Zenon

\* The invariant holds initially.
LEMMA LinkInitInv ==
    ASSUME LinkInit
    PROVE  LinkInv
<1>1. \A s \in Side : assoc[s] \in Assoc /\ assoc[s].written = 0 /\ assoc[s].cum = 0
                      /\ assoc[s].buf = {}
  BY InitValues DEF Fresh
<1>2. LinkTypeOK
  <2>1. /\ \A s \in Side : app[s] \in AppState /\ inbound[s] \in Seq(LinkEvent)
        /\ DOMAIN app = Side /\ app = [s \in DOMAIN app |-> app[s]]
        /\ DOMAIN inbound = Side /\ inbound = [s \in DOMAIN inbound |-> inbound[s]]
        /\ DOMAIN assoc = Side /\ assoc = [s \in DOMAIN assoc |-> assoc[s]]
    BY InitValues DEF LinkInit
  <2>2. /\ app \in [Side -> AppState] /\ inbound \in [Side -> Seq(LinkEvent)]
        /\ assoc \in [Side -> Assoc]
    BY <1>1, <2>1
  <2>3. /\ out \in [Side -> BOOLEAN] /\ ready \in [Side -> BOOLEAN]
        /\ reply \in [Side -> {"none", "ok", "error", "not_ready"}]
        /\ drv \in [Side -> {"accept", "pump", "select", "exited"}]
        /\ net \in SUBSET Datagram
    BY DEF LinkInit
  <2> QED
    BY <2>2, <2>3 DEF LinkTypeOK
<1>3. Sides
  <2> SUFFICES ASSUME NEW s \in Side
               PROVE  SideOK(s, app[s], out[s], inbound[s], drv[s], ready[s], assoc[s])
    BY DEF Sides
  <2>1. PICK state \in AssocState, T \in SUBSET Datagram :
           /\ Fresh(assoc[s], state, T) /\ Greets(s, T)
           /\ IF s = "client" THEN state = "cookie_wait" ELSE state = "none" /\ T = {}
    BY InitValues
  <2>2. \/ s = "client" /\ state = "cookie_wait" /\ drv[s] = "pump"
        \/ s = "server" /\ state = "none" /\ drv[s] = "accept" /\ T = {}
    BY <2>1, InitValues DEF Side
  <2>3. /\ app[s] \in AppState /\ app[s].pc = "idle" /\ ~app[s].connected
        /\ Len(app[s].got) = 0 /\ app[s].owed = 0
        /\ inbound[s] \in Seq(LinkEvent) /\ Len(inbound[s]) = 0 /\ ~out[s] /\ ~ready[s]
    BY InitValues
  <2> QED
    BY <2>1, <2>2, <2>3, InitSide
<1>4. NothingInvented
  <2>1. net = {}
    BY DEF LinkInit
  <2>2. \A s \in Side : /\ assoc[s].cum <= assoc[Peer(s)].written
                        /\ assoc[s].buf \subseteq 1 .. assoc[Peer(s)].written
    BY <1>1, Peers
  <2> QED
    BY <2>1, <2>2 DEF NothingInvented
<1>5. ReadyOnceConnected
  BY DEF ReadyOnceConnected, LinkInit
<1> QED
  BY <1>2, <1>3, <1>4, <1>5 DEF LinkInv

\* Every step preserves the invariant, and is silent, sends or delivers.
LEMMA LinkStep ==
    ASSUME LinkInv, [LinkNext]_linkVars
    PROVE  LinkInv' /\ (Silent \/ \E s \in Side : Sends(s) \/ Delivers(s))
<1>1. CASE UNCHANGED linkVars
  <2>1. UNCHANGED <<app, out, reply, inbound, drv, ready, assoc, net>>
    BY <1>1 DEF linkVars
  <2>2. LinkInv'
    BY <2>1 DEF LinkInv, LinkTypeOK, Sides, NothingInvented, ReadyOnceConnected
  <2>3. Silent
    BY <2>1 DEF Silent
  <2> QED
    BY <2>2, <2>3
<1>2. ASSUME NEW s \in Side, send(s) PROVE LinkInv' /\ Silent
  BY <1>2, SendInv
<1>3. ASSUME NEW s \in Side, SendReturns(s) PROVE LinkInv' /\ Silent
  BY <1>3, SendReturnsInv
<1>4. ASSUME NEW s \in Side, recv(s) PROVE LinkInv' /\ (Silent \/ Delivers(s))
  BY <1>4, RecvInv
<1>5. ASSUME NEW s \in Side, Drop(s) PROVE LinkInv' /\ Silent
  BY <1>5, DropInv
<1>6. ASSUME NEW s \in Side, PumpPending(s) PROVE LinkInv' /\ Silent
  BY <1>6, PumpPendingInv
<1>7. ASSUME NEW s \in Side, DriveTimer(s) PROVE LinkInv' /\ Silent
  BY <1>7, DriveTimerInv
<1>8. ASSUME NEW s \in Side, DriveOutbound(s) PROVE LinkInv' /\ Sends(s)
  BY <1>8, DriveOutboundInv
<1>9. ASSUME NEW s \in Side, DriveClosed(s) PROVE LinkInv' /\ Silent
  BY <1>9, DriveClosedInv
<1>10. ASSUME NEW s \in Side, DriveSocketError(s) PROVE LinkInv' /\ Silent
  BY <1>10, DriveSocketErrorInv
<1>11. ASSUME NEW p \in net, accept(p) PROVE LinkInv' /\ Silent
  BY <1>11, AcceptInv
<1>12. ASSUME NEW p \in net, DriveDatagram(p.to, p) PROVE LinkInv' /\ Silent
  BY <1>12, DriveDatagramInv
<1>13. ASSUME NEW p \in net, Lose(p) PROVE LinkInv' /\ Silent
  BY <1>13, LoseInv
<1> QED
  BY <1>1, <1>2, <1>3, <1>4, <1>5, <1>6, <1>7, <1>8, <1>9, <1>10, <1>11, <1>12, <1>13,
     Zenon DEF LinkNext, AppStep

\* In every reachable state of the link each message a driver has taken off
\* its stream is with the application or waits for it in order, nothing is
\* received that the peer did not write, and nothing is asked of an
\* association that is not up.
THEOREM LinkInvariant == LinkSpec => []LinkInv
<1>1. LinkInit => LinkInv
  BY LinkInitInv
<1>2. LinkInv /\ [LinkNext]_linkVars => LinkInv'
  BY LinkStep
<1> QED
  BY <1>1, <1>2, PTL DEF LinkSpec

-----------------------------------------------------------------------------
(* The properties.                                                         *)

\* send never fails with NotReady for who waits for Connected (client) or
\* for a message (server), for any number of messages and retransmissions.
THEOREM LinkReadyOnceConnected == LinkSpec => []ReadyOnceConnected
<1>1. LinkInv => ReadyOnceConnected
  BY DEF LinkInv
<1> QED
  BY <1>1, LinkInvariant, PTL

\* recv returns None only after a Lost, and no message comes after a Lost:
\* a driver that exits by itself has announced it.
THEOREM LinkLostBeforeNone == LinkSpec => []LostBeforeNone
<1>1. LinkInv => LostBeforeNone
  <2> SUFFICES ASSUME LinkInv, NEW s \in Side
               PROVE  /\ (drv[s] = "exited" /\ app[s].pc # "dropped")
                            => Lost \in ToSet(inbound[s])
                      /\ \A i \in 1 .. Len(inbound[s]) - 1 :
                            inbound[s][i] = Lost => inbound[s][i + 1] = Lost
    BY DEF LostBeforeNone
  <2>1. PICK q \in Seq(LinkEvent) : q = inbound[s]
    BY SideTypes
  <2>2. QueueOK(app[s], q, drv[s], assoc[s])
    BY <2>1, SideFacts DEF SideOK
  <2>3. PICK c \in 0 .. 1, m \in Nat : Placed(app[s], q, drv[s], assoc[s], c, m)
    BY <2>2 DEF QueueOK
  <2>4. PICK l \in Nat : l = Len(app[s].got)
    BY SideTypes DEF AppState
  <2>5. Split(q, l, c, m)
    BY <2>3, <2>4 DEF Placed
  <2>6. /\ c + m < Len(q) => Lost \in ToSet(q)
        /\ \A i \in 1 .. Len(q) - 1 : q[i] = Lost => q[i + 1] = Lost
    BY <2>5, SplitEnds
  <2>7. drv[s] = "exited" /\ app[s].pc # "dropped" => c + m < Len(q)
    BY <2>3 DEF Placed, Alive
  <2> QED
    BY <2>1, <2>6, <2>7, Zenon
<1> QED
  BY <1>1, LinkInvariant, PTL

\* A driver that has exited has put everything on the network that it was
\* given: the pump that follows a send is never skipped.
THEOREM LinkNothingUnsent == LinkSpec => []NothingUnsent
<1>1. LinkInv => NothingUnsent
  <2> SUFFICES ASSUME LinkInv, NEW s \in Side, drv[s] = "exited"
               PROVE  assoc[s].tx = {}
    BY DEF NothingUnsent
  <2> QED
    BY SideFacts DEF SideOK, DriverOK
<1> QED
  BY <1>1, LinkInvariant, PTL

\* The other end of the abstract channel is the peer.
LEMMA OtherIsPeer ==
    ASSUME NEW s \in Side
    PROVE  Abstract!Other(s) = Peer(s)
<1>1. \A t \in Side : t # s <=> t = Peer(s)
  BY DEF Side, Peer
<1>2. \E t \in Side : t # s
  BY Peers
<1> QED
  BY <1>1, <1>2 DEF Abstract!Other

\* A step that sends is a send of the channel.
LEMMA SendsIsChannelSend ==
    ASSUME NEW s \in Side, Sends(s)
    PROVE  Abstract!ChannelSend(s)
<1>1. [t \in Side |-> assoc'[t].written]
         = [[t \in Side |-> assoc[t].written] EXCEPT ![s] = @ + 1]
  BY DEF Sends
<1>2. [t \in Side |-> app'[t].got] = [t \in Side |-> app[t].got]
  BY DEF Sends
<1> QED
  BY <1>1, <1>2 DEF Abstract!ChannelSend

\* A step that delivers is a delivery of the channel.
LEMMA DeliversIsDeliver ==
    ASSUME NEW s \in Side, Delivers(s)
    PROVE  Abstract!Deliver(s)
<1>1. Len([t \in Side |-> app[t].got][s])
         < [t \in Side |-> assoc[t].written][Abstract!Other(s)]
  BY OtherIsPeer, Peers DEF Delivers
<1>2. [t \in Side |-> app'[t].got]
         = [[t \in Side |-> app[t].got] EXCEPT ![s] = Append(@, Len(@) + 1)]
  BY DEF Delivers
<1>3. [t \in Side |-> assoc'[t].written] = [t \in Side |-> assoc[t].written]
  BY DEF Delivers
<1> QED
  BY <1>1, <1>2, <1>3 DEF Abstract!Deliver

\* A silent step leaves the channel as it is.
LEMMA SilentIsStutter ==
    ASSUME Silent
    PROVE  UNCHANGED Abstract!channelVars
<1>1. [t \in Side |-> assoc'[t].written] = [t \in Side |-> assoc[t].written]
  BY DEF Silent
<1>2. [t \in Side |-> app'[t].got] = [t \in Side |-> app[t].got]
  BY DEF Silent
<1> QED
  BY <1>1, <1>2 DEF Abstract!channelVars

\* The link is a channel: in each direction messages arrive in the order they
\* were sent, none twice and none that was not sent, whatever the network
\* does to the datagrams and whenever a side leaves.
THEOREM LinkImplementsChannel == LinkSpec => ImplementsChannel
<1>1. LinkInit => Abstract!ChannelInit
  <2> SUFFICES ASSUME LinkInit PROVE Abstract!ChannelInit
    OBVIOUS
  <2>1. \A s \in Side : app[s].got = <<>> /\ assoc[s].written = 0
    BY InitValues DEF Fresh
  <2>2. [s \in Side |-> assoc[s].written] = [s \in Side |-> 0]
    BY <2>1
  <2>3. [s \in Side |-> app[s].got] = [s \in Side |-> <<>>]
    BY <2>1, Zenon
  <2> QED
    BY <2>2, <2>3, Zenon DEF Abstract!ChannelInit
<1>2. LinkInv /\ [LinkNext]_linkVars => [Abstract!ChannelNext]_(Abstract!channelVars)
  BY LinkStep, SendsIsChannelSend, DeliversIsDeliver, SilentIsStutter, Zenon
     DEF Abstract!ChannelNext
<1> QED
  BY <1>1, <1>2, LinkInvariant, PTL DEF LinkSpec, ImplementsChannel, Abstract!ChannelSpec
=============================================================================
