------------------------------ MODULE SctpLink ------------------------------
(***************************************************************************)
(* midn_transport::SctpLink: one SCTP association over UDP, driven on a    *)
(* background task per side.                                               *)
(*                                                                         *)
(* A side is an application task, which calls send and recv and drops the  *)
(* link when it returns; the driver task (`drive'), which selects over     *)
(* datagrams, the association's timer and the outbound channel and pumps   *)
(* the association after each; and the rtc_sctp association, a library     *)
(* modelled from how the driver uses it.  The network between the drivers  *)
(* loses and reorders datagrams; retransmission duplicates them.  One      *)
(* iteration of the drive loop is one step, except that a send is answered *)
(* before the pump: there the application may run in between.              *)
(*                                                                         *)
(* The applications behave as the two simulations do: the client sends     *)
(* once it has seen Connected, the server answers messages, and both       *)
(* return when a call fails or the link is lost.                           *)
(***************************************************************************)
EXTENDS Integers, SequencesExt

CONSTANTS
    MaxMsgs,      \* bound, per side: messages its application sends
    MaxRetrans    \* the association's limit on handshake retransmissions

Side == {"client", "server"}
Peer(s) == IF s = "client" THEN "server" ELSE "client"

ASSUME LinkAssumption == MaxMsgs \in [Side -> Nat] /\ MaxRetrans \in Nat

VARIABLES
    app,        \* pc: "idle", "sending", "dropped"; connected; got; owed answers
    out,        \* the Outbound in the channel, or not: BOOLEAN
    reply,      \* its reply: "none", "ok", "error", "not_ready"
    inbound,    \* LinkEvents on their way to the application
    drv,        \* "accept", "pump", "select", "exited"
    ready,      \* stream_ready
    assoc,      \* the rtc_sctp associations
    net         \* datagrams in flight

linkVars == <<app, out, reply, inbound, drv, ready, assoc, net>>

-----------------------------------------------------------------------------
(* rtc_sctp.  Handling a datagram or a timeout changes the association and *)
(* queues events for poll and packets for poll_transmit.  Messages are     *)
(* numbered in the order they are written.                                 *)

Packet(s, type, n) == [to |-> s, type |-> type, n |-> n]

Association(state, tx) ==
    [state |-> state, drained |-> FALSE, stream |-> FALSE, events |-> <<>>,
     tx |-> tx, retries |-> 0,
     written |-> 0, acked |-> 0,          \* the sending direction
     cum |-> 0, buf |-> {}, read |-> 0]   \* the receiving direction

\* In-order data received with n: up to the first gap.
Cumulative(a, n) ==
    LET have == a.buf \cup {n} IN
    Max({a.cum} \cup {k \in have : k > a.cum /\ a.cum + 1 .. k \subseteq have})

Established(a) == [a EXCEPT !.state = "established", !.retries = 0,
                            !.events = Append(@, "Connected")]

handle_event(s, a, p) ==
    CASE p.type = "INIT" /\ a.state = "listen" ->
            [a EXCEPT !.tx = @ \cup {Packet(Peer(s), "INIT_ACK", 0)}]
      [] p.type = "INIT_ACK" /\ a.state = "cookie_wait" ->
            [a EXCEPT !.state = "cookie_echoed", !.retries = 0,
                      !.tx = @ \cup {Packet(Peer(s), "COOKIE_ECHO", 0)}]
      [] p.type = "COOKIE_ECHO" /\ a.state = "listen" ->
            [Established(a) EXCEPT !.tx = @ \cup {Packet(Peer(s), "COOKIE_ACK", 0)}]
      [] p.type = "COOKIE_ECHO" /\ a.state = "established" ->
            [a EXCEPT !.tx = @ \cup {Packet(Peer(s), "COOKIE_ACK", 0)}]
      [] p.type = "COOKIE_ACK" /\ a.state = "cookie_echoed" -> Established(a)
      [] p.type = "DATA" /\ a.state \in {"cookie_echoed", "established"} ->
            LET c == Cumulative(a, p.n) IN
            [a EXCEPT !.stream = TRUE, !.cum = c,
                      !.buf = {k \in @ \cup {p.n} : k > c},
                      !.events = IF c > a.read THEN Append(@, "Readable") ELSE @,
                      !.tx = @ \cup {Packet(Peer(s), "SACK", c)}]
      [] p.type = "SACK" /\ a.state = "established" ->
            [a EXCEPT !.acked = Max({@, p.n})]
      [] OTHER -> a

\* poll_timeout is Some: a handshake packet or data is unacknowledged, or a
\* closed association has still to drain.
HasDeadline(a) ==
    \/ a.state \in {"cookie_wait", "cookie_echoed"}
    \/ a.state = "established" /\ a.acked < a.written
    \/ a.state = "closed" /\ ~a.drained

\* Given up; drained at once or after another timeout.
Closed(a, drained) ==
    [a EXCEPT !.state = "closed", !.drained = drained, !.events = Append(@, "Lost")]

\* The outcomes of a timeout.
handle_timeout(s, a) ==
    CASE a.state = "cookie_wait" /\ a.retries < MaxRetrans ->
            {[a EXCEPT !.retries = @ + 1, !.tx = @ \cup {Packet(Peer(s), "INIT", 0)}]}
      [] a.state = "cookie_echoed" /\ a.retries < MaxRetrans ->
            {[a EXCEPT !.retries = @ + 1,
                       !.tx = @ \cup {Packet(Peer(s), "COOKIE_ECHO", 0)}]}
      [] a.state = "established" ->
            {[a EXCEPT !.tx = @ \cup {Packet(Peer(s), "DATA", n) :
                                        n \in a.acked + 1 .. a.written}]}
      [] a.state = "closed" -> {[a EXCEPT !.drained = TRUE]}
      [] OTHER -> {Closed(a, d) : d \in BOOLEAN}

-----------------------------------------------------------------------------
(* connect has sent nothing yet; accept waits for the datagram that makes  *)
(* an association.                                                         *)

LinkInit ==
    /\ app = [s \in Side |-> [pc |-> "idle", connected |-> FALSE, got |-> <<>>,
                              owed |-> 0]]
    /\ out = [s \in Side |-> FALSE]
    /\ reply = [s \in Side |-> "none"]
    /\ inbound = [s \in Side |-> <<>>]
    /\ drv = [s \in Side |-> IF s = "client" THEN "pump" ELSE "accept"]
    /\ ready = [s \in Side |-> FALSE]
    /\ assoc = [s \in Side |->
                   IF s = "client"
                   THEN Association("cookie_wait", {Packet("server", "INIT", 0)})
                   ELSE Association("none", {})]
    /\ net = {}

accept(p) ==
    /\ drv["server"] = "accept"
    /\ p \in net
    /\ p.to = "server"
    /\ net' = net \ {p}
    /\ IF p.type = "INIT"
       THEN /\ assoc' = [assoc EXCEPT !["server"] =
                            Association("listen", {Packet("client", "INIT_ACK", 0)})]
            /\ drv' = [drv EXCEPT !["server"] = "pump"]
       ELSE UNCHANGED <<assoc, drv>>
    /\ UNCHANGED <<app, out, reply, inbound, ready>>

-----------------------------------------------------------------------------
(* pump.                                                                   *)

\* What recv yields.
Connected == [type |-> "Connected", n |-> 0]
Message(n) == [type |-> "Message", n |-> n]
Lost == [type |-> "Lost", n |-> 0]

\* Mutant of ReadStream: `if let' for `while let', one message per event.
ReadOne(st, a) ==
    IF st.read < a.cum
    THEN [st EXCEPT !.events = Append(@, Message(st.read + 1)), !.read = @ + 1]
    ELSE st

\* Mutant of ReadStream: what was read is not taken off the stream.
ReadAgain(st, a) ==
    [st EXCEPT !.events = @ \o [i \in 1 .. a.cum |-> Message(i)]]

\* read_sctp until it returns None.
ReadStream(st, a) ==
    [st EXCEPT !.events = @ \o [i \in 1 .. a.cum - st.read |-> Message(st.read + i)],
               !.read = a.cum]

\* Mutant of PollEvent: the stream is opened when it is first read.
PollLateOpen(st, e, a) ==
    CASE e = "Connected" -> [st EXCEPT !.events = Append(@, Connected)]
      [] e = "Lost" -> [st EXCEPT !.events = Append(@, Lost)]
      [] e = "Readable" -> [ReadStream(st, a) EXCEPT !.ready = TRUE]

\* One event of poll.  open_stream fails if the peer's data made the stream.
PollEvent(st, e, a) ==
    CASE e = "Connected" -> [st EXCEPT !.events = Append(@, Connected),
                                       !.ready = @ \/ ~a.stream]
      [] e = "Lost" -> [st EXCEPT !.events = Append(@, Lost)]
      [] e = "Readable" -> ReadStream(st, a)

\* The packets association b of side t would ignore from now on.
Stale(t, b, p) ==
    /\ p.to = t
    /\ CASE p.type = "INIT" -> b.state \notin {"none", "listen"}
         [] p.type = "INIT_ACK" -> b.state # "cookie_wait"
         [] p.type = "COOKIE_ACK" -> b.state # "cookie_echoed"
         [] p.type = "SACK" -> b.state = "closed" \/ p.n <= b.acked
         [] OTHER -> b.state = "closed"

\* Mutant of Pump: is_drained is looked at before the events are polled.
PumpIfAlive(s, a, left) ==
    /\ drv' = [drv EXCEPT ![s] = IF a.drained THEN "exited" ELSE "select"]
    /\ assoc' = [assoc EXCEPT ![s] = [a EXCEPT !.tx = {}]]
    /\ net' = left \cup a.tx
    /\ UNCHANGED <<inbound, ready>>

\* Poll the association `a' for events until there are none.
Poll(s, a) ==
    LET Step(st, e) == PollEvent(st, e, a) IN
    FoldLeft(Step, [events |-> <<>>, ready |-> ready[s], read |-> a.read], a.events)

\* Poll the association for events, then for packets; then the loop looks
\* whether it has drained.
Pump(s, a, left) ==
    LET st == Poll(s, a) IN
    /\ inbound' = [inbound EXCEPT ![s] =
                      IF app[s].pc = "dropped" THEN @ ELSE @ \o st.events]
    /\ ready' = [ready EXCEPT ![s] = st.ready]
    /\ net' = {p \in left \cup a.tx : ~Stale(s, a, p) /\ ~Stale(Peer(s), assoc[Peer(s)], p)}
    /\ assoc' = [assoc EXCEPT ![s] =
                    [a EXCEPT !.events = <<>>, !.tx = {}, !.read = st.read,
                              !.stream = @ \/ st.ready]]
    /\ drv' = [drv EXCEPT ![s] = IF a.drained THEN "exited" ELSE "select"]

\* At the start, and after a send has been answered.
PumpPending(s) ==
    /\ drv[s] = "pump"
    /\ Pump(s, assoc[s], net)
    /\ UNCHANGED <<app, out, reply>>

-----------------------------------------------------------------------------
(* The branches of drive's select!.                                        *)

DriveDatagram(s, p) ==
    /\ drv[s] = "select"
    /\ p \in net
    /\ p.to = s
    /\ Pump(s, handle_event(s, assoc[s], p), net \ {p})
    /\ UNCHANGED <<app, out, reply>>

\* For an application that has left it is like DriveClosed.
DriveSocketError(s) ==
    /\ drv[s] = "select"
    /\ app[s].pc # "dropped"
    /\ inbound' = [inbound EXCEPT ![s] = Append(@, Lost)]
    /\ drv' = [drv EXCEPT ![s] = "exited"]
    /\ UNCHANGED <<app, out, reply, ready, assoc, net>>

\* Mutant of DriveTimer: the deadline is only asked for once connected.
DriveTimerConnected(s) ==
    /\ drv[s] = "select"
    /\ ready[s]
    /\ HasDeadline(assoc[s])
    /\ \E a \in handle_timeout(s, assoc[s]) : Pump(s, a, net)
    /\ UNCHANGED <<app, out, reply>>

DriveTimer(s) ==
    /\ drv[s] = "select"
    /\ HasDeadline(assoc[s])
    /\ \E a \in handle_timeout(s, assoc[s]) : Pump(s, a, net)
    /\ UNCHANGED <<app, out, reply>>

\* write_with_ppi.
Write(s, a) ==
    [a EXCEPT !.written = @ + 1,
              !.tx = @ \cup {Packet(Peer(s), "DATA", a.written + 1)}]

\* Mutants of DriveOutbound: no pump after it; only when all is acknowledged.
DriveOutboundUnpumped(s) ==
    /\ drv[s] = "select"
    /\ out[s]
    /\ out' = [out EXCEPT ![s] = FALSE]
    /\ reply' = [reply EXCEPT ![s] = "ok"]
    /\ assoc' = [assoc EXCEPT ![s] = Write(s, @)]
    /\ UNCHANGED <<app, inbound, drv, ready, net>>

DriveOutboundAcked(s) ==
    /\ drv[s] = "select"
    /\ out[s]
    /\ assoc[s].acked = assoc[s].written
    /\ out' = [out EXCEPT ![s] = FALSE]
    /\ reply' = [reply EXCEPT ![s] = IF app[s].pc = "dropped" THEN "none" ELSE "ok"]
    /\ assoc' = [assoc EXCEPT ![s] = Write(s, @)]
    /\ drv' = [drv EXCEPT ![s] = "pump"]
    /\ UNCHANGED <<app, inbound, ready, net>>

\* The reply leaves before the pump that transmits the message.
DriveOutbound(s) ==
    LET result == IF ~ready[s] THEN "not_ready"
                  ELSE IF assoc[s].state # "established" THEN "error"
                  ELSE "ok"
    IN
    /\ drv[s] = "select"
    /\ out[s]
    /\ out' = [out EXCEPT ![s] = FALSE]
    /\ reply' = [reply EXCEPT ![s] = IF app[s].pc = "dropped" THEN "none" ELSE result]
    /\ assoc' = [assoc EXCEPT ![s] = IF result = "ok" THEN Write(s, @) ELSE @]
    /\ drv' = [drv EXCEPT ![s] = "pump"]
    /\ UNCHANGED <<app, inbound, ready, net>>

\* The link was dropped and the channel is empty.
DriveClosed(s) ==
    /\ drv[s] = "select"
    /\ app[s].pc = "dropped"
    /\ ~out[s]
    /\ drv' = [drv EXCEPT ![s] = "exited"]
    /\ UNCHANGED <<app, out, reply, inbound, ready, assoc, net>>

-----------------------------------------------------------------------------
(* The application.                                                        *)

\* The application returns: what it has not read goes with the link.
Return(s) ==
    /\ app' = [app EXCEPT ![s].pc = "dropped", ![s].owed = 0]
    /\ inbound' = [inbound EXCEPT ![s] = <<>>]
    /\ reply' = [reply EXCEPT ![s] = "none"]

\* send: into the channel, then wait for the reply.
send(s) ==
    /\ app[s].pc = "idle"
    /\ assoc[s].written < MaxMsgs[s]
    /\ IF s = "client" THEN app[s].connected ELSE app[s].owed > 0
    /\ \/ /\ drv[s] = "exited"
          /\ Return(s)
          /\ UNCHANGED out
       \/ /\ drv[s] # "exited"
          /\ app' = [app EXCEPT ![s].pc = "sending"]
          /\ out' = [out EXCEPT ![s] = TRUE]
          /\ UNCHANGED <<reply, inbound>>
    /\ UNCHANGED <<drv, ready, assoc, net>>

\* The reply has come, or the driver is gone and none will.
SendReturns(s) ==
    /\ app[s].pc = "sending"
    /\ \/ /\ reply[s] = "ok"
          /\ app' = [app EXCEPT ![s].pc = "idle",
                                ![s].owed = IF s = "server" THEN @ - 1 ELSE @]
          /\ reply' = [reply EXCEPT ![s] = "none"]
          /\ UNCHANGED inbound
       \/ /\ reply[s] \in {"error", "not_ready"} \/ (reply[s] = "none" /\ drv[s] = "exited")
          /\ Return(s)
    /\ UNCHANGED <<out, drv, ready, assoc, net>>

\* Application `ap' of side s has got event e.
Yielded(s, ap, e) ==
    IF e.type = "Connected" THEN [ap EXCEPT !.connected = TRUE]
    ELSE [ap EXCEPT !.got = Append(@, e.n),
                    !.owed = IF s = "server" THEN @ + 1 ELSE @]

recv(s) ==
    LET e == Head(inbound[s]) IN
    /\ app[s].pc = "idle"
    /\ inbound[s] # <<>>
    /\ \/ /\ e.type = "Lost"
          /\ Return(s)
       \/ /\ e.type # "Lost"
          /\ app' = [app EXCEPT ![s] = Yielded(s, @, e)]
          /\ inbound' = [inbound EXCEPT ![s] = Tail(@)]
          /\ UNCHANGED reply
    /\ UNCHANGED <<out, drv, ready, assoc, net>>

\* The application is done, or its task is aborted, also during a send.
Drop(s) ==
    /\ app[s].pc # "dropped"
    /\ drv[s] # "accept"
    /\ Return(s)
    /\ UNCHANGED <<out, drv, ready, assoc, net>>

-----------------------------------------------------------------------------
\* Loss matters for data, which is sent again; any other packet may also
\* stay in flight for ever.
Lose(p) ==
    /\ p.type = "DATA"
    /\ net' = net \ {p}
    /\ UNCHANGED <<app, out, reply, inbound, drv, ready, assoc>>

AppStep(s) == SendReturns(s) \/ recv(s)

LinkNext ==
    \/ \E s \in Side :
          \/ send(s)
          \/ AppStep(s)
          \/ Drop(s)
          \/ PumpPending(s)
          \/ DriveTimer(s)
          \/ DriveOutbound(s)
          \/ DriveClosed(s)
          \/ DriveSocketError(s)
    \/ \E p \in net : accept(p) \/ DriveDatagram(p.to, p) \/ Lose(p)

\* The packet with the next message in order.
NextData(s) ==
    LET p == Packet(s, "DATA", assoc[s].cum + 1) IN DriveDatagram(s, p)

\* Tasks that can run do run; select! chooses at random among the branches
\* that are ready, so none is passed over for ever.  Of the network it is
\* assumed that data retransmitted again and again arrives in the end.
LinkFairness ==
    \A s \in Side :
        /\ WF_linkVars(AppStep(s))
        /\ WF_linkVars(DriveOutbound(s) \/ PumpPending(s))
        /\ WF_linkVars(DriveTimer(s))
        /\ SF_linkVars(NextData(s))

LinkSpec == LinkInit /\ [][LinkNext]_linkVars /\ LinkFairness

-----------------------------------------------------------------------------
(* Properties.                                                             *)

\* "Wait for LinkEvent::Connected before calling send": whoever does never
\* gets NotReady.  The stream is opened before Connected is handed over and
\* no data of the peer can have made it earlier (pump, Event::Connected).
ReadyOnceConnected == \A s \in Side : reply[s] # "not_ready"

\* recv returns None only after a Lost, unless the link was dropped: a driver
\* that exits by itself has told the application why, and no message comes
\* after that (drive's return paths against the order of is_drained and pump).
LostBeforeNone ==
    \A s \in Side :
        /\ (drv[s] = "exited" /\ app[s].pc # "dropped") => Lost \in ToSet(inbound[s])
        /\ \A i \in 1 .. Len(inbound[s]) - 1 :
              inbound[s][i] = Lost => inbound[s][i + 1] = Lost

\* A driver that has exited leaves nothing untransmitted: every message whose
\* send returned Ok has been on the network, although the application may
\* drop the link as soon as it has the reply, which precedes the pump.
NothingUnsent == \A s \in Side : drv[s] = "exited" => assoc[s].tx = {}

\* send always returns: again and again nobody waits for a reply.  A sender
\* waits for a driver that never waits for it, and a driver that exits
\* answers too (the oneshot is dropped).
SendAnswered == []<>(\A s \in Side : app[s].pc # "sending")

\* connect is followed by an event, also when every datagram is lost.
ConnectAnswered ==
    <>(app["client"].connected \/ app["client"].pc = "dropped")

\* What send has accepted reaches the peer's application: again and again
\* the two have caught up, unless one side has left or the association has
\* failed, whatever was lost, reordered or bundled into one Readable event
\* (drive, pump).
Gone ==
    \E s \in Side : app[s].pc = "dropped" \/ drv[s] = "exited" \/ assoc[s].state = "closed"

Delivered ==
    []<>(Gone \/ \A s \in Side : Len(app[Peer(s)].got) = assoc[s].written)

\* The link is the reliable, ordered channel the simulations take it for.
Abstract == INSTANCE Channel WITH
    Ends <- Side,
    sent <- [s \in Side |-> assoc[s].written],
    got  <- [s \in Side |-> app[s].got]

ImplementsChannel == Abstract!ChannelSpec
=============================================================================
