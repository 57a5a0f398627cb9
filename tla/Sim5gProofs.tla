---------------------------- MODULE Sim5gProofs ----------------------------
(***************************************************************************)
(* The 5G simulation is safe for any number of UEs.  LoopInv keeps the AMF *)
(* and the UPF in step; here every UE is bound to at most one entity, no   *)
(* two UEs to the same one, and the pair is at one stage of its procedure: *)
(* what the core holds, what the UE task has in its locals, and the one    *)
(* message that is on its way between them agree.                          *)
(***************************************************************************)
EXTENDS Sim5g, AmfProofs, SequenceTheorems

-----------------------------------------------------------------------------
(* The messages of one UE.                                                 *)

\* What is on its way to the AMF, in order: sent by the dispatcher, or queued.
pipe == up \o out_q

UplinkMsg ==
    {InitialUeMessage(u) : u \in Ue}
        \cup {Uplink(u, e, pdu) : u \in Ue, e \in EntityId, pdu \in UplinkPdu}
        \cup {IcsResponse(u, e) : u \in Ue, e \in EntityId}
        \cup {ReleaseComplete(u, e) : u \in Ue, e \in EntityId}

\* What the UE sends on the side; the AMF answers neither.
Harmless(m, u, e) ==
    /\ e \in EntityId
    /\ \/ m = IcsResponse(u, e)
       \/ m = Uplink(u, e, [type |-> "RegistrationComplete"])

\* Of u, queue q holds nothing the AMF will answer.
UpNone(q, u, e) ==
    \A j \in 1 .. Len(q) : q[j].ran = u => Harmless(q[j], u, e)

\* Of u, queue q holds m last, and before it nothing the AMF will answer.
UpOne(q, u, e, m) ==
    /\ m.ran = u
    /\ ~Harmless(m, u, e)
    /\ \E i \in 1 .. Len(q) :
          /\ q[i] = m
          /\ \A j \in 1 .. Len(q) : (q[j].ran = u /\ j # i) =>
                j < i /\ Harmless(q[j], u, e)

\* The AMF has no response for u left to send.
Unaddressed(u) == \A i \in 1 .. Len(responses) : responses[i].ran # u

\* On its way to u, in the responses or in the channel: nothing, m, a and b.
DownNone(u) == ngap_rx[u] = <<>> /\ Unaddressed(u)

DownOne(u, m) ==
    /\ m.ran = u
    /\ \/ ngap_rx[u] = <<m>> /\ Unaddressed(u)
       \/ ngap_rx[u] = <<>> /\ responses = <<m>>

DownTwo(u, a, b) ==
    /\ a.ran = u
    /\ b.ran = u
    /\ \/ ngap_rx[u] = <<a, b>> /\ Unaddressed(u)
       \/ ngap_rx[u] = <<a>> /\ responses = <<b>>
       \/ ngap_rx[u] = <<>> /\ responses = <<a, b>>

\* The messages the AMF sends to u about e.
Asks(m, u, e, pdu) ==
    /\ m.type = "DownlinkNasTransport"
    /\ m.id = e
    /\ m.ran = u
    /\ m.nas.key = None
    /\ m.nas.pdu = pdu

Announces(m, u, e, t) ==
    /\ m.type = "InitialContextSetupRequest"
    /\ m.id = e
    /\ m.ran = u
    /\ m.ul_teid = t
    /\ m.nas.key = UeVector(u)
    /\ m.nas.pdu = "RegistrationAccept"

Parts(m, u, e) ==
    /\ m.type = "DownlinkNasTransport"
    /\ m.id = e
    /\ m.ran = u
    /\ m.nas.key = UeVector(u)
    /\ m.nas.pdu = "DeregistrationAccept"

Releases(m, u, e) ==
    /\ m.type = "UeContextReleaseCommand"
    /\ m.id = e
    /\ m.ran = u

-----------------------------------------------------------------------------
(* What the core holds for u under entity e.                               *)

Unknown(u, e) == e = None /\ sqn[u] = 0 /\ registry[u] = None

Spawned(u, e) ==
    /\ e \in LiveIds
    /\ ent[e].imsi = NoImsi
    /\ sqn[u] = 0
    /\ registry[u] = None

Bound(u, e) ==
    /\ e \in LiveIds
    /\ ent[e].imsi = u
    /\ registry[u] = e
    /\ MaxSqn > 0

Challenged(u, e) ==
    /\ Bound(u, e)
    /\ ent[e].xres = UeVector(u)
    /\ ent[e].ck = UeVector(u)

Verified(u, e) == Bound(u, e) /\ ent[e].ck = UeVector(u)

Active(u, e) ==
    /\ Bound(u, e)
    /\ ent[e].nas # None
    /\ ent[e].nas.key = UeVector(u)
    /\ ent[e].tunnel # None

Gone(u, e) == e = None /\ registry[u] = None

\* The UPF has been told of TEID t.
Settled(t) == ~Queued("CreateSession", t)

-----------------------------------------------------------------------------
(* The stages.                                                             *)

IdentityResponse(u) == [type |-> "IdentityResponse",
                        suci |-> [scheme |-> 0, msin |-> u]]
AuthenticationResponse(u) == [type |-> "AuthenticationResponse", res |-> UeVector(u)]
SecurityModeComplete == [type |-> "SecurityModeComplete"]
DeregistrationRequest == [type |-> "DeregistrationRequest", switch_off |-> FALSE]

\* The UE task is in its receive loop and knows the AMF's id for it, and,
\* Keyed, has derived the keys of its first vector.
Looping(u, e) == ue[u].pc = "control" /\ ue[u].id = e
Keyed(u, e) == Looping(u, e) /\ ue[u].key = UeVector(u)

Starting(u, e) ==
    /\ Unknown(u, e)
    /\ ue[u].pc = "start"
    /\ ue[u].id = None
    /\ UpNone(pipe, u, e)
    /\ DownNone(u)

Requesting(u, e) ==
    /\ Unknown(u, e)
    /\ Looping(u, None)
    /\ UpOne(pipe, u, e, InitialUeMessage(u))
    /\ DownNone(u)

Identifying(u, e) ==
    /\ Spawned(u, e)
    /\ Looping(u, None)
    /\ UpNone(pipe, u, e)
    /\ \E m : Asks(m, u, e, "IdentityRequest") /\ DownOne(u, m)

Identified(u, e) ==
    /\ Spawned(u, e)
    /\ Looping(u, e)
    /\ UpOne(pipe, u, e, Uplink(u, e, IdentityResponse(u)))
    /\ DownNone(u)

Challenging(u, e) ==
    /\ Challenged(u, e)
    /\ Looping(u, e)
    /\ UpNone(pipe, u, e)
    /\ \E m : Asks(m, u, e, "AuthenticationRequest") /\ DownOne(u, m)

Answering(u, e) ==
    /\ Challenged(u, e)
    /\ Keyed(u, e)
    /\ UpOne(pipe, u, e, Uplink(u, e, AuthenticationResponse(u)))
    /\ DownNone(u)

Commanding(u, e) ==
    /\ Verified(u, e)
    /\ Keyed(u, e)
    /\ UpNone(pipe, u, e)
    /\ \E m : Asks(m, u, e, "SecurityModeCommand") /\ DownOne(u, m)

Complying(u, e) ==
    /\ Verified(u, e)
    /\ Keyed(u, e)
    /\ UpOne(pipe, u, e, Uplink(u, e, SecurityModeComplete))
    /\ DownNone(u)

\* The Accept leaves the AMF once its TEID is settled.
Accepting(u, e) ==
    /\ Active(u, e)
    /\ Keyed(u, e)
    /\ UpNone(pipe, u, e)
    /\ \E m : Announces(m, u, e, ent[e].tunnel.ul_teid) /\ DownOne(u, m)
    /\ ngap_rx[u] # <<>> => Settled(ent[e].tunnel.ul_teid)

Online(u, e) ==
    /\ Active(u, e)
    /\ ue[u].pc \in {"round_trip", "await_echo", "lost"}
    /\ ue[u].id = e
    /\ ue[u].key = UeVector(u)
    /\ ue[u].ul_teid = ent[e].tunnel.ul_teid
    /\ UpNone(pipe, u, e)
    /\ DownNone(u)
    /\ Settled(ent[e].tunnel.ul_teid)

Leaving(u, e) ==
    /\ Active(u, e)
    /\ Keyed(u, e)
    /\ UpOne(pipe, u, e, Uplink(u, e, DeregistrationRequest))
    /\ DownNone(u)

Releasing(u, e) ==
    /\ Active(u, e)
    /\ Keyed(u, e)
    /\ UpNone(pipe, u, e)
    /\ \E b : /\ Releases(b, u, e)
              /\ DownOne(u, b) \/ \E a : Parts(a, u, e) /\ DownTwo(u, a, b)

\* UeContextReleaseComplete is under way, or was lost.
Released(u, e) ==
    /\ Active(u, e)
    /\ ue[u].pc = "ok"
    /\ UpOne(pipe, u, e, ReleaseComplete(u, e)) \/ UpNone(pipe, u, e)
    /\ DownNone(u)

Offline(u, e) ==
    /\ Gone(u, e)
    /\ ue[u].pc = "ok"
    /\ UpNone(pipe, u, e)
    /\ DownNone(u)

Stage(u, e) ==
    \/ Starting(u, e)
    \/ Requesting(u, e)
    \/ Identifying(u, e)
    \/ Identified(u, e)
    \/ Challenging(u, e)
    \/ Answering(u, e)
    \/ Commanding(u, e)
    \/ Complying(u, e)
    \/ Accepting(u, e)
    \/ Online(u, e)
    \/ Leaving(u, e)
    \/ Releasing(u, e)
    \/ Released(u, e)
    \/ Offline(u, e)

-----------------------------------------------------------------------------
(* The invariant.                                                          *)

UeLocals == [pc : {"start", "control", "round_trip", "await_echo"} \cup Final,
             id : EntityId \cup {None}, key : Vector \cup {None},
             ul_teid : Nat, attempt : Nat]

SimTypeOK ==
    /\ ue \in [Ue -> UeLocals]
    /\ up \in Seq(UplinkMsg)
    /\ out_q \in Seq(UplinkMsg)
    /\ DOMAIN ngap_rx = Ue
    /\ \A i \in 1 .. Len(responses) : responses[i].ran \in Ue

\* Which entity serves which UE; no entity serves two.
Bindings ==
    {b \in [Ue -> EntityId \cup {None}] :
        \A u, v \in Ue : (u # v /\ b[u] # None) => b[u] # b[v]}

SimInv ==
    /\ LoopInv
    /\ SimTypeOK
    /\ \E b \in Bindings : \A u \in Ue : Stage(u, b[u])

\* run_gnb returns when all its UE tasks have ended.
Joined == gnb # "running" => \A u \in Ue : ue[u].pc \in Final

-----------------------------------------------------------------------------
(* The link: two queues read as one.                                       *)

\* A queue keeps what it holds of v.
UpKept(q, r, v, f) ==
    /\ UpNone(q, v, f) => UpNone(r, v, f)
    /\ \A m : UpOne(q, v, f, m) => UpOne(r, v, f, m)

\* The dispatcher moves a message from one queue to the other (Dispatch).
LEMMA MoveOne ==
    ASSUME NEW S, NEW p \in Seq(S), NEW q \in Seq(S), q # <<>>
    PROVE  Append(p, Head(q)) \o Tail(q) = p \o q
<1> DEFINE l == Append(p, Head(q)) \o Tail(q)
           r == p \o q
<1>1. Len(q) >= 1 /\ Len(q) \in Nat /\ Len(p) \in Nat
  OBVIOUS
<1>2. l \in Seq(S) /\ r \in Seq(S)
  BY <1>1
<1>3. Len(l) = Len(p) + Len(q) /\ Len(r) = Len(p) + Len(q)
  BY <1>1
<1>4. ASSUME NEW i \in 1 .. Len(p) + Len(q) PROVE l[i] = r[i]
  BY <1>1
<1> QED
  BY <1>2, <1>3, <1>4, SeqEqual

\* A UE puts a message at the end (Send).
LEMMA SendOne ==
    ASSUME NEW S, NEW p \in Seq(S), NEW q \in Seq(S), NEW x \in S
    PROVE  /\ p \o (q \o <<x>>) = Append(p \o q, x)
           /\ q \o <<x>> \in Seq(S)
<1> DEFINE l == p \o (q \o <<x>>)
           r == Append(p \o q, x)
<1>1. Len(q) \in Nat /\ Len(p) \in Nat /\ q \o <<x>> = Append(q, x)
  OBVIOUS
<1>2. l \in Seq(S) /\ r \in Seq(S) /\ q \o <<x>> \in Seq(S)
  BY <1>1
<1>3. Len(l) = Len(p) + Len(q) + 1 /\ Len(r) = Len(p) + Len(q) + 1
  BY <1>1
<1>4. ASSUME NEW i \in 1 .. Len(p) + Len(q) + 1 PROVE l[i] = r[i]
  BY <1>1
<1> QED
  BY <1>2, <1>3, <1>4, SeqEqual

\* Two messages at once.
LEMMA SendBoth ==
    ASSUME NEW S, NEW p \in Seq(S), NEW q \in Seq(S), NEW x \in S, NEW y \in S
    PROVE  /\ p \o (q \o <<x, y>>) = Append(Append(p \o q, x), y)
           /\ q \o <<x, y>> \in Seq(S)
<1> DEFINE a == <<x>>
           b == <<y>>
<1>1. a \in Seq(S)
  OBVIOUS
<1>2. b \in Seq(S)
  OBVIOUS
<1> DEFINE c == <<x, y>>
<1>3. a \o b = c
  <2>1. c \in Seq(S) /\ Len(c) = 2 /\ c[1] = x /\ c[2] = y
    OBVIOUS
  <2>2. Len(a) = 1 /\ Len(b) = 1 /\ a[1] = x /\ b[1] = y
    OBVIOUS
  <2> HIDE DEF a, b, c
  <2>3. a \o b \in Seq(S) /\ Len(a \o b) = 2 /\ (a \o b)[1] = x /\ (a \o b)[2] = y
    <3> DEFINE d == a \o b
    <3>1. d \in Seq(S) /\ Len(d) = Len(a) + Len(b)
      BY <1>1, <1>2, ConcatProperties
    <3>2. \A i \in 1 .. Len(a) + Len(b) : d[i] = IF i <= Len(a) THEN a[i] ELSE b[i - Len(a)]
      BY <1>1, <1>2, ConcatProperties
    <3> HIDE DEF d
    <3>3. d[1] = a[1] /\ d[2] = b[1]
      BY <2>2, <3>2
    <3> QED
      BY <2>2, <3>1, <3>3 DEF d
  <2>4. \A i \in 1 .. 2 : (a \o b)[i] = c[i]
    BY <2>1, <2>3
  <2> QED
    BY <2>1, <2>3, <2>4, SeqEqual
<1> HIDE DEF a, b
<1>4. (q \o a) \o b = q \o (a \o b)
  BY <1>1, <1>2, ConcatAssociative
<1>5. q \o a \in Seq(S) /\ p \o (q \o a) = Append(p \o q, x)
  BY SendOne DEF a
<1>6. PICK r \in Seq(S) : r = q \o a
  BY <1>5
<1>7. r \o b \in Seq(S) /\ p \o (r \o b) = Append(p \o r, y)
  BY SendOne DEF b
<1> QED
  BY <1>3, <1>4, <1>5, <1>6, <1>7

\* The AMF takes the first message (AmfReceive).
LEMMA TakeOne ==
    ASSUME NEW S, NEW p \in Seq(S), NEW q \in Seq(S), p # <<>>
    PROVE  /\ Tail(p) \o q = Tail(p \o q)
           /\ Head(p \o q) = Head(p)
           /\ Head(p) \in S
           /\ p \o q # <<>>
           /\ p \o q \in Seq(S)
           /\ Tail(p) \in Seq(S)
<1> DEFINE l == Tail(p) \o q
           r == Tail(p \o q)
<1>1. Len(p) >= 1 /\ Len(q) \in Nat /\ Len(p) \in Nat
  OBVIOUS
<1>2. /\ Tail(p) \in Seq(S) /\ p \o q \in Seq(S) /\ p \o q # <<>>
      /\ Head(p \o q) = Head(p) /\ Head(p) \in S
  BY <1>1
<1>3. l \in Seq(S) /\ r \in Seq(S)
  BY <1>2
<1>4. Len(l) = Len(p) + Len(q) - 1 /\ Len(r) = Len(p) + Len(q) - 1
  BY <1>1
<1>5. ASSUME NEW i \in 1 .. Len(p) + Len(q) - 1 PROVE l[i] = r[i]
  BY <1>1
<1> QED
  BY <1>2, <1>3, <1>4, <1>5, SeqEqual

\* Somebody else's message at the end of the queue.
LEMMA AppendOther ==
    ASSUME NEW S, NEW q \in Seq(S), NEW x \in S, NEW v, NEW f, x.ran # v
    PROVE  UpKept(q, Append(q, x), v, f)
<1> DEFINE r == Append(q, x)
<1>1. /\ Len(q) \in Nat /\ Len(r) = Len(q) + 1 /\ r[Len(q) + 1] = x
      /\ \A j \in 1 .. Len(q) : r[j] = q[j]
  OBVIOUS
<1> HIDE DEF r
<1>2. UpNone(q, v, f) => UpNone(r, v, f)
  BY <1>1 DEF UpNone
<1>3. ASSUME NEW m, UpOne(q, v, f, m) PROVE UpOne(r, v, f, m)
  BY <1>1, <1>3 DEF UpOne
<1> QED
  BY <1>2, <1>3 DEF UpKept, r

\* A message of u at the end of the queue.
LEMMA AppendOwn ==
    ASSUME NEW S, NEW q \in Seq(S), NEW x \in S, NEW u, NEW e, x.ran = u,
           UpNone(q, u, e)
    PROVE  /\ Harmless(x, u, e) => UpNone(Append(q, x), u, e)
           /\ ~Harmless(x, u, e) => UpOne(Append(q, x), u, e, x)
<1> DEFINE r == Append(q, x)
<1>1. /\ Len(q) \in Nat /\ Len(r) = Len(q) + 1 /\ r[Len(q) + 1] = x
      /\ \A j \in 1 .. Len(q) : r[j] = q[j]
  OBVIOUS
<1> HIDE DEF r
<1>2. Harmless(x, u, e) => UpNone(r, u, e)
  BY <1>1 DEF UpNone
<1>3. ASSUME ~Harmless(x, u, e) PROVE UpOne(r, u, e, x)
  BY <1>1, <1>3 DEF UpOne, UpNone
<1> QED
  BY <1>2, <1>3 DEF r

\* The first message leaves; it is not the one v waits for.
LEMMA TakeOther ==
    ASSUME NEW S, NEW q \in Seq(S), q # <<>>, NEW v, NEW f,
           Head(q).ran # v \/ Harmless(Head(q), v, f)
    PROVE  UpKept(q, Tail(q), v, f)
<1> DEFINE r == Tail(q)
           h == Head(q)
<1>1. /\ Len(q) \in Nat /\ Len(q) >= 1 /\ Len(r) = Len(q) - 1 /\ h = q[1]
      /\ \A j \in 1 .. Len(q) - 1 : r[j] = q[j + 1]
  OBVIOUS
<1>0. h.ran # v \/ Harmless(h, v, f)
  OBVIOUS
<1> HIDE DEF r, h
<1>2. UpNone(q, v, f) => UpNone(r, v, f)
  BY <1>1 DEF UpNone
<1>3. ASSUME NEW m, UpOne(q, v, f, m) PROVE UpOne(r, v, f, m)
  <2>1. PICK i \in 1 .. Len(q) :
            /\ q[i] = m
            /\ \A j \in 1 .. Len(q) : (q[j].ran = v /\ j # i) =>
                  j < i /\ Harmless(q[j], v, f)
    BY <1>3 DEF UpOne
  <2>2. i # 1
    BY <1>0, <1>1, <1>3, <2>1 DEF UpOne
  <2>3. i - 1 \in 1 .. Len(r) /\ r[i - 1] = m
    BY <1>1, <2>1, <2>2
  <2>4. ASSUME NEW j \in 1 .. Len(r), r[j].ran = v, j # i - 1
        PROVE  j < i - 1 /\ Harmless(r[j], v, f)
    <3>1. j + 1 \in 1 .. Len(q) /\ r[j] = q[j + 1] /\ j + 1 # i
      BY <1>1, <2>4
    <3> QED
      BY <2>1, <2>4, <3>1
  <2> QED
    BY <1>3, <2>3, <2>4 DEF UpOne
<1> QED
  BY <1>2, <1>3 DEF UpKept, r

\* The message of u that the AMF will answer leaves: nothing of u is left.
LEMMA TakeOwn ==
    ASSUME NEW S, NEW q \in Seq(S), q # <<>>, NEW u, NEW e,
           Head(q).ran = u, ~Harmless(Head(q), u, e)
    PROVE  /\ ~UpNone(q, u, e)
           /\ \A m : UpOne(q, u, e, m) =>
                 m = Head(q) /\ \A f : UpNone(Tail(q), u, f)
<1> DEFINE r == Tail(q)
           h == Head(q)
<1>1. /\ Len(q) \in Nat /\ Len(q) >= 1 /\ Len(r) = Len(q) - 1 /\ h = q[1]
      /\ \A j \in 1 .. Len(q) - 1 : r[j] = q[j + 1]
  OBVIOUS
<1>0. h.ran = u /\ ~Harmless(h, u, e)
  OBVIOUS
<1> HIDE DEF r, h
<1>2. ~UpNone(q, u, e)
  BY <1>0, <1>1 DEF UpNone
<1>3. ASSUME NEW m, UpOne(q, u, e, m) PROVE m = h /\ \A f : UpNone(r, u, f)
  <2>1. PICK i \in 1 .. Len(q) :
            /\ q[i] = m
            /\ \A j \in 1 .. Len(q) : (q[j].ran = u /\ j # i) =>
                  j < i /\ Harmless(q[j], u, e)
    BY <1>3 DEF UpOne
  <2>2. i = 1
    BY <1>0, <1>1, <2>1
  <2>3. ASSUME NEW j \in 1 .. Len(r) PROVE r[j].ran # u
    BY <1>1, <2>1, <2>2
  <2> QED
    BY <1>1, <2>1, <2>2, <2>3 DEF UpNone
<1> QED
  BY <1>2, <1>3 DEF r, h

\* The end of the first queue is lost (UnderWayLost): of v, the rest holds what
\* there was or nothing the AMF will answer.
LEMMA CutOne ==
    ASSUME NEW S, NEW p \in Seq(S), NEW q \in Seq(S), NEW n \in 0 .. Len(p),
           NEW v, NEW f
    PROVE  LET o == p \o q
               r == SubSeq(p, 1, n) \o q
           IN  /\ SubSeq(p, 1, n) \in Seq(S)
               /\ UpNone(o, v, f) => UpNone(r, v, f)
               /\ \A m : UpOne(o, v, f, m) => UpOne(r, v, f, m) \/ UpNone(r, v, f)
<1> DEFINE o == p \o q
           c == SubSeq(p, 1, n)
           r == c \o q
           d == Len(p) - n
           from(j) == IF j <= n THEN j ELSE j + d
<1>1. Len(p) \in Nat /\ Len(q) \in Nat /\ n \in Nat /\ d \in Nat /\ Len(p) = n + d
  OBVIOUS
<1>2. c \in Seq(S) /\ Len(c) = n /\ \A j \in 1 .. n : c[j] = p[j]
  OBVIOUS
<1>3. Len(o) = Len(p) + Len(q) /\ Len(r) = n + Len(q)
  BY <1>1, <1>2
<1>4. ASSUME NEW j \in 1 .. n + Len(q)
      PROVE  from(j) \in 1 .. Len(o) /\ r[j] = o[from(j)]
  <2>1. CASE j <= n
    BY <1>1, <1>2, <1>3, <2>1
  <2>2. CASE ~(j <= n)
    <3>1. r[j] = q[j - n]
      BY <1>1, <1>2, <2>2
    <3>2. o[j + d] = q[j - n]
      BY <1>1, <2>2
    <3> QED
      BY <1>1, <1>3, <2>2, <3>1, <3>2
  <2> QED
    BY <2>1, <2>2
<1>5. \A j, k \in 1 .. n + Len(q) : from(j) < from(k) => j < k
  BY <1>1
<1>6. \A i \in 1 .. Len(o) : (i <= n \/ i > Len(p)) =>
         \E k \in 1 .. n + Len(q) : from(k) = i
  <2> SUFFICES ASSUME NEW i \in 1 .. Len(o), i <= n \/ i > Len(p)
               PROVE  \E k \in 1 .. n + Len(q) : from(k) = i
    OBVIOUS
  <2>1. CASE i <= n
    BY <1>1, <2>1
  <2>2. CASE i > Len(p)
    <3>1. i - d \in 1 .. n + Len(q) /\ ~(i - d <= n) /\ (i - d) + d = i
      BY <1>1, <1>3, <2>2
    <3> QED
      BY <3>1
  <2> QED
    BY <2>1, <2>2
<1>7. \A j \in 1 .. n + Len(q) : from(j) <= n \/ from(j) > Len(p)
  BY <1>1
<1> HIDE DEF o, c, r, d, from
<1>8. UpNone(o, v, f) => UpNone(r, v, f)
  BY <1>3, <1>4 DEF UpNone
<1>9. ASSUME NEW m, UpOne(o, v, f, m) PROVE UpOne(r, v, f, m) \/ UpNone(r, v, f)
  <2>1. PICK i \in 1 .. Len(o) :
            /\ o[i] = m
            /\ \A j \in 1 .. Len(o) : (o[j].ran = v /\ j # i) =>
                  j < i /\ Harmless(o[j], v, f)
    BY <1>9 DEF UpOne
  <2>2. m.ran = v /\ ~Harmless(m, v, f)
    BY <1>9 DEF UpOne
  <2>3. CASE i <= n \/ i > Len(p)
    <3>1. PICK k \in 1 .. Len(r) : from(k) = i
      BY <1>3, <1>6, <2>3
    <3>2. r[k] = m
      BY <1>3, <1>4, <2>1, <3>1
    <3>3. ASSUME NEW j \in 1 .. Len(r), r[j].ran = v, j # k
          PROVE  j < k /\ Harmless(r[j], v, f)
      <4>1. from(j) \in 1 .. Len(o) /\ r[j] = o[from(j)]
        BY <1>3, <1>4
      <4>2. from(j) # i
        <5>1. k < j \/ j < k
          BY <1>1, <1>3, <3>3
        <5> QED
          BY <1>1, <1>3, <3>1, <5>1 DEF from
      <4>3. from(j) < i /\ Harmless(r[j], v, f)
        BY <2>1, <3>3, <4>1, <4>2
      <4> QED
        BY <1>3, <1>5, <3>1, <4>3
    <3> QED
      BY <2>2, <3>2, <3>3 DEF UpOne
  <2>4. CASE ~(i <= n \/ i > Len(p))
    <3>1. \A j \in 1 .. Len(r) : r[j].ran = v => Harmless(r[j], v, f)
      BY <1>3, <1>4, <1>7, <2>1, <2>4
    <3> QED
      BY <3>1 DEF UpNone
  <2> QED
    BY <2>3, <2>4
<1> QED
  BY <1>2, <1>8, <1>9 DEF o, c, r

-----------------------------------------------------------------------------
(* A step that is not about v.                                             *)

CoreKept(v, f) ==
    /\ Unknown(v, f) => Unknown(v, f)'
    /\ Spawned(v, f) => Spawned(v, f)'
    /\ Challenged(v, f) => Challenged(v, f)'
    /\ Verified(v, f) => Verified(v, f)'
    /\ Active(v, f) => /\ Active(v, f)'
                       /\ ent'[f].tunnel.ul_teid = ent[f].tunnel.ul_teid
    /\ Gone(v, f) => Gone(v, f)'

DownKept(v) ==
    /\ DownNone(v) => DownNone(v)'
    /\ \A m : DownOne(v, m) => DownOne(v, m)'
    /\ \A a, b : DownTwo(v, a, b) => DownTwo(v, a, b)'

\* What v was told about its TEID stays so, and new mail comes when it is so.
TeidKept(v, t) ==
    /\ Settled(t) => Settled(t)'
    /\ ngap_rx'[v] # ngap_rx[v] => Settled(t)'

Kept(v, f) ==
    /\ ue'[v] = ue[v]
    /\ CoreKept(v, f)
    /\ UpKept(pipe, pipe', v, f)
    /\ DownKept(v)
    /\ Active(v, f) => TeidKept(v, ent[f].tunnel.ul_teid)

\* A stage depends on nothing else.
LEMMA KeptStage ==
    ASSUME NEW v \in Ue, NEW f, Kept(v, f), Stage(v, f)
    PROVE  Stage(v, f)'
<1>1. /\ ue'[v] = ue[v] /\ CoreKept(v, f) /\ DownKept(v)
      /\ UpNone(pipe, v, f) => UpNone(pipe', v, f)
      /\ \A m : UpOne(pipe, v, f, m) => UpOne(pipe', v, f, m)
      /\ Active(v, f) => TeidKept(v, ent[f].tunnel.ul_teid)
  BY DEF Kept, UpKept
<1>2. /\ Looping(v, f) => Looping(v, f)' 
      /\ Looping(v, None) => Looping(v, None)'
      /\ Keyed(v, f) => Keyed(v, f)'
  BY <1>1 DEF Looping, Keyed
<1>3. CASE Starting(v, f)
  BY <1>1, <1>3 DEF Starting, CoreKept, DownKept, Stage
<1>4. CASE Requesting(v, f)
  BY <1>1, <1>2, <1>4 DEF Requesting, CoreKept, DownKept, Stage
<1>5. CASE Identifying(v, f)
  BY <1>1, <1>2, <1>5 DEF Identifying, CoreKept, DownKept, Stage
<1>6. CASE Identified(v, f)
  BY <1>1, <1>2, <1>6 DEF Identified, CoreKept, DownKept, Stage
<1>7. CASE Challenging(v, f)
  BY <1>1, <1>2, <1>7 DEF Challenging, CoreKept, DownKept, Stage
<1>8. CASE Answering(v, f)
  BY <1>1, <1>2, <1>8 DEF Answering, CoreKept, DownKept, Stage
<1>9. CASE Commanding(v, f)
  BY <1>1, <1>2, <1>9 DEF Commanding, CoreKept, DownKept, Stage
<1>10. CASE Complying(v, f)
  BY <1>1, <1>2, <1>10 DEF Complying, CoreKept, DownKept, Stage
<1>11. CASE Accepting(v, f)
  BY <1>1, <1>2, <1>11 DEF Accepting, CoreKept, DownKept, TeidKept, Stage
<1>12. CASE Online(v, f)
  BY <1>1, <1>12 DEF Online, CoreKept, DownKept, TeidKept, Stage
<1>13. CASE Leaving(v, f)
  BY <1>1, <1>2, <1>13 DEF Leaving, CoreKept, DownKept, Stage
<1>14. CASE Releasing(v, f)
  BY <1>1, <1>2, <1>14 DEF Releasing, CoreKept, DownKept, Stage
<1>15. CASE Released(v, f)
  BY <1>1, <1>15 DEF Released, CoreKept, DownKept, Stage
<1>16. CASE Offline(v, f)
  BY <1>1, <1>16 DEF Offline, CoreKept, DownKept, Stage
<1> QED
  BY <1>3, <1>4, <1>5, <1>6, <1>7, <1>8, <1>9, <1>10, <1>11, <1>12, <1>13,
     <1>14, <1>15, <1>16 DEF Stage

\* A slot whose tunnel may have got another downlink TEID, and nothing else.
Alike(s, n) ==
    /\ n.live = s.live
    /\ n.imsi = s.imsi
    /\ n.xres = s.xres
    /\ n.ck = s.ck
    /\ n.nas = s.nas
    /\ s.tunnel # None => n.tunnel # None /\ n.tunnel.ul_teid = s.tunnel.ul_teid

\* The core's side of a stage: slot, index entry and SQN of one subscriber.
LEMMA CoreFrame ==
    ASSUME NEW v \in Ue, NEW f, registry'[v] = registry[v], sqn'[v] = sqn[v],
           f \in EntityId => Alike(ent[f], ent'[f])
    PROVE  CoreKept(v, f)
<1>1. Unknown(v, f) => Unknown(v, f)'
  BY DEF Unknown
<1>2. Gone(v, f) => Gone(v, f)'
  BY DEF Gone
<1>3. ASSUME f \in LiveIds PROVE f \in LiveIds' /\ Alike(ent[f], ent'[f])
  BY <1>3 DEF LiveIds, is_live, Alike
<1>4. Spawned(v, f) => Spawned(v, f)'
  BY <1>3 DEF Spawned, Alike
<1>5. Bound(v, f) => Bound(v, f)'
  BY <1>3 DEF Bound, Alike
<1>6. Challenged(v, f) => Challenged(v, f)'
  BY <1>3, <1>5 DEF Challenged, Bound, Alike
<1>7. Verified(v, f) => Verified(v, f)'
  BY <1>3, <1>5 DEF Verified, Bound, Alike
<1>8. Active(v, f) => /\ Active(v, f)'
                      /\ ent'[f].tunnel.ul_teid = ent[f].tunnel.ul_teid
  BY <1>3, <1>5 DEF Active, Bound, Alike
<1> QED
  BY <1>1, <1>2, <1>4, <1>6, <1>7, <1>8 DEF CoreKept

\* The same slot is alike.
LEMMA AlikeSelf == \A s : Alike(s, s)
BY DEF Alike

\* The way down: the channel of v stays, and the AMF answers somebody else.
LEMMA DownFrame ==
    ASSUME NEW v \in Ue, ngap_rx'[v] = ngap_rx[v],
           \/ responses' = responses
           \/ responses = <<>> /\ Unaddressed(v)'
    PROVE  DownKept(v)
<1>1. CASE responses' = responses
  BY <1>1 DEF DownKept, DownNone, DownOne, DownTwo, Unaddressed
<1>2. CASE responses = <<>> /\ Unaddressed(v)'
  BY <1>2 DEF DownKept, DownNone, DownOne, DownTwo
<1> QED
  BY <1>1, <1>2

\* Only UE tasks and the dispatcher move.
LEMMA UeFrame ==
    ASSUME NEW v \in Ue, NEW f, UNCHANGED loopVars, ue'[v] = ue[v],
           ngap_rx'[v] = ngap_rx[v], UpKept(pipe, pipe', v, f)
    PROVE  Kept(v, f)
<1>1. /\ registry' = registry /\ sqn' = sqn /\ ent' = ent
      /\ responses' = responses /\ events' = events
  BY DEF loopVars, cpVars
<1>2. CoreKept(v, f)
  BY <1>1, CoreFrame, AlikeSelf
<1>3. DownKept(v)
  BY <1>1, DownFrame
<1>4. \A t : TeidKept(v, t)
  BY <1>1 DEF TeidKept, Settled, Queued
<1> QED
  BY <1>2, <1>3, <1>4 DEF Kept

\* No UE is concerned.
LEMMA AllStay ==
    ASSUME SimInv, LoopInv', SimTypeOK',
           \A v \in Ue, f \in EntityId \cup {None} : Kept(v, f)
    PROVE  SimInv'
<1>1. PICK b \in Bindings : \A v \in Ue : Stage(v, b[v])
  BY DEF SimInv
<1>2. \A v \in Ue : b[v] \in EntityId \cup {None}
  BY DEF Bindings
<1>3. ASSUME NEW v \in Ue PROVE Stage(v, b[v])'
  <2>1. PICK f \in EntityId \cup {None} : f = b[v]
    BY <1>2
  <2>2. Stage(v, f)'
    BY <1>1, <2>1, KeptStage
  <2> QED
    BY <2>1, <2>2
<1>4. Bindings' = Bindings
  BY DEF Bindings
<1> QED
  BY <1>3, <1>4 DEF SimInv

\* One UE moves on, with the entity it had, a fresh one or none.
LEMMA OneMoves ==
    ASSUME LoopInv', SimTypeOK', NEW b \in Bindings, \A v \in Ue : Stage(v, b[v]),
           NEW u \in Ue, NEW e \in EntityId \cup {None}, Stage(u, e)',
           \A v \in Ue \ {u} : Kept(v, b[v]),
           e # None => \A v \in Ue \ {u} : b[v] # e
    PROVE  SimInv'
<1> DEFINE c == [b EXCEPT ![u] = e]
<1>1. c \in Bindings
  BY DEF Bindings
<1>2. c[u] = e /\ \A v \in Ue \ {u} : c[v] = b[v]
  BY DEF Bindings
<1> HIDE DEF c
<1>3. ASSUME NEW v \in Ue \ {u} PROVE Stage(v, c[v])'
  <2>1. PICK f : f = b[v]
    OBVIOUS
  <2>2. Stage(v, f)'
    BY <2>1, KeptStage
  <2> QED
    BY <1>2, <2>1, <2>2
<1>4. Stage(u, c[u])'
  BY <1>2
<1>5. \A v \in Ue : Stage(v, c[v])'
  BY <1>3, <1>4
<1> QED
  BY <1>1, <1>5 DEF SimInv

-----------------------------------------------------------------------------
(* Steps that are about no UE.                                             *)

\* A queue that stays keeps everything.
LEMMA UpSame == \A q, v, f : UpKept(q, q, v, f)
BY DEF UpKept

\* Nothing an UE's stage is made of changes.
LEMMA StillStep ==
    ASSUME SimInv, UNCHANGED <<loopVars, ue, ngap_rx>>, pipe' = pipe,
           up' \in Seq(UplinkMsg), out_q' \in Seq(UplinkMsg)
    PROVE  SimInv'
<1>1. LoopInv'
  BY LoopStutter DEF SimInv
<1>2. responses' = responses
  BY DEF loopVars, cpVars
<1>3. SimTypeOK'
  BY <1>2 DEF SimInv, SimTypeOK
<1>4. \A v \in Ue, f \in EntityId \cup {None} : Kept(v, f)
  BY UeFrame, UpSame
<1> QED
  BY <1>1, <1>3, <1>4, AllStay

\* The dispatcher's send half: a message changes queues, not its place.
LEMMA DispatchStep ==
    ASSUME SimInv, Dispatch
    PROVE  SimInv'
<1>1. up \in Seq(UplinkMsg) /\ out_q \in Seq(UplinkMsg) /\ out_q # <<>>
  BY DEF SimInv, SimTypeOK, Dispatch
<1>2. pipe' = pipe
  BY <1>1, MoveOne DEF Dispatch, pipe
<1>3. up' \in Seq(UplinkMsg) /\ out_q' \in Seq(UplinkMsg)
  BY <1>1 DEF Dispatch
<1> QED
  BY <1>2, <1>3, StillStep DEF Dispatch

\* Join, the user plane, the end of the run.
LEMMA IdleStep ==
    ASSUME SimInv, UNCHANGED <<loopVars, ue, ngap_rx, out_q, up>>
    PROVE  SimInv'
<1>1. up' \in Seq(UplinkMsg) /\ out_q' \in Seq(UplinkMsg)
  BY DEF SimInv, SimTypeOK
<1>2. pipe' = pipe
  BY DEF pipe
<1> QED
  BY <1>1, <1>2, StillStep

\* UE tasks leave the core's side and the settled TEIDs alone.
LEMMA CoreStill ==
    ASSUME NEW u \in Ue, NEW e, UNCHANGED loopVars
    PROVE  /\ CoreKept(u, e) /\ responses' = responses /\ ent' = ent
           /\ \A t : Settled(t) => Settled(t)'
<1>1. /\ registry' = registry /\ sqn' = sqn /\ ent' = ent
      /\ responses' = responses /\ events' = events
  BY DEF loopVars, cpVars
<1> QED
  BY <1>1, CoreFrame, AlikeSelf DEF Settled, Queued

\* The link was dropped: all UE tasks have ended, and what they had under way is
\* lost in part.
LEMMA UnderWayLostStep ==
    ASSUME SimInv, Joined, UnderWayLost
    PROVE  SimInv'
<1>1. PICK n \in 0 .. Len(up) : up' = SubSeq(up, 1, n)
  BY DEF UnderWayLost
<1>2. /\ UNCHANGED loopVars /\ ue' = ue /\ ngap_rx' = ngap_rx /\ out_q' = out_q
      /\ \A v \in Ue : ue[v].pc \in Final
  BY DEF UnderWayLost, Joined
<1>3. up \in Seq(UplinkMsg) /\ out_q \in Seq(UplinkMsg)
  BY DEF SimInv, SimTypeOK
<1>4. up' \in Seq(UplinkMsg)
  BY <1>1, <1>3, CutOne
<1>5. responses' = responses
  BY <1>2 DEF loopVars, cpVars
<1>6. LoopInv' /\ SimTypeOK'
  BY <1>2, <1>4, <1>5, LoopStutter DEF SimInv, SimTypeOK
<1>7. ASSUME NEW v \in Ue, NEW f, Stage(v, f) PROVE Stage(v, f)'
  <2>1. CoreKept(v, f) /\ ent' = ent /\ (\A t : Settled(t) => Settled(t)') /\ DownKept(v)
    BY <1>2, <1>5, CoreStill, DownFrame
  <2>2. /\ UpNone(pipe, v, f) => UpNone(pipe', v, f)
        /\ \A m : UpOne(pipe, v, f, m) => UpOne(pipe', v, f, m) \/ UpNone(pipe', v, f)
    BY <1>1, <1>2, <1>3, CutOne DEF pipe
  <2>3. Online(v, f) \/ Released(v, f) \/ Offline(v, f)
    BY <1>2, <1>7
       DEF Stage, Starting, Requesting, Identifying, Identified, Challenging, Answering,
           Commanding, Complying, Accepting, Leaving, Releasing, Looping, Keyed, Final
  <2>4. CASE Online(v, f)
    BY <1>2, <2>1, <2>2, <2>4 DEF Online, CoreKept, DownKept, Stage
  <2>5. CASE Released(v, f)
    BY <1>2, <2>1, <2>2, <2>5 DEF Released, CoreKept, DownKept, Stage
  <2>6. CASE Offline(v, f)
    BY <1>2, <2>1, <2>2, <2>6 DEF Offline, CoreKept, DownKept, Stage
  <2> QED
    BY <2>3, <2>4, <2>5, <2>6
<1>8. PICK b \in Bindings : \A v \in Ue : Stage(v, b[v])
  BY DEF SimInv
<1>9. ASSUME NEW v \in Ue PROVE Stage(v, b[v])'
  <2>1. PICK f : f = b[v]
    OBVIOUS
  <2>2. Stage(v, f)'
    BY <1>7, <1>8, <2>1
  <2> QED
    BY <2>1, <2>2
<1> QED
  BY <1>6, <1>8, <1>9 DEF SimInv, Bindings

\* The UPF catches up with the core.
LEMMA AmfApplyStep ==
    ASSUME SimInv, AmfApply
    PROVE  SimInv'
<1>1. LoopInv'
  BY N3InvInductive DEF SimInv, AmfApply, N3Next
<1>2. /\ UNCHANGED coreVars /\ responses' = responses
      /\ events' = events \/ events' = <<>>
  BY HeadEvent DEF SimInv, AmfApply, ApplyEvent, ServeCall, cpVars, coreVars
<1>3. /\ ue' = ue /\ ngap_rx' = ngap_rx /\ pipe' = pipe
      /\ up' = up /\ out_q' = out_q
  BY DEF AmfApply, chanVars, pipe
<1>4. SimTypeOK'
  BY <1>2, <1>3 DEF SimInv, SimTypeOK
<1>5. ASSUME NEW v \in Ue, NEW f \in EntityId \cup {None} PROVE Kept(v, f)
  <2>1. CoreKept(v, f)
    BY <1>2, CoreFrame, AlikeSelf DEF coreVars
  <2>2. DownKept(v)
    BY <1>2, <1>3, DownFrame
  <2>3. \A t : TeidKept(v, t)
    BY <1>2, <1>3 DEF TeidKept, Settled, Queued
  <2> QED
    BY <1>3, <2>1, <2>2, <2>3, UpSame DEF Kept
<1> QED
  BY <1>1, <1>4, <1>5, AllStay

\* The AMF sends its next response: it was on its way, and is now in the
\* channel of the UE it names.  All events have been applied.
LEMMA AmfSendStep ==
    ASSUME SimInv, AmfSend
    PROVE  SimInv'
<1> DEFINE h == Head(responses)
<1>1. LoopInv'
  BY N3InvInductive DEF SimInv, AmfSend, N3Next
<1>2. /\ UNCHANGED coreVars /\ events = <<>> /\ events' = <<>>
      /\ responses # <<>> /\ responses' = Tail(responses)
      /\ ngap_rx' = [ngap_rx EXCEPT ![h.ran] = Append(@, h)]
      /\ ue' = ue /\ pipe' = pipe /\ up' = up /\ out_q' = out_q
  BY DEF AmfSend, SendResponse, pipe
<1>3. \/ \E a : responses = <<a>> /\ responses' = <<>> /\ h = a
      \/ \E a, c : responses = <<a, c>> /\ responses' = <<c>> /\ h = a
  <2>1. (\E a : responses = <<a>>) \/ (\E a, c : responses = <<a, c>>)
    BY <1>2 DEF SimInv, LoopInv, Answers, Short
  <2>2. ASSUME NEW a, responses = <<a>> PROVE responses' = <<>> /\ h = a
    BY <1>2, <2>2
  <2>3. ASSUME NEW a, NEW c, responses = <<a, c>> PROVE responses' = <<c>> /\ h = a
    BY <1>2, <2>3
  <2> QED
    BY <2>1, <2>2, <2>3
<1>4. SimTypeOK'
  BY <1>2, <1>3 DEF SimInv, SimTypeOK
<1>5. ASSUME NEW v \in Ue PROVE DownKept(v)
  <2>1. Unaddressed(v) => Unaddressed(v)' /\ h.ran # v
    BY <1>3 DEF Unaddressed
  <2>2. h.ran # v => ngap_rx'[v] = ngap_rx[v]
    BY <1>2 DEF SimInv, SimTypeOK
  <2>3. h.ran = v => ngap_rx'[v] = Append(ngap_rx[v], h)
    BY <1>2 DEF SimInv, SimTypeOK
  <2> HIDE DEF h
  <2>4. DownNone(v) => DownNone(v)'
    BY <2>1, <2>2 DEF DownNone
  <2>5. ASSUME NEW m, DownOne(v, m) PROVE DownOne(v, m)'
    <3>1. CASE ngap_rx[v] = <<m>> /\ Unaddressed(v)
      BY <2>1, <2>2, <2>5, <3>1 DEF DownOne
    <3>2. CASE ngap_rx[v] = <<>> /\ responses = <<m>>
      <4>1. h = m /\ responses' = <<>> /\ h.ran = v
        BY <1>3, <2>5, <3>2 DEF DownOne
      <4>2. ngap_rx'[v] = <<m>>
        BY <2>3, <3>2, <4>1
      <4> QED
        BY <2>5, <4>1, <4>2 DEF DownOne, Unaddressed
    <3> QED
      BY <2>5, <3>1, <3>2 DEF DownOne
  <2>6. ASSUME NEW a, NEW c, DownTwo(v, a, c) PROVE DownTwo(v, a, c)'
    <3>1. CASE ngap_rx[v] = <<a, c>> /\ Unaddressed(v)
      BY <2>1, <2>2, <2>6, <3>1 DEF DownTwo
    <3>2. CASE ngap_rx[v] = <<a>> /\ responses = <<c>>
      <4>1. h = c /\ responses' = <<>> /\ h.ran = v
        BY <1>3, <2>6, <3>2 DEF DownTwo
      <4>2. ngap_rx'[v] = <<a, c>>
        BY <2>3, <3>2, <4>1
      <4> QED
        BY <2>6, <4>1, <4>2 DEF DownTwo, Unaddressed
    <3>3. CASE ngap_rx[v] = <<>> /\ responses = <<a, c>>
      <4>1. h = a /\ responses' = <<c>> /\ h.ran = v
        BY <1>3, <2>6, <3>3 DEF DownTwo
      <4>2. ngap_rx'[v] = <<a>>
        BY <2>3, <3>3, <4>1
      <4> QED
        BY <2>6, <4>1, <4>2 DEF DownTwo
    <3> QED
      BY <2>6, <3>1, <3>2, <3>3 DEF DownTwo
  <2> QED
    BY <2>4, <2>5, <2>6 DEF DownKept
<1>6. ASSUME NEW v \in Ue, NEW f \in EntityId \cup {None} PROVE Kept(v, f)
  <2>1. CoreKept(v, f)
    BY <1>2, CoreFrame, AlikeSelf DEF coreVars
  <2>2. \A t : TeidKept(v, t)
    BY <1>2 DEF TeidKept, Settled, Queued
  <2> QED
    BY <1>2, <1>5, <2>1, <2>2, UpSame DEF Kept
<1> QED
  BY <1>1, <1>4, <1>6, AllStay

-----------------------------------------------------------------------------
(* The messages a UE sends.                                                *)

\* They are what process_ngap expects, and name their sender.
LEMMA UplinkTyped ==
    ASSUME NEW u \in Ue
    PROVE  /\ InitialUeMessage(u) \in UplinkMsg /\ InitialUeMessage(u).ran = u
           /\ \A e \in EntityId :
                 /\ IcsResponse(u, e) \in UplinkMsg /\ IcsResponse(u, e).ran = u
                 /\ ReleaseComplete(u, e) \in UplinkMsg /\ ReleaseComplete(u, e).ran = u
                 /\ \A pdu \in UplinkPdu :
                       Uplink(u, e, pdu) \in UplinkMsg /\ Uplink(u, e, pdu).ran = u
<1>1. /\ InitialUeMessage(u).ran = u
      /\ \A e, pdu : /\ IcsResponse(u, e).ran = u
                     /\ ReleaseComplete(u, e).ran = u
                     /\ Uplink(u, e, pdu).ran = u
  BY DEF InitialUeMessage, IcsResponse, ReleaseComplete, Uplink
<1> QED
  BY <1>1 DEF UplinkMsg

\* The NAS messages among them.
LEMMA PduTyped ==
    ASSUME NEW u \in Ue
    PROVE  /\ IdentityResponse(u) \in UplinkPdu
           /\ MaxSqn > 0 => AuthenticationResponse(u) \in UplinkPdu
           /\ SecurityModeComplete \in UplinkPdu
           /\ [type |-> "RegistrationComplete"] \in UplinkPdu
           /\ DeregistrationRequest \in UplinkPdu
<1>1. [scheme |-> 0, msin |-> u] \in Suci
  BY SimAssumption DEF Suci
<1>2. IdentityResponse(u) \in UplinkPdu
  BY <1>1 DEF UplinkPdu, IdentityResponse
<1>3. MaxSqn > 0 => UeVector(u) \in Vectors
  BY SimAssumption, HssAssumption DEF UeVector, Vectors
<1>4. MaxSqn > 0 => AuthenticationResponse(u) \in UplinkPdu
  BY <1>3 DEF UplinkPdu, Responses, AuthenticationResponse
<1> QED
  BY <1>2, <1>4 DEF UplinkPdu, SecurityModeComplete, DeregistrationRequest

\* What the AMF answers and what it does not answer is told apart.
LEMMA NotHarmless ==
    ASSUME NEW u, NEW e
    PROVE  /\ ~Harmless(InitialUeMessage(u), u, e)
           /\ ~Harmless(Uplink(u, e, IdentityResponse(u)), u, e)
           /\ ~Harmless(Uplink(u, e, AuthenticationResponse(u)), u, e)
           /\ ~Harmless(Uplink(u, e, SecurityModeComplete), u, e)
           /\ ~Harmless(Uplink(u, e, DeregistrationRequest), u, e)
           /\ ~Harmless(ReleaseComplete(u, e), u, e)
<1> DEFINE ics == IcsResponse(u, e)
           complete == Uplink(u, e, [type |-> "RegistrationComplete"])
<1>1. /\ ics.type = "InitialContextSetupResponse"
      /\ complete.type = "UplinkNasTransport" /\ complete.pdu.type = "RegistrationComplete"
  BY DEF IcsResponse, Uplink
<1>2. /\ InitialUeMessage(u).type = "InitialUeMessage"
      /\ ReleaseComplete(u, e).type = "UeContextReleaseComplete"
      /\ \A pdu : Uplink(u, e, pdu).type = "UplinkNasTransport" /\ Uplink(u, e, pdu).pdu = pdu
  BY DEF InitialUeMessage, ReleaseComplete, Uplink
<1>3. /\ IdentityResponse(u).type = "IdentityResponse"
      /\ AuthenticationResponse(u).type = "AuthenticationResponse"
      /\ SecurityModeComplete.type = "SecurityModeComplete"
      /\ DeregistrationRequest.type = "DeregistrationRequest"
  BY DEF IdentityResponse, AuthenticationResponse, SecurityModeComplete,
         DeregistrationRequest
<1> HIDE DEF ics, complete
<1> QED
  BY <1>1, <1>2, <1>3 DEF Harmless, ics, complete

\* The channel and the link together get the message.
LEMMA PipeSent ==
    ASSUME SimTypeOK, up' = up, NEW x \in UplinkMsg, out_q' = out_q \o <<x>>
    PROVE  /\ pipe \in Seq(UplinkMsg) /\ pipe' = Append(pipe, x)
           /\ out_q' \in Seq(UplinkMsg)
<1>1. up \in Seq(UplinkMsg) /\ out_q \in Seq(UplinkMsg)
  BY DEF SimTypeOK
<1> QED
  BY <1>1, SendOne DEF pipe

\* The same for InitialContextSetupResponse and RegistrationComplete.
LEMMA PipeSentBoth ==
    ASSUME SimTypeOK, up' = up, NEW x \in UplinkMsg, NEW y \in UplinkMsg,
           out_q' = out_q \o <<x, y>>
    PROVE  /\ pipe \in Seq(UplinkMsg) /\ pipe' = Append(Append(pipe, x), y)
           /\ out_q' \in Seq(UplinkMsg)
<1>1. up \in Seq(UplinkMsg) /\ out_q \in Seq(UplinkMsg)
  BY DEF SimTypeOK
<1> QED
  BY <1>1, SendBoth DEF pipe

\* A step of the task of u: its locals, its channel, and what it sends.
UeMoved(u) ==
    /\ UNCHANGED loopVars
    /\ up' = up
    /\ \E l \in UeLocals : ue' = [ue EXCEPT ![u] = l]
    /\ DOMAIN ngap_rx' = Ue
    /\ \A v \in Ue \ {u} : ngap_rx'[v] = ngap_rx[v]
    /\ \/ out_q' = out_q
       \/ \E x \in UplinkMsg : x.ran = u /\ out_q' = out_q \o <<x>>
       \/ \E x, y \in UplinkMsg :
             x.ran = u /\ y.ran = u /\ out_q' = out_q \o <<x, y>>

\* It concerns nobody else.
LEMMA UeMovedKeeps ==
    ASSUME LoopInv, SimTypeOK, NEW b \in Bindings, \A v \in Ue : Stage(v, b[v]),
           NEW u \in Ue, UeMoved(u), Stage(u, b[u])'
    PROVE  SimInv'
<1>1. /\ UNCHANGED loopVars /\ up' = up /\ DOMAIN ngap_rx' = Ue
      /\ \A v \in Ue \ {u} : ngap_rx'[v] = ngap_rx[v]
  BY DEF UeMoved
<1>2. /\ ue' \in [Ue -> UeLocals]
      /\ \A v \in Ue \ {u} : ue'[v] = ue[v]
  BY DEF UeMoved, SimTypeOK
<1>3. /\ out_q' \in Seq(UplinkMsg)
      /\ \A f : \A v \in Ue \ {u} : UpKept(pipe, pipe', v, f)
  <2>1. CASE out_q' = out_q
    <3>1. pipe' = pipe
      BY <1>1, <2>1 DEF pipe
    <3> QED
      BY <2>1, <3>1, UpSame DEF SimTypeOK
  <2>2. ASSUME NEW x \in UplinkMsg, x.ran = u, out_q' = out_q \o <<x>>
        PROVE  /\ out_q' \in Seq(UplinkMsg)
               /\ \A f : \A v \in Ue \ {u} : UpKept(pipe, pipe', v, f)
    <3>1. pipe \in Seq(UplinkMsg) /\ pipe' = Append(pipe, x) /\ out_q' \in Seq(UplinkMsg)
      BY <1>1, <2>2, PipeSent
    <3> QED
      BY <2>2, <3>1, AppendOther
  <2>3. ASSUME NEW x \in UplinkMsg, NEW y \in UplinkMsg, x.ran = u, y.ran = u,
               out_q' = out_q \o <<x, y>>
        PROVE  /\ out_q' \in Seq(UplinkMsg)
               /\ \A f : \A v \in Ue \ {u} : UpKept(pipe, pipe', v, f)
    <3>1. /\ pipe \in Seq(UplinkMsg) /\ pipe' = Append(Append(pipe, x), y)
          /\ out_q' \in Seq(UplinkMsg)
      BY <1>1, <2>3, PipeSentBoth
    <3> DEFINE q == Append(pipe, x)
    <3>2. q \in Seq(UplinkMsg) /\ pipe' = Append(q, y)
      BY <3>1
    <3>3. \A f : \A v \in Ue \ {u} : UpKept(pipe, q, v, f) /\ UpKept(q, pipe', v, f)
      BY <2>3, <3>1, <3>2, AppendOther
    <3> QED
      BY <3>1, <3>3 DEF UpKept
  <2> QED
    BY <2>1, <2>2, <2>3 DEF UeMoved
<1>4. LoopInv'
  BY <1>1, LoopStutter
<1>5. SimTypeOK'
  BY <1>1, <1>2, <1>3 DEF SimTypeOK, loopVars, cpVars
<1>6. ASSUME NEW v \in Ue \ {u} PROVE Kept(v, b[v])
  <2>1. PICK f : f = b[v]
    OBVIOUS
  <2>2. Kept(v, f)
    BY <1>1, <1>2, <1>3, UeFrame
  <2> QED
    BY <2>1, <2>2
<1>7. PICK e \in EntityId \cup {None} : e = b[u]
  BY DEF Bindings
<1>8. e # None => \A v \in Ue \ {u} : b[v] # e
  BY <1>7 DEF Bindings
<1>9. Stage(u, e)'
  BY <1>7
<1> QED
  BY <1>4, <1>5, <1>6, <1>8, <1>9, OneMoves

-----------------------------------------------------------------------------
(* The UE tasks.                                                           *)

\* What is on its way to u when its task takes the next message.
LEMMA MailTaken ==
    ASSUME SimTypeOK, NEW u \in Ue, ngap_rx[u] # <<>>,
           ngap_rx' = [ngap_rx EXCEPT ![u] = Tail(@)], responses' = responses
    PROVE  /\ DOMAIN ngap_rx' = Ue
           /\ \A v \in Ue \ {u} : ngap_rx'[v] = ngap_rx[v]
           /\ \A m : DownOne(u, m) => Head(ngap_rx[u]) = m /\ DownNone(u)'
           /\ \A a, b : DownTwo(u, a, b) => Head(ngap_rx[u]) = a /\ DownOne(u, b)'
<1>1. /\ DOMAIN ngap_rx' = Ue /\ ngap_rx'[u] = Tail(ngap_rx[u])
      /\ \A v \in Ue \ {u} : ngap_rx'[v] = ngap_rx[v]
  BY DEF SimTypeOK
<1>2. Unaddressed(u) => Unaddressed(u)'
  BY DEF Unaddressed
<1>3. ASSUME NEW m, DownOne(u, m) PROVE Head(ngap_rx[u]) = m /\ DownNone(u)'
  <2>1. ngap_rx[u] = <<m>> /\ Unaddressed(u)
    BY <1>3 DEF DownOne
  <2>2. Head(ngap_rx[u]) = m /\ Tail(ngap_rx[u]) = <<>>
    BY <2>1
  <2> QED
    BY <1>1, <1>2, <2>1, <2>2 DEF DownNone
<1>4. ASSUME NEW a, NEW b, DownTwo(u, a, b)
      PROVE  Head(ngap_rx[u]) = a /\ DownOne(u, b)'
  <2>1. CASE ngap_rx[u] = <<a, b>> /\ Unaddressed(u)
    <3>1. Head(ngap_rx[u]) = a /\ Tail(ngap_rx[u]) = <<b>>
      BY <2>1
    <3> QED
      BY <1>1, <1>2, <1>4, <2>1, <3>1 DEF DownOne, DownTwo
  <2>2. CASE ngap_rx[u] = <<a>> /\ responses = <<b>>
    <3>1. Head(ngap_rx[u]) = a /\ Tail(ngap_rx[u]) = <<>>
      BY <2>2
    <3> QED
      BY <1>1, <1>4, <2>2, <3>1 DEF DownOne, DownTwo
  <2> QED
    BY <1>4, <2>1, <2>2 DEF DownTwo
<1> QED
  BY <1>1, <1>3, <1>4

\* The locals of the task as they are when a message with AMF id i is handled.
Met(u, i) == [ue[u] EXCEPT !.id = IF @ = None THEN i ELSE @]

\* The id is learned once.
LEMMA MetFields ==
    ASSUME SimTypeOK, NEW u \in Ue, NEW i \in EntityId
    PROVE  /\ Met(u, i) \in UeLocals
           /\ Met(u, i).pc = ue[u].pc
           /\ Met(u, i).key = ue[u].key
           /\ ue[u].id = None => Met(u, i).id = i
           /\ ue[u].id = i => Met(u, i).id = i
<1>1. ue[u] \in UeLocals
  BY DEF SimTypeOK
<1>2. i # None
  BY NoneAssumption
<1> QED
  BY <1>1, <1>2 DEF Met, UeLocals

\* A task writes its own locals.
LEMMA Went ==
    ASSUME SimTypeOK, NEW u \in Ue, NEW l, Goto(u, l)
    PROVE  ue'[u] = l /\ ue' = [ue EXCEPT ![u] = l]
BY DEF Goto, SimTypeOK

\* The message the AMF will answer is on its way.
LEMMA TokenSent ==
    ASSUME SimTypeOK, up' = up, NEW u \in Ue, NEW e, NEW x \in UplinkMsg, x.ran = u,
           ~Harmless(x, u, e), UpNone(pipe, u, e), out_q' = out_q \o <<x>>
    PROVE  UpOne(pipe', u, e, x)
<1>1. pipe \in Seq(UplinkMsg) /\ pipe' = Append(pipe, x)
  BY PipeSent
<1> QED
  BY <1>1, AppendOwn

\* Which stages a task in this state can be at.
LEMMA StageAt ==
    ASSUME NEW u \in Ue, NEW e, Stage(u, e)
    PROVE  /\ ue[u].pc = "start" => Starting(u, e)
           /\ (ue[u].pc = "control" /\ ngap_rx[u] # <<>>) =>
                 \/ Identifying(u, e) \/ Challenging(u, e) \/ Commanding(u, e)
                 \/ Accepting(u, e) \/ Releasing(u, e)
           /\ ue[u].pc \in {"round_trip", "await_echo"} => Online(u, e)
           /\ ue[u].pc # "error"
BY DEF Stage, Starting, Requesting, Identifying, Identified, Challenging, Answering,
       Commanding, Complying, Accepting, Online, Leaving, Releasing, Released,
       Offline, Looping, Keyed, DownNone

\* RegistrationRequest.
LEMMA UeStartStep ==
    ASSUME LoopInv, SimTypeOK, NEW u \in Ue, NEW e, Stage(u, e), UeStart(u)
    PROVE  UeMoved(u) /\ Stage(u, e)'
<1> DEFINE l == [ue[u] EXCEPT !.pc = "control"]
           x == InitialUeMessage(u)
<1>1. /\ Goto(u, l) /\ out_q' = out_q \o <<x>>
      /\ UNCHANGED loopVars /\ ngap_rx' = ngap_rx /\ up' = up /\ ue[u].pc = "start"
  BY DEF UeStart, Send
<1>2. Starting(u, e)
  BY <1>1, StageAt
<1>3. l \in UeLocals /\ l.pc = "control" /\ l.id = ue[u].id
  BY DEF SimTypeOK, UeLocals
<1>4. x \in UplinkMsg /\ x.ran = u /\ ~Harmless(x, u, e)
  BY UplinkTyped, NotHarmless
<1> HIDE DEF l
<1>5. ue'[u] = l /\ ue' = [ue EXCEPT ![u] = l]
  BY <1>1, Went
<1>6. UpOne(pipe', u, e, x)
  BY <1>1, <1>2, <1>4, TokenSent DEF Starting
<1>7. CoreKept(u, e) /\ DownKept(u)
  BY <1>1, CoreStill, DownFrame
<1>8. Requesting(u, e)'
  BY <1>2, <1>3, <1>5, <1>6, <1>7 DEF Requesting, Starting, Looping, CoreKept, DownKept
<1>9. UeMoved(u)
  BY <1>1, <1>3, <1>4, <1>5 DEF UeMoved, SimTypeOK
<1> QED
  BY <1>8, <1>9 DEF Stage

\* The task takes message m, and everything but its own state stays.
LEMMA UeReceives ==
    ASSUME SimTypeOK, NEW u \in Ue, UeReceive(u)
    PROVE  /\ UNCHANGED loopVars /\ up' = up /\ responses' = responses
           /\ ue[u].pc = "control" /\ ngap_rx[u] # <<>>
           /\ ngap_rx' = [ngap_rx EXCEPT ![u] = Tail(@)]
           /\ DOMAIN ngap_rx' = Ue
           /\ \A v \in Ue \ {u} : ngap_rx'[v] = ngap_rx[v]
<1>1. /\ UNCHANGED loopVars /\ up' = up /\ ue[u].pc = "control" /\ ngap_rx[u] # <<>>
      /\ ngap_rx' = [ngap_rx EXCEPT ![u] = Tail(@)]
  BY DEF UeReceive
<1>2. responses' = responses
  BY <1>1 DEF loopVars, cpVars
<1> QED
  BY <1>1, <1>2, MailTaken

\* A plain NAS message is answered.
LEMMA PlainAnswered ==
    ASSUME SimTypeOK, NEW u \in Ue, NEW e \in EntityId, UeReceive(u), NEW pdu,
           NEW m, Asks(m, u, e, pdu), DownOne(u, m)
    PROVE  AnswerPlain(u, Met(u, e), pdu) /\ DownNone(u)'
<1>1. Head(ngap_rx[u]) = m /\ DownNone(u)'
  BY UeReceives, MailTaken
<1>2. m.type = "DownlinkNasTransport" /\ m.id = e /\ m.nas.key = None /\ m.nas.pdu = pdu
  BY DEF Asks
<1>3. AnswerPlain(u, Met(u, m.id), m.nas.pdu)
  BY <1>1, <1>2 DEF UeReceive, Met
<1> QED
  BY <1>1, <1>2, <1>3

\* IdentityRequest: the UE learns its AMF id and says who it is.
LEMMA IdentityRequestStep ==
    ASSUME LoopInv, SimTypeOK, NEW u \in Ue, NEW e, Identifying(u, e), UeReceive(u)
    PROVE  UeMoved(u) /\ Stage(u, e)'
<1> DEFINE l == Met(u, e)
           x == Uplink(u, e, IdentityResponse(u))
<1>0. e \in EntityId /\ UpNone(pipe, u, e)
  BY DEF Identifying, Spawned, LiveIds
<1>1. AnswerPlain(u, l, "IdentityRequest") /\ DownNone(u)'
  BY <1>0, PlainAnswered DEF Identifying
<1>2. l \in UeLocals /\ l.pc = "control" /\ l.id = e
  BY <1>0, MetFields DEF Identifying, Looping
<1> HIDE DEF l
<1>3. Goto(u, l) /\ out_q' = out_q \o <<x>>
  BY <1>1, <1>2 DEF AnswerPlain, Send, IdentityResponse
<1>4. x \in UplinkMsg /\ x.ran = u /\ ~Harmless(x, u, e)
  BY <1>0, UplinkTyped, PduTyped, NotHarmless
<1>5. ue'[u] = l /\ ue' = [ue EXCEPT ![u] = l]
  BY <1>3, Went
<1> HIDE DEF x
<1>6. UpOne(pipe', u, e, x)
  BY <1>0, <1>3, <1>4, UeReceives, TokenSent
<1>7. CoreKept(u, e)
  BY UeReceives, CoreStill
<1>8. Identified(u, e)'
  BY <1>1, <1>2, <1>5, <1>6, <1>7 DEF Identified, Identifying, Looping, CoreKept, x
<1>9. UeMoved(u)
  BY <1>2, <1>3, <1>4, <1>5, UeReceives DEF UeMoved
<1> QED
  BY <1>8, <1>9 DEF Stage

\* AuthenticationRequest: the UE derives its keys from its first vector.
LEMMA AuthenticationRequestStep ==
    ASSUME LoopInv, SimTypeOK, NEW u \in Ue, NEW e, Challenging(u, e), UeReceive(u)
    PROVE  UeMoved(u) /\ Stage(u, e)'
<1> DEFINE k == Met(u, e)
           l == [k EXCEPT !.key = UeVector(u)]
           x == Uplink(u, e, AuthenticationResponse(u))
<1>0. e \in EntityId /\ UpNone(pipe, u, e) /\ MaxSqn > 0
  BY DEF Challenging, Challenged, Bound, LiveIds
<1>1. AnswerPlain(u, k, "AuthenticationRequest") /\ DownNone(u)'
  BY <1>0, PlainAnswered DEF Challenging
<1>2. k \in UeLocals /\ k.pc = "control" /\ k.id = e
  BY <1>0, MetFields DEF Challenging, Looping
<1> HIDE DEF k
<1>3. Goto(u, l) /\ out_q' = out_q \o <<x>>
  BY <1>1, <1>2 DEF AnswerPlain, Send, AuthenticationResponse
<1>4. UeVector(u) \in Vector
  BY SimAssumption DEF UeVector, Vector
<1>5. l \in UeLocals /\ l.pc = "control" /\ l.id = e /\ l.key = UeVector(u)
  BY <1>2, <1>4 DEF UeLocals
<1> HIDE DEF l
<1>6. x \in UplinkMsg /\ x.ran = u /\ ~Harmless(x, u, e)
  BY <1>0, UplinkTyped, PduTyped, NotHarmless
<1>7. ue'[u] = l /\ ue' = [ue EXCEPT ![u] = l]
  BY <1>3, Went
<1> HIDE DEF x
<1>8. UpOne(pipe', u, e, x)
  BY <1>0, <1>3, <1>6, UeReceives, TokenSent
<1>9. CoreKept(u, e)
  BY UeReceives, CoreStill
<1>10. Answering(u, e)'
  BY <1>1, <1>5, <1>7, <1>8, <1>9 DEF Answering, Challenging, Looping, Keyed, CoreKept, x
<1>11. UeMoved(u)
  BY <1>3, <1>5, <1>6, <1>7, UeReceives DEF UeMoved
<1> QED
  BY <1>10, <1>11 DEF Stage

\* SecurityModeCommand.
LEMMA SecurityModeStep ==
    ASSUME LoopInv, SimTypeOK, NEW u \in Ue, NEW e, Commanding(u, e), UeReceive(u)
    PROVE  UeMoved(u) /\ Stage(u, e)'
<1> DEFINE l == Met(u, e)
           x == Uplink(u, e, SecurityModeComplete)
<1>0. e \in EntityId /\ UpNone(pipe, u, e)
  BY DEF Commanding, Verified, Bound, LiveIds
<1>1. AnswerPlain(u, l, "SecurityModeCommand") /\ DownNone(u)'
  BY <1>0, PlainAnswered DEF Commanding
<1>2. l \in UeLocals /\ l.pc = "control" /\ l.id = e /\ l.key = UeVector(u)
  BY <1>0, MetFields DEF Commanding, Keyed, Looping
<1> HIDE DEF l
<1>3. Goto(u, l) /\ out_q' = out_q \o <<x>>
  BY <1>1, <1>2 DEF AnswerPlain, Send, SecurityModeComplete
<1>4. x \in UplinkMsg /\ x.ran = u /\ ~Harmless(x, u, e)
  BY <1>0, UplinkTyped, PduTyped, NotHarmless
<1>5. ue'[u] = l /\ ue' = [ue EXCEPT ![u] = l]
  BY <1>3, Went
<1> HIDE DEF x
<1>6. UpOne(pipe', u, e, x)
  BY <1>0, <1>3, <1>4, UeReceives, TokenSent
<1>7. CoreKept(u, e)
  BY UeReceives, CoreStill
<1>8. Complying(u, e)'
  BY <1>1, <1>2, <1>5, <1>6, <1>7 DEF Complying, Commanding, Keyed, Looping, CoreKept, x
<1>9. UeMoved(u)
  BY <1>2, <1>3, <1>4, <1>5, UeReceives DEF UeMoved
<1> QED
  BY <1>8, <1>9 DEF Stage

\* InitialContextSetupRequest: its keys are the ones the UE has, its TEID is
\* that of the tunnel, and it is settled.  The UE is online.
LEMMA AcceptStep ==
    ASSUME LoopInv, SimTypeOK, NEW u \in Ue, NEW e, Accepting(u, e), UeReceive(u)
    PROVE  UeMoved(u) /\ Stage(u, e)'
<1> DEFINE k == Met(u, e)
           t == ent[e].tunnel.ul_teid
           l == [k EXCEPT !.pc = "round_trip", !.ul_teid = t]
           x == IcsResponse(u, e)
           y == Uplink(u, e, [type |-> "RegistrationComplete"])
<1>0. e \in EntityId /\ UpNone(pipe, u, e)
  BY DEF Accepting, Active, Bound, LiveIds
<1>1. PICK m : Announces(m, u, e, t) /\ DownOne(u, m)
  BY DEF Accepting
<1>2. Head(ngap_rx[u]) = m /\ DownNone(u)'
  BY <1>1, UeReceives, MailTaken
<1>3. k \in UeLocals /\ k.pc = "control" /\ k.id = e /\ k.key = UeVector(u)
  BY <1>0, MetFields DEF Accepting, Keyed, Looping
<1>4. UeVector(u) # None
  BY NoneAssumption, SimAssumption DEF UeVector, Vector
<1>5. /\ m.type = "InitialContextSetupRequest" /\ m.id = e /\ m.ul_teid = t
      /\ Unprotected(k, m.nas, "RegistrationAccept")
  BY <1>1, <1>3, <1>4 DEF Announces, Unprotected
<1>6. Goto(u, l) /\ out_q' = out_q \o <<x, y>>
  BY <1>2, <1>3, <1>5 DEF UeReceive, Met, Send
<1>7. t \in Nat
  BY <1>0 DEF Accepting, Active, LoopInv, CpInv, WorldInv, WorldTypeOK, Slot, Tunnel
<1> HIDE DEF k, t
<1>8. /\ l \in UeLocals /\ l.pc = "round_trip" /\ l.id = e /\ l.key = UeVector(u)
      /\ l.ul_teid = t
  BY <1>3, <1>7 DEF UeLocals
<1>9. /\ x \in UplinkMsg /\ x.ran = u /\ Harmless(x, u, e)
      /\ y \in UplinkMsg /\ y.ran = u /\ Harmless(y, u, e)
  BY <1>0, UplinkTyped, PduTyped DEF Harmless
<1> HIDE DEF l, x, y
<1>10. ue'[u] = l /\ ue' = [ue EXCEPT ![u] = l]
  BY <1>6, Went
<1>11. UpNone(pipe', u, e)
  <2>1. pipe \in Seq(UplinkMsg) /\ pipe' = Append(Append(pipe, x), y)
    BY <1>6, <1>9, UeReceives, PipeSentBoth
  <2> DEFINE q == Append(pipe, x)
  <2>2. q \in Seq(UplinkMsg) /\ pipe' = Append(q, y)
    BY <1>9, <2>1
  <2>3. UpNone(q, u, e)
    BY <1>0, <1>9, <2>1, AppendOwn
  <2> HIDE DEF q
  <2> QED
    BY <1>9, <2>2, <2>3, AppendOwn
<1>12. CoreKept(u, e) /\ ent' = ent /\ \A i : Settled(i) => Settled(i)'
  BY UeReceives, CoreStill
<1>13. Settled(t)'
  BY <1>12, UeReceives DEF Accepting, t
<1>14. Online(u, e)'
  BY <1>2, <1>8, <1>10, <1>11, <1>12, <1>13 DEF Online, Accepting, CoreKept, t
<1>15. UeMoved(u)
  BY <1>6, <1>8, <1>9, <1>10, UeReceives DEF UeMoved
<1> QED
  BY <1>14, <1>15 DEF Stage

\* DeregistrationAccept is only read; UeContextReleaseCommand ends the task.
LEMMA UeReleaseStep ==
    ASSUME LoopInv, SimTypeOK, NEW u \in Ue, NEW e, Releasing(u, e), UeReceive(u)
    PROVE  UeMoved(u) /\ Stage(u, e)'
<1>0. e \in EntityId /\ UpNone(pipe, u, e)
  BY DEF Releasing, Active, Bound, LiveIds
<1>1. PICK c : /\ Releases(c, u, e)
               /\ DownOne(u, c) \/ \E a : Parts(a, u, e) /\ DownTwo(u, a, c)
  BY DEF Releasing
<1>2. CoreKept(u, e)
  BY UeReceives, CoreStill
<1>3. CASE DownOne(u, c)
  <2> DEFINE l == [ue[u] EXCEPT !.pc = "ok"]
             x == ReleaseComplete(u, e)
  <2>1. Head(ngap_rx[u]) = c /\ DownNone(u)'
    BY <1>3, UeReceives, MailTaken
  <2>2. Goto(u, l) /\ out_q' = out_q \o <<x>>
    BY <1>1, <2>1 DEF UeReceive, Releases, Send
  <2>3. l \in UeLocals /\ l.pc = "ok"
    <3>1. ue[u] \in UeLocals
      BY DEF SimTypeOK
    <3> QED
      BY <3>1 DEF UeLocals, Final
  <2> HIDE DEF l
  <2>4. x \in UplinkMsg /\ x.ran = u /\ ~Harmless(x, u, e)
    BY <1>0, UplinkTyped, NotHarmless
  <2>5. ue'[u] = l /\ ue' = [ue EXCEPT ![u] = l]
    BY <2>2, Went
  <2> HIDE DEF x
  <2>6. UpOne(pipe', u, e, x)
    BY <1>0, <2>2, <2>4, UeReceives, TokenSent
  <2>7. Released(u, e)'
    BY <1>2, <2>1, <2>3, <2>5, <2>6 DEF Released, Releasing, CoreKept, x
  <2>8. UeMoved(u)
    BY <2>2, <2>3, <2>4, <2>5, UeReceives DEF UeMoved
  <2> QED
    BY <2>7, <2>8 DEF Stage
<1>4. ASSUME NEW a, Parts(a, u, e), DownTwo(u, a, c)
      PROVE  UeMoved(u) /\ Stage(u, e)'
  <2> DEFINE l == Met(u, e)
  <2>1. Head(ngap_rx[u]) = a /\ DownOne(u, c)'
    BY <1>4, UeReceives, MailTaken
  <2>2. l \in UeLocals /\ l.pc = "control" /\ l.id = e /\ l.key = UeVector(u)
    BY <1>0, MetFields DEF Releasing, Keyed, Looping
  <2>3. UeVector(u) # None
    BY NoneAssumption, SimAssumption DEF UeVector, Vector
  <2>4. /\ a.type = "DownlinkNasTransport" /\ a.id = e /\ a.nas.key # None
        /\ Unprotected(l, a.nas, "DeregistrationAccept")
    BY <1>4, <2>2, <2>3 DEF Parts, Unprotected
  <2>5. Goto(u, l) /\ out_q' = out_q
    BY <2>1, <2>4 DEF UeReceive, Met
  <2> HIDE DEF l
  <2>6. ue'[u] = l /\ ue' = [ue EXCEPT ![u] = l]
    BY <2>5, Went
  <2>7. UpNone(pipe', u, e)
    BY <1>0, <2>5, UeReceives DEF pipe
  <2>8. Releasing(u, e)'
    BY <1>1, <1>2, <2>1, <2>2, <2>6, <2>7
       DEF Releasing, Releases, Keyed, Looping, CoreKept
  <2>9. UeMoved(u)
    BY <2>2, <2>5, <2>6, UeReceives DEF UeMoved
  <2> QED
    BY <2>8, <2>9 DEF Stage
<1> QED
  BY <1>1, <1>3, <1>4

\* user_plane_round_trip: the UE stays online or gives up.
LEMMA RoundTripStage ==
    ASSUME LoopInv, SimTypeOK, NEW u \in Ue, NEW e, Stage(u, e), RoundTripStep(u)
    PROVE  UeMoved(u) /\ Stage(u, e)'
<1>1. /\ UNCHANGED loopVars /\ ngap_rx' = ngap_rx /\ up' = up /\ out_q' = out_q
      /\ ue[u].pc \in {"round_trip", "await_echo"}
  BY DEF RoundTripStep, chanVars, RoundTripSend, RoundTripTimeout
<1>2. Online(u, e)
  BY <1>1, StageAt
<1>3. PICK l \in UeLocals :
          /\ Goto(u, l) /\ l.pc \in {"round_trip", "await_echo", "lost"}
          /\ l.id = ue[u].id /\ l.key = ue[u].key /\ l.ul_teid = ue[u].ul_teid
  <2>1. ue[u] \in UeLocals
    BY DEF SimTypeOK
  <2>2. CASE RoundTripSend(u)
    <3> DEFINE n == ue[u].attempt + 1
               l == [ue[u] EXCEPT !.pc = "await_echo", !.attempt = n]
    <3>1. n \in Nat
      BY <2>1 DEF UeLocals
    <3>2. Goto(u, l)
      BY <2>2 DEF RoundTripSend
    <3> HIDE DEF n
    <3>3. l \in UeLocals
      BY <2>1, <3>1 DEF UeLocals
    <3>4. /\ l.pc = "await_echo" /\ l.id = ue[u].id /\ l.key = ue[u].key
          /\ l.ul_teid = ue[u].ul_teid
      BY <2>1 DEF UeLocals
    <3> QED
      BY <3>2, <3>3, <3>4
  <2>3. CASE RoundTripTimeout(u)
    <3> DEFINE p == IF ue[u].attempt < MaxAttempts[u] THEN "round_trip" ELSE "lost"
               l == [ue[u] EXCEPT !.pc = p]
    <3>1. p \in {"round_trip", "lost"} /\ Goto(u, l)
      BY <2>3 DEF RoundTripTimeout
    <3> HIDE DEF p
    <3>2. /\ l \in UeLocals /\ l.pc = p /\ l.id = ue[u].id /\ l.key = ue[u].key
          /\ l.ul_teid = ue[u].ul_teid
      BY <2>1, <3>1 DEF UeLocals, Final
    <3> QED
      BY <3>1, <3>2
  <2> QED
    BY <2>2, <2>3 DEF RoundTripStep
<1>4. ue'[u] = l /\ ue' = [ue EXCEPT ![u] = l]
  BY <1>3, Went
<1>5. CoreKept(u, e) /\ ent' = ent /\ (\A i : Settled(i) => Settled(i)') /\ DownKept(u)
  BY <1>1, CoreStill, DownFrame
<1>6. pipe' = pipe
  BY <1>1 DEF pipe
<1>7. Online(u, e)'
  BY <1>2, <1>3, <1>4, <1>5, <1>6 DEF Online, CoreKept, DownKept
<1>8. UeMoved(u)
  BY <1>1, <1>3, <1>4 DEF UeMoved, SimTypeOK
<1> QED
  BY <1>7, <1>8 DEF Stage

\* The echo is back: the UE deregisters.
LEMMA EchoStage ==
    ASSUME LoopInv, SimTypeOK, NEW u \in Ue, NEW e, Stage(u, e), NEW p, EchoReceived(u, p)
    PROVE  UeMoved(u) /\ Stage(u, e)'
<1> DEFINE l == [ue[u] EXCEPT !.pc = "control"]
           x == Uplink(u, e, DeregistrationRequest)
<1>1. /\ UNCHANGED loopVars /\ ngap_rx' = ngap_rx /\ up' = up
      /\ ue[u].pc = "await_echo" /\ Goto(u, l)
      /\ out_q' = out_q \o <<Uplink(u, ue[u].id, DeregistrationRequest)>>
  BY DEF EchoReceived, RoundTripDone, Send, DeregistrationRequest
<1>2. Online(u, e)
  BY <1>1, StageAt
<1>3. e \in EntityId /\ UpNone(pipe, u, e) /\ ue[u].id = e
  BY <1>2 DEF Online, Active, Bound, LiveIds
<1>4. /\ l \in UeLocals /\ l.pc = "control" /\ l.id = e /\ l.key = UeVector(u)
  BY <1>2, <1>3 DEF SimTypeOK, UeLocals, Online
<1>5. out_q' = out_q \o <<x>>
  BY <1>1, <1>3
<1>6. x \in UplinkMsg /\ x.ran = u /\ ~Harmless(x, u, e)
  BY <1>3, UplinkTyped, PduTyped, NotHarmless
<1> HIDE DEF l, x
<1>7. ue'[u] = l /\ ue' = [ue EXCEPT ![u] = l]
  BY <1>1, Went
<1>8. UpOne(pipe', u, e, x)
  BY <1>1, <1>3, <1>5, <1>6, TokenSent
<1>9. CoreKept(u, e) /\ DownKept(u)
  BY <1>1, CoreStill, DownFrame
<1>10. Leaving(u, e)'
  BY <1>2, <1>4, <1>7, <1>8, <1>9 DEF Leaving, Online, Keyed, Looping, CoreKept, DownKept, x
<1>11. UeMoved(u)
  BY <1>1, <1>4, <1>5, <1>6, <1>7 DEF UeMoved, SimTypeOK
<1> QED
  BY <1>10, <1>11 DEF Stage

\* Every step of a UE task.
LEMMA UeTaskStep ==
    ASSUME SimInv, NEW u \in Ue, UeTask(u)
    PROVE  SimInv'
<1>1. PICK b \in Bindings : \A v \in Ue : Stage(v, b[v])
  BY DEF SimInv
<1>2. PICK e : e = b[u]
  OBVIOUS
<1>3. LoopInv /\ SimTypeOK /\ Stage(u, e)
  BY <1>1, <1>2 DEF SimInv
<1>4. UeMoved(u) /\ Stage(u, e)'
  <2>1. CASE UeStart(u)
    BY <1>3, <2>1, UeStartStep
  <2>2. CASE UeReceive(u)
    <3>1. \/ Identifying(u, e) \/ Challenging(u, e) \/ Commanding(u, e)
          \/ Accepting(u, e) \/ Releasing(u, e)
      BY <1>3, <2>2, StageAt, UeReceives
    <3> QED
      BY <1>3, <2>2, <3>1, IdentityRequestStep, AuthenticationRequestStep,
         SecurityModeStep, AcceptStep, UeReleaseStep
  <2>3. CASE RoundTripStep(u)
    BY <1>3, <2>3, RoundTripStage
  <2>4. ASSUME NEW p \in gtp_dl, EchoReceived(u, p) PROVE UeMoved(u) /\ Stage(u, e)'
    BY <1>3, <2>4, EchoStage
  <2> QED
    BY <2>1, <2>2, <2>3, <2>4 DEF UeTask
<1>5. Stage(u, b[u])'
  BY <1>2, <1>4
<1> QED
  BY <1>1, <1>3, <1>4, <1>5, UeMovedKeeps

-----------------------------------------------------------------------------
(* The AMF receives a message of u.                                        *)

\* The loop's side of AmfReceive: the message leaves the link, and nothing but
\* the core moves.
Took(msg) ==
    /\ up' \in Seq(UplinkMsg)
    /\ pipe \in Seq(UplinkMsg)
    /\ pipe # <<>>
    /\ Head(pipe) = msg
    /\ pipe' = Tail(pipe)
    /\ UNCHANGED <<ue, ngap_rx, out_q>>
    /\ responses = <<>>
    /\ events = <<>>

\* The message is one that process_ngap knows, so this is a step of the AMF.
LEMMA AmfTakes ==
    ASSUME SimInv, AmfReceive
    PROVE  /\ Head(up) \in UplinkMsg /\ Took(Head(up)) /\ process_ngap(Head(up))
           /\ Receive(Next) /\ LoopInv'
<1> DEFINE msg == Head(up)
<1>1. up \in Seq(UplinkMsg) /\ out_q \in Seq(UplinkMsg) /\ up # <<>>
  BY DEF SimInv, SimTypeOK, AmfReceive
<1>2. /\ Drained /\ process_ngap(msg) /\ UNCHANGED upfVars
      /\ up' = Tail(up) /\ UNCHANGED <<ue, ngap_rx, out_q>>
  BY DEF AmfReceive, Receive
<1>3. /\ Tail(up) \o out_q = Tail(up \o out_q) /\ Head(up \o out_q) = msg
      /\ msg \in UplinkMsg /\ up \o out_q # <<>> /\ up \o out_q \in Seq(UplinkMsg)
      /\ Tail(up) \in Seq(UplinkMsg)
  BY <1>1, TakeOne
<1>4. Took(msg)
  BY <1>2, <1>3 DEF Took, pipe, Drained
<1> HIDE DEF msg
<1>5. Next
  <2>1. CASE msg.type = "InitialUeMessage"
    <3>1. msg.ran \in RanId
      BY <1>3, SimAssumption DEF UplinkMsg, InitialUeMessage, Uplink, IcsResponse,
                                 ReleaseComplete
    <3>2. start_registration(FALSE, msg.ran)
      BY <1>2, <2>1 DEF process_ngap
    <3> QED
      BY <3>1, <3>2 DEF Next
  <2>2. CASE msg.type = "UplinkNasTransport"
    <3>1. msg.ran \in RanId /\ msg.id \in EntityId /\ msg.pdu \in UplinkPdu
      BY <1>3, <2>2, SimAssumption DEF UplinkMsg, InitialUeMessage, Uplink, IcsResponse,
                                       ReleaseComplete
    <3>2. handle_uplink_nas(msg.id, msg.ran, NasPlain, msg.pdu)
      BY <1>2, <2>2 DEF process_ngap
    <3>3. NasPlain \in Security
      BY DEF Security
    <3> QED
      BY <3>1, <3>2, <3>3 DEF Next
  <2>3. CASE msg.type = "InitialContextSetupResponse"
    <3>1. msg.id \in EntityId /\ msg.dl \in DlTeid
      BY <1>3, <2>3, SimAssumption DEF UplinkMsg, InitialUeMessage, Uplink, IcsResponse,
                                       ReleaseComplete
    <3>2. handle_ics_response(msg.id, msg.dl)
      BY <1>2, <2>3 DEF process_ngap
    <3> QED
      BY <3>1, <3>2 DEF Next
  <2>4. CASE msg.type = "UeContextReleaseComplete"
    <3>1. msg.id \in EntityId
      BY <1>3, <2>4, SimAssumption DEF UplinkMsg, InitialUeMessage, Uplink, IcsResponse,
                                       ReleaseComplete
    <3>2. handle_release_complete(msg.id)
      BY <1>2, <2>4 DEF process_ngap
    <3> QED
      BY <3>1, <3>2 DEF Next
  <2> QED
    BY <1>2, <2>1, <2>2, <2>3, <2>4 DEF process_ngap
<1>6. Receive(Next)
  BY <1>2, <1>5 DEF Receive
<1>7. LoopInv'
  BY <1>6, ReceiveStep DEF SimInv
<1> QED
  BY <1>2, <1>3, <1>4, <1>6, <1>7 DEF msg

\* What the AMF does for u under entity e leaves the others alone.
Answered(u, e) ==
    /\ \A f \in EntityId \ {e} : ent'[f] = ent[f]
    /\ \A v \in Ue \ {u} : registry'[v] = registry[v] /\ sqn'[v] = sqn[v]
    /\ \A i \in 1 .. Len(responses') : responses'[i].ran = u
    /\ \A f \in LiveIds \ {e} : ent[f].tunnel # None =>
          Settled(ent[f].tunnel.ul_teid)'

\* So only u moves on, and with e or with none.
LEMMA AnsweredKeeps ==
    ASSUME SimInv, LoopInv', NEW b \in Bindings, \A v \in Ue : Stage(v, b[v]),
           NEW u \in Ue, NEW e \in EntityId, NEW msg, Took(msg), msg.ran = u,
           Answered(u, e), \A v \in Ue \ {u} : b[v] # e,
           NEW g \in {e, None}, Stage(u, g)'
    PROVE  SimInv'
<1>1. SimTypeOK'
  BY DEF SimInv, SimTypeOK, Took, Answered
<1>2. ASSUME NEW v \in Ue \ {u} PROVE Kept(v, b[v])
  <2>1. PICK f \in EntityId \cup {None} : f = b[v]
    BY DEF Bindings
  <2>2. f # e
    BY <2>1
  <2>3. CoreKept(v, f)
    <3>1. registry'[v] = registry[v] /\ sqn'[v] = sqn[v]
      BY DEF Answered
    <3>2. f \in EntityId => Alike(ent[f], ent'[f])
      BY <2>2, AlikeSelf DEF Answered
    <3> QED
      BY <3>1, <3>2, CoreFrame
  <2>4. DownKept(v)
    <3>1. Unaddressed(v)'
      BY DEF Answered, Unaddressed
    <3> QED
      BY <3>1, DownFrame DEF Took
  <2>5. UpKept(pipe, pipe', v, f)
    BY TakeOther DEF Took
  <2>6. Active(v, f) => TeidKept(v, ent[f].tunnel.ul_teid)
    <3>1. Active(v, f) => f \in LiveIds \ {e} /\ ent[f].tunnel # None
      BY <2>2 DEF Active, Bound
    <3> QED
      BY <3>1 DEF TeidKept, Answered, Took
  <2>7. ue'[v] = ue[v]
    BY DEF Took
  <2> QED
    BY <2>1, <2>3, <2>4, <2>5, <2>6, <2>7 DEF Kept
<1>3. g # None => \A v \in Ue \ {u} : b[v] # g
  OBVIOUS
<1> QED
  BY <1>1, <1>2, <1>3, OneMoves

\* A UE is bound to a live entity, or to none.
LEMMA StageLive ==
    ASSUME NEW u \in Ue, NEW e, Stage(u, e)
    PROVE  e = None \/ e \in LiveIds
BY DEF Stage, Starting, Requesting, Identifying, Identified, Challenging, Answering,
       Commanding, Complying, Accepting, Online, Leaving, Releasing, Released,
       Offline, Unknown, Spawned, Challenged, Verified, Active, Bound, Gone

\* What the AMF will answer tells the stage.
LEMMA TokenStage ==
    ASSUME NEW u \in Ue, NEW e, Stage(u, e), NEW msg, Took(msg), msg.ran = u,
           ~Harmless(msg, u, e)
    PROVE  /\ \A f : UpNone(pipe', u, f)
           /\ \/ Requesting(u, e) /\ msg = InitialUeMessage(u)
              \/ Identified(u, e) /\ msg = Uplink(u, e, IdentityResponse(u))
              \/ Answering(u, e) /\ msg = Uplink(u, e, AuthenticationResponse(u))
              \/ Complying(u, e) /\ msg = Uplink(u, e, SecurityModeComplete)
              \/ Leaving(u, e) /\ msg = Uplink(u, e, DeregistrationRequest)
              \/ Released(u, e) /\ msg = ReleaseComplete(u, e)
<1>1. /\ ~UpNone(pipe, u, e)
      /\ \A m : UpOne(pipe, u, e, m) => m = msg /\ \A f : UpNone(pipe', u, f)
  BY TakeOwn DEF Took
<1> QED
  BY <1>1 DEF Stage, Starting, Requesting, Identifying, Identified, Challenging, Answering,
              Commanding, Complying, Accepting, Online, Leaving, Releasing, Released,
              Offline

\* A plain NAS message goes to the handler its type names, with the slot as it
\* is.
LEMMA PlainNas ==
    ASSUME NEW u \in Ue, NEW e \in EntityId, NEW pdu, process_ngap(Uplink(u, e, pdu))
    PROVE  /\ pdu.type = "IdentityResponse" =>
                 handle_identity_response(e, u, ent[e], pdu.suci)
           /\ pdu.type = "AuthenticationResponse" => VerifyRes(e, u, ent[e], pdu.res)
           /\ pdu.type = "SecurityModeComplete" =>
                 ActivateNas(e, u, ent[e], "RegistrationAccept", ue_ip(e))
           /\ pdu.type = "RegistrationComplete" => Ignore(e, ent[e])
           /\ pdu.type = "DeregistrationRequest" =>
                 Detach(e, u, ent[e], "DeregistrationAccept", pdu.switch_off)
<1>1. handle_uplink_nas(e, u, NasPlain, pdu)
  BY DEF process_ngap, Uplink
<1>2. Accepted(e, NasPlain) /\ Unwrapped(e, NasPlain) = ent[e]
  BY DEF Accepted, Unwrapped, NasPlain
<1> QED
  BY <1>1, <1>2 DEF handle_uplink_nas, handle_auth_response, handle_security_mode_complete,
                    handle_registration_complete, handle_deregistration_request

\* The one response is for u.
LEMMA OneDown ==
    ASSUME NEW u \in Ue, NEW msg, Took(msg), DownNone(u), NEW m, m.ran = u,
           responses' = <<m>>
    PROVE  /\ DownOne(u, m)'
           /\ \A i \in 1 .. Len(responses') : responses'[i].ran = u
<1>1. ngap_rx'[u] = <<>>
  BY DEF Took, DownNone
<1>2. \A i \in 1 .. Len(responses') : responses'[i] = m
  OBVIOUS
<1> QED
  BY <1>1, <1>2 DEF DownOne

\* There is no response.
LEMMA NoDown ==
    ASSUME NEW u \in Ue, NEW msg, Took(msg), responses' = <<>>
    PROVE  /\ DownNone(u) => DownNone(u)'
           /\ \A i \in 1 .. Len(responses') : responses'[i].ran = u
BY DEF Took, DownNone, Unaddressed

\* Without an event that creates a session, every TEID is settled.
LEMMA NothingCreated ==
    ASSUME \/ events' = <<>>
           \/ \E t, dl : events' = <<UpdateBearer(t, dl)>>
           \/ \E t : events' = <<RemoveSession(t)>>
    PROVE  \A t : Settled(t)'
<1>1. events' = <<>> \/ Head(events').type \in {"UpdateBearer", "RemoveSession"}
  BY DEF UpdateBearer, RemoveSession
<1> QED
  BY <1>1 DEF Settled, Queued

\* RegistrationRequest: a fresh entity is asked who it is.
LEMMA StartAnswered ==
    ASSUME LoopInv, NEW u \in Ue, NEW e, Requesting(u, e), NEW msg, Took(msg),
           \A f : UpNone(pipe', u, f), start_registration(FALSE, u)
    PROVE  \E s \in EntityId : s \notin LiveIds /\ Answered(u, s) /\ Stage(u, s)'
<1>0. PICK s : s = SpawnId
  OBVIOUS
<1> DEFINE n == [ent[s] EXCEPT !.imsi = NoImsi, !.xres = None, !.ck = None]
           m == DownlinkNasTransport(s, u, Plain("IdentityRequest"))
<1>1. /\ spawn(n) /\ responses' = <<m>> /\ events' = <<>>
      /\ UNCHANGED <<registry, sqn, teid_next, teid_free>>
  BY <1>0 DEF start_registration, Returns
<1>2. WorldInv /\ WorldTypeOK
  BY DEF LoopInv, CpInv, WorldInv
<1>3. s \in EntityId /\ ~is_live(s) /\ ent[s] = Empty
  BY <1>0, <1>1, <1>2, SpawnIdFresh DEF spawn
<1>4. ent' = [ent EXCEPT ![s] = [n EXCEPT !.live = TRUE]]
  BY <1>0, <1>1 DEF spawn
<1>5. Asks(m, u, s, "IdentityRequest")
  BY DEF Asks, DownlinkNasTransport, Plain
<1> HIDE DEF m
<1>6. /\ ent'[s].live /\ ent'[s].imsi = NoImsi
      /\ \A f \in EntityId \ {s} : ent'[f] = ent[f]
  BY <1>2, <1>3, <1>4 DEF WorldTypeOK, Slot
<1>7. DownOne(u, m)' /\ \A i \in 1 .. Len(responses') : responses'[i].ran = u
  BY <1>1, <1>5, OneDown DEF Requesting, Asks
<1>8. Answered(u, s)
  BY <1>1, <1>6, <1>7, NothingCreated DEF Answered
<1>9. Identifying(u, s)'
  <2>1. s \in LiveIds'
    BY <1>3, <1>6 DEF LiveIds, is_live
  <2>2. ue' = ue
    BY DEF Took
  <2>3. Spawned(u, s)' /\ Looping(u, None)'
    BY <1>1, <1>6, <2>1, <2>2 DEF Spawned, Looping, Requesting, Unknown
  <2> QED
    BY <1>5, <1>7, <2>3 DEF Identifying, Asks
<1> QED
  BY <1>3, <1>8, <1>9 DEF Stage, LiveIds

\* IdentityResponse: the subscriber is known, gets its first vector, and the
\* entity is its entry in the index.
LEMMA IdentityAnswered ==
    ASSUME LoopInv, NEW u \in Ue, NEW e \in EntityId, Identified(u, e), NEW msg, Took(msg),
           \A f : UpNone(pipe', u, f),
           handle_identity_response(e, u, ent[e], [scheme |-> 0, msin |-> u])
    PROVE  Answered(u, e) /\ Stage(u, e)'
<1> DEFINE c == [scheme |-> 0, msin |-> u]
           n == [ent[e] EXCEPT !.imsi = u, !.xres = NextVector(u), !.ck = NextVector(u),
                               !.auth = "ChallengeIssued"]
           m == DownlinkNasTransport(e, u, Plain("AuthenticationRequest"))
<1>1. u \in Imsi /\ c \in Suci /\ c # None /\ resolve_suci_to_imsi(c) = u
  BY SimAssumption DEF Suci, resolve_suci_to_imsi
<1>2. e \in LiveIds /\ is_live(e) /\ sqn[u] = 0 /\ DownNone(u)
  BY DEF Identified, Spawned, LiveIds
<1>3. has_subscriber(u)
  <2>1. 0 \in EntityId
    BY WorldAssumption DEF EntityId
  <2> QED
    BY <1>1, <1>2, <2>1, NoneAssumption DEF has_subscriber
<1>4. /\ generate_auth_vector(u) /\ register(u, e) /\ set_slot(e, n)
      /\ responses' = <<m>> /\ events' = <<>>
  BY <1>1, <1>2, <1>3 DEF handle_identity_response, Returns
<1>5. /\ sqn' = [sqn EXCEPT ![u] = (@ + 1) % SqnSpace] /\ MaxSqn > 0
      /\ registry' = [registry EXCEPT ![u] = e] /\ ent' = [ent EXCEPT ![e] = n]
  BY <1>2, <1>4 DEF generate_auth_vector, register, set_slot
<1>6. /\ sqn \in [Imsi -> Nat \cup {None}] /\ registry \in [Imsi -> EntityId \cup {None}]
      /\ ent \in [EntityId -> Slot]
  BY DEF LoopInv, CpInv, HssTypeOK, RegistryTypeOK, WorldInv, WorldTypeOK
<1>7. NextVector(u) = UeVector(u)
  BY <1>2 DEF NextVector, UeVector
<1>8. Asks(m, u, e, "AuthenticationRequest")
  BY DEF Asks, DownlinkNasTransport, Plain
<1> HIDE DEF m
<1>9. /\ ent'[e].live /\ ent'[e].imsi = u /\ ent'[e].xres = UeVector(u)
      /\ ent'[e].ck = UeVector(u)
      /\ \A f \in EntityId \ {e} : ent'[f] = ent[f]
  <2>1. ent[e] \in Slot /\ ent[e].live
    BY <1>2, <1>6 DEF is_live
  <2>2. /\ n.live /\ n.imsi = u /\ n.xres = UeVector(u) /\ n.ck = UeVector(u)
    BY <1>7, <2>1 DEF Slot
  <2> QED
    BY <1>5, <1>6, <2>2
<1>10. /\ registry'[u] = e
       /\ \A v \in Ue \ {u} : registry'[v] = registry[v] /\ sqn'[v] = sqn[v]
  BY <1>1, <1>5, <1>6, SimAssumption
<1>11. DownOne(u, m)' /\ \A i \in 1 .. Len(responses') : responses'[i].ran = u
  BY <1>2, <1>4, <1>8, OneDown DEF Asks
<1>12. Answered(u, e)
  BY <1>4, <1>9, <1>10, <1>11, NothingCreated DEF Answered
<1>13. Challenging(u, e)'
  <2>1. e \in LiveIds'
    BY <1>9 DEF LiveIds, is_live
  <2>2. ue' = ue
    BY DEF Took
  <2>3. Challenged(u, e)' /\ Looping(u, e)'
    BY <1>5, <1>9, <1>10, <2>1, <2>2, <1>7 DEF Challenged, Bound, Looping, Identified, UeVector
  <2> QED
    BY <1>8, <1>11, <2>3 DEF Challenging, Asks
<1> QED
  BY <1>12, <1>13 DEF Stage

\* AuthenticationResponse: the UE answered the challenge its entity holds.
LEMMA ResponseAnswered ==
    ASSUME LoopInv, NEW u \in Ue, NEW e \in EntityId, Answering(u, e), NEW msg, Took(msg),
           \A f : UpNone(pipe', u, f), VerifyRes(e, u, ent[e], UeVector(u))
    PROVE  Answered(u, e) /\ Stage(u, e)'
<1> DEFINE n == [ent[e] EXCEPT !.xres = None, !.auth = "Authenticated"]
           m == DownlinkNasTransport(e, u, Plain("SecurityModeCommand"))
<1>1. /\ is_live(e) /\ ent[e].xres = UeVector(u) /\ ent[e].imsi = u /\ registry[u] = e
      /\ ent[e].ck = UeVector(u) /\ MaxSqn > 0 /\ DownNone(u)
  BY DEF Answering, Challenged, Bound, LiveIds
<1>2. /\ ent' = [ent EXCEPT ![e] = n] /\ responses' = <<m>> /\ events' = <<>>
      /\ registry' = registry /\ sqn' = sqn
  BY <1>1 DEF VerifyRes, set_slot, Returns
<1>3. ent \in [EntityId -> Slot]
  BY DEF LoopInv, CpInv, WorldInv, WorldTypeOK
<1>4. /\ ent'[e].live /\ ent'[e].imsi = u /\ ent'[e].ck = UeVector(u)
      /\ \A f \in EntityId \ {e} : ent'[f] = ent[f]
  BY <1>1, <1>2, <1>3 DEF Slot, is_live
<1>5. Asks(m, u, e, "SecurityModeCommand")
  BY DEF Asks, DownlinkNasTransport, Plain
<1> HIDE DEF m
<1>6. DownOne(u, m)' /\ \A i \in 1 .. Len(responses') : responses'[i].ran = u
  BY <1>1, <1>2, <1>5, OneDown DEF Asks
<1>7. Answered(u, e)
  BY <1>2, <1>4, <1>6, NothingCreated DEF Answered
<1>8. Commanding(u, e)'
  <2>1. e \in LiveIds'
    BY <1>4 DEF LiveIds, is_live
  <2>2. Keyed(u, e)'
    BY DEF Answering, Took, Keyed, Looping, UeVector
  <2>3. Verified(u, e)'
    BY <1>1, <1>2, <1>4, <2>1 DEF Verified, Bound, UeVector
  <2> QED
    BY <1>5, <1>6, <2>2, <2>3 DEF Commanding, Asks
<1> QED
  BY <1>7, <1>8 DEF Stage

\* SecurityModeComplete: the UE and its entity hold the same keys; the TEID is
\* nobody else's, so whatever the others were told stays so.
LEMMA ComplyAnswered ==
    ASSUME LoopInv, NEW u \in Ue, NEW e \in EntityId, Complying(u, e), NEW msg, Took(msg),
           \A f : UpNone(pipe', u, f),
           ActivateNas(e, u, ent[e], "RegistrationAccept", ue_ip(e))
    PROVE  Answered(u, e) /\ Stage(u, e)'
<1>0. PICK t, k, i : t = AllocTeid /\ k = ent[e].ck /\ i = ent[e].imsi
  OBVIOUS
<1> DEFINE nas == [key |-> k, ul_count |-> 0, dl_count |-> 0]
           new == [nas EXCEPT !.dl_count = 1]
           tun == [ul_teid |-> t, dl_teid |-> 0]
           n == [[ent[e] EXCEPT !.ck = None, !.nas = new] EXCEPT !.tunnel = tun]
           m == InitialContextSetupRequest(e, u, t, Protected("RegistrationAccept", nas))
           evt == CreateSession(t, e, i, ue_ip(e))
<1>1. /\ is_live(e) /\ ent[e].imsi = u /\ registry[u] = e
      /\ k = UeVector(u) /\ MaxSqn > 0 /\ DownNone(u)
  BY <1>0 DEF Complying, Verified, Bound, LiveIds
<1>2. /\ ent' = [ent EXCEPT ![e] = n] /\ responses' = <<m>> /\ events' = <<evt>>
      /\ alloc /\ registry' = registry /\ sqn' = sqn
  BY <1>0, <1>1, SimAssumption DEF ActivateNas, set_slot, Returns
<1>3. ent \in [EntityId -> Slot]
  BY DEF LoopInv, CpInv, WorldInv, WorldTypeOK
<1>4. t \notin Allocated /\ TunnelsOwn
  BY <1>0, <1>2, TeidPoolSplit, AllocStep DEF LoopInv, CpInv
<1>5. Announces(m, u, e, t)
  BY <1>1 DEF Announces, InitialContextSetupRequest, Protected
<1>6. evt.type = "CreateSession" /\ evt.ul_teid = t /\ Head(<<evt>>) = evt
  BY DEF CreateSession
<1>7. /\ new # None /\ new.key = UeVector(u) /\ tun # None /\ tun.ul_teid = t
  <2>1. u \in Imsi /\ UeVector(u) \in Vector
    BY SimAssumption DEF UeVector, Vector
  <2>2. new \in NasContext /\ new.key = UeVector(u)
    BY <1>1, <2>1 DEF NasContext
  <2>3. t \in Nat
    <3>1. t \in Teid
      BY <1>0, <1>2, TeidPoolSplit, AllocStep DEF LoopInv, CpInv
    <3> QED
      BY <3>1, TeidAssumption DEF Teid
  <2>4. tun \in Tunnel /\ tun.ul_teid = t
    BY <2>3 DEF Tunnel
  <2> QED
    BY <2>2, <2>4, NoneAssumption
<1> HIDE DEF m, evt, new, tun
<1>8. /\ ent'[e].live /\ ent'[e].imsi = u /\ ent'[e].nas = new /\ ent'[e].tunnel = tun
      /\ \A f \in EntityId \ {e} : ent'[f] = ent[f]
  BY <1>1, <1>2, <1>3 DEF Slot, is_live
<1>9. DownOne(u, m)' /\ \A j \in 1 .. Len(responses') : responses'[j].ran = u
  BY <1>1, <1>2, <1>5, OneDown DEF Announces
<1>10. ASSUME NEW f \in LiveIds \ {e}, ent[f].tunnel # None
       PROVE  Settled(ent[f].tunnel.ul_teid)'
  <2>1. PICK r : r = ent[f].tunnel.ul_teid
    OBVIOUS
  <2>2. r # t
    BY <1>4, <1>10, <2>1 DEF TunnelsOwn
  <2>3. Settled(r)'
    BY <1>2, <1>6, <2>2 DEF Settled, Queued
  <2>4. ent'[f] = ent[f]
    BY <1>8 DEF LiveIds
  <2> QED
    BY <2>1, <2>3, <2>4
<1>11. Answered(u, e)
  BY <1>2, <1>8, <1>9, <1>10 DEF Answered
<1>12. Accepting(u, e)'
  <2>1. e \in LiveIds'
    BY <1>8 DEF LiveIds, is_live
  <2>2. Keyed(u, e)'
    BY DEF Complying, Took, Keyed, Looping, UeVector
  <2>3. Active(u, e)'
    BY <1>1, <1>2, <1>7, <1>8, <2>1 DEF Active, Bound, UeVector
  <2>4. ent'[e].tunnel.ul_teid = t
    BY <1>7, <1>8
  <2>5. ngap_rx'[u] = <<>>
    BY <1>1 DEF Took, DownNone
  <2> QED
    BY <1>5, <1>9, <2>2, <2>3, <2>4, <2>5 DEF Accepting, Announces, UeVector
<1> QED
  BY <1>11, <1>12 DEF Stage

\* DeregistrationRequest: the Accept under the UE's keys, then the release.
LEMMA DetachAnswered ==
    ASSUME LoopInv, NEW u \in Ue, NEW e \in EntityId, Leaving(u, e), NEW msg, Took(msg),
           \A f : UpNone(pipe', u, f),
           Detach(e, u, ent[e], "DeregistrationAccept", FALSE)
    PROVE  Answered(u, e) /\ Stage(u, e)'
<1>0. PICK nas : nas = ent[e].nas
  OBVIOUS
<1> DEFINE new == [nas EXCEPT !.dl_count = @ + 1]
           n == [ent[e] EXCEPT !.nas = new]
           a == DownlinkNasTransport(e, u, Protected("DeregistrationAccept", nas))
           c == UeContextReleaseCommand(e, u)
<1>1. /\ is_live(e) /\ ent[e].imsi = u /\ registry[u] = e /\ MaxSqn > 0
      /\ nas # None /\ nas.key = UeVector(u) /\ ent[e].tunnel # None /\ DownNone(u)
  BY <1>0 DEF Leaving, Active, Bound, LiveIds
<1>2. /\ ent' = [ent EXCEPT ![e] = n] /\ responses' = <<a, c>> /\ events' = <<>>
      /\ registry' = registry /\ sqn' = sqn
  BY <1>0, <1>1 DEF Detach, set_slot, Returns
<1>3. ent \in [EntityId -> Slot]
  BY DEF LoopInv, CpInv, WorldInv, WorldTypeOK
<1>4. new # None /\ new.key = UeVector(u)
  <2>1. nas \in NasContext
    BY <1>0, <1>1, <1>3 DEF Slot
  <2>2. nas.dl_count + 1 \in Nat
    BY <2>1 DEF NasContext
  <2>3. new \in NasContext /\ new.key = UeVector(u)
    BY <1>1, <2>1, <2>2 DEF NasContext
  <2> QED
    BY <2>3, NoneAssumption
<1>5. Parts(a, u, e) /\ Releases(c, u, e)
  BY <1>1 DEF Parts, Releases, DownlinkNasTransport, UeContextReleaseCommand, Protected
<1> HIDE DEF a, c, new
<1>6. /\ ent'[e].live /\ ent'[e].imsi = u /\ ent'[e].nas = new
      /\ ent'[e].tunnel = ent[e].tunnel
      /\ \A f \in EntityId \ {e} : ent'[f] = ent[f]
  BY <1>1, <1>2, <1>3 DEF Slot, is_live
<1>7. DownTwo(u, a, c)' /\ \A i \in 1 .. Len(responses') : responses'[i].ran = u
  <2>1. ngap_rx'[u] = <<>>
    BY <1>1 DEF Took, DownNone
  <2>2. a.ran = u /\ c.ran = u
    BY <1>5 DEF Parts, Releases
  <2>3. \A i \in 1 .. Len(responses') : responses'[i] \in {a, c}
    BY <1>2
  <2> QED
    BY <1>2, <2>1, <2>2, <2>3 DEF DownTwo
<1>8. Answered(u, e)
  BY <1>2, <1>6, <1>7, NothingCreated DEF Answered
<1>9. Releasing(u, e)'
  <2>1. e \in LiveIds'
    BY <1>6 DEF LiveIds, is_live
  <2>2. Keyed(u, e)'
    BY DEF Leaving, Took, Keyed, Looping, UeVector
  <2>3. Active(u, e)'
    BY <1>1, <1>2, <1>4, <1>6, <2>1 DEF Active, Bound, UeVector
  <2> QED
    BY <1>5, <1>7, <2>2, <2>3 DEF Releasing, Parts, Releases, UeVector
<1> QED
  BY <1>8, <1>9 DEF Stage

\* UeContextReleaseComplete: the entity and its entry in the index are gone.
LEMMA ReleaseAnswered ==
    ASSUME LoopInv, NEW u \in Ue, NEW e \in EntityId, Released(u, e), NEW msg, Took(msg),
           \A f : UpNone(pipe', u, f), Teardown(e)
    PROVE  Answered(u, e) /\ Stage(u, None)'
<1>1. is_live(e) /\ ent[e].imsi = u /\ ent[e].tunnel # None /\ DownNone(u)
  BY DEF Released, Active, Bound, LiveIds
<1>2. /\ deregister(u) /\ despawn(e) /\ sqn' = sqn /\ responses' = <<>>
      /\ events' = <<RemoveSession(tunnel(e).ul_teid)>>
  BY <1>1 DEF Teardown, Returns, tunnel
<1>3. \A f \in EntityId \ {e} : ent'[f] = ent[f]
  BY <1>2, DespawnStep DEF LoopInv, CpInv
<1>4. /\ registry'[u] = None
      /\ \A v \in Ue \ {u} : registry'[v] = registry[v]
  BY <1>2, SimAssumption DEF deregister
<1>5. DownNone(u)' /\ \A i \in 1 .. Len(responses') : responses'[i].ran = u
  BY <1>1, <1>2, NoDown
<1>6. Answered(u, e)
  BY <1>2, <1>3, <1>4, <1>5, NothingCreated DEF Answered
<1>7. Offline(u, None)'
  BY <1>4, <1>5 DEF Offline, Gone, Released, Took
<1> QED
  BY <1>6, <1>7 DEF Stage

\* InitialContextSetupResponse and RegistrationComplete: the tunnel gets its
\* downlink TEID, and the UE's stage does not depend on it.
LEMMA HarmlessAnswered ==
    ASSUME LoopInv, NEW u \in Ue, NEW e \in EntityId, Stage(u, e), NEW msg, Took(msg),
           msg.ran = u, Harmless(msg, u, e), process_ngap(msg)
    PROVE  Answered(u, e) /\ Stage(u, e)'
<1>1. ent \in [EntityId -> Slot]
  BY DEF LoopInv, CpInv, WorldInv, WorldTypeOK
<1>2. /\ Alike(ent[e], ent'[e]) /\ \A f \in EntityId \ {e} : ent'[f] = ent[f]
      /\ registry' = registry /\ sqn' = sqn /\ responses' = <<>>
      /\ events' = <<>> \/ \E t, dl : events' = <<UpdateBearer(t, dl)>>
  <2>1. CASE msg = IcsResponse(u, e)
    <3> DEFINE dl == DlTeidBase + u
    <3>1. BearerSetUp(e, dl)
      BY <2>1 DEF process_ngap, IcsResponse, handle_ics_response
    <3> HIDE DEF dl
    <3>2. CASE Drop
      BY <3>2, AlikeSelf DEF Drop, Returns, coreVars
    <3>3. CASE tunnel(e) # None /\ ~Drop
      <4> DEFINE n == [ent[e] EXCEPT !.tunnel.dl_teid = dl]
      <4>1. /\ ent' = [ent EXCEPT ![e] = n] /\ registry' = registry /\ sqn' = sqn
            /\ responses' = <<>> /\ events' = <<UpdateBearer(tunnel(e).ul_teid, dl)>>
        BY <3>1, <3>3 DEF BearerSetUp, set_slot, Returns
      <4>2. ent[e] \in Slot /\ ent[e].tunnel \in Tunnel
        BY <1>1, <3>3 DEF tunnel, Slot
      <4>3. n.tunnel = [ent[e].tunnel EXCEPT !.dl_teid = dl]
        BY <4>2 DEF Slot
      <4>4. n.tunnel.ul_teid = ent[e].tunnel.ul_teid
        BY <4>2, <4>3 DEF Tunnel
      <4>5. n.tunnel # None
        <5>1. dl \in Nat
          BY SimAssumption, ControlPlaneAssumption DEF dl
        <5>2. n.tunnel \in Tunnel
          BY <4>2, <4>3, <5>1 DEF Tunnel
        <5> QED
          BY <5>2, NoneAssumption
      <4>6. Alike(ent[e], n)
        BY <4>2, <4>4, <4>5 DEF Alike, Slot
      <4> HIDE DEF n
      <4> QED
        BY <1>1, <4>1, <4>6
    <3> QED
      BY <3>1, <3>2, <3>3 DEF BearerSetUp
  <2>2. CASE msg = Uplink(u, e, [type |-> "RegistrationComplete"])
    <3>1. Ignore(e, ent[e])
      BY <2>2, PlainNas
    <3> QED
      BY <1>1, <3>1, AlikeSelf DEF Ignore, Returns
  <2> QED
    BY <2>1, <2>2 DEF Harmless
<1>3. \A t : Settled(t)'
  BY <1>2, NothingCreated
<1>4. Answered(u, e)
  BY <1>2, <1>3 DEF Answered
<1>5. Kept(u, e)
  <2>1. CoreKept(u, e)
    BY <1>2, CoreFrame
  <2>2. DownKept(u)
    BY <1>2, DownFrame DEF Took, Unaddressed
  <2>3. UpKept(pipe, pipe', u, e)
    BY TakeOther DEF Took
  <2> QED
    BY <1>3, <2>1, <2>2, <2>3 DEF Kept, TeidKept, Took
<1> QED
  BY <1>4, <1>5, KeptStage

\* Every message the AMF receives.
LEMMA AmfReceiveStep ==
    ASSUME SimInv, AmfReceive
    PROVE  SimInv'
<1>1. PICK msg : msg = Head(up)
  OBVIOUS
<1>2. msg \in UplinkMsg /\ Took(msg) /\ process_ngap(msg) /\ LoopInv'
  BY <1>1, AmfTakes
<1>3. PICK b \in Bindings : \A v \in Ue : Stage(v, b[v])
  BY DEF SimInv
<1>4. PICK u \in Ue : u = msg.ran
  BY <1>2 DEF UplinkMsg, InitialUeMessage, Uplink, IcsResponse, ReleaseComplete
<1>5. PICK e \in EntityId \cup {None} : e = b[u]
  BY DEF Bindings
<1>6. LoopInv /\ Stage(u, e)
  BY <1>3, <1>5 DEF SimInv
<1>7. ASSUME NEW g \in {e, None}, e \in EntityId, Answered(u, e), Stage(u, g)'
      PROVE  SimInv'
  <2>1. \A v \in Ue \ {u} : b[v] # e
    BY <1>5, <1>7, NoneAssumption DEF Bindings
  <2> QED
    BY <1>2, <1>3, <1>4, <1>7, <2>1, AnsweredKeeps
<1>8. CASE Harmless(msg, u, e)
  <2>1. e \in EntityId
    BY <1>8 DEF Harmless
  <2>2. Answered(u, e) /\ Stage(u, e)'
    BY <1>2, <1>4, <1>6, <1>8, <2>1, HarmlessAnswered
  <2> QED
    BY <1>7, <2>1, <2>2
<1>9. CASE ~Harmless(msg, u, e)
  <2>1. \A f : UpNone(pipe', u, f)
    BY <1>2, <1>4, <1>6, <1>9, TokenStage
  <2>2. CASE Requesting(u, e) /\ msg = InitialUeMessage(u)
    <3>1. start_registration(FALSE, u)
      BY <1>2, <2>2 DEF process_ngap, InitialUeMessage
    <3>2. PICK s \in EntityId : s \notin LiveIds /\ Answered(u, s) /\ Stage(u, s)'
      BY <1>2, <1>6, <2>1, <2>2, <3>1, StartAnswered
    <3>3. ASSUME NEW v \in Ue PROVE b[v] # s
      <4>1. b[v] = None \/ b[v] \in LiveIds
        BY <1>3, StageLive
      <4> QED
        BY <3>2, <4>1, NoneAssumption
    <3> QED
      BY <1>2, <1>3, <1>4, <3>2, <3>3, AnsweredKeeps
  <2>3. CASE Identified(u, e) /\ msg = Uplink(u, e, IdentityResponse(u))
    <3>1. e \in EntityId
      BY <2>3 DEF Identified, Spawned, LiveIds
    <3>2. handle_identity_response(e, u, ent[e], [scheme |-> 0, msin |-> u])
      BY <1>2, <2>3, <3>1, PlainNas DEF IdentityResponse
    <3> QED
      BY <1>2, <1>6, <1>7, <2>1, <2>3, <3>1, <3>2, IdentityAnswered
  <2>4. CASE Answering(u, e) /\ msg = Uplink(u, e, AuthenticationResponse(u))
    <3>1. e \in EntityId
      BY <2>4 DEF Answering, Challenged, Bound, LiveIds
    <3>2. VerifyRes(e, u, ent[e], UeVector(u))
      BY <1>2, <2>4, <3>1, PlainNas DEF AuthenticationResponse
    <3> QED
      BY <1>2, <1>6, <1>7, <2>1, <2>4, <3>1, <3>2, ResponseAnswered
  <2>5. CASE Complying(u, e) /\ msg = Uplink(u, e, SecurityModeComplete)
    <3>1. e \in EntityId
      BY <2>5 DEF Complying, Verified, Bound, LiveIds
    <3>2. ActivateNas(e, u, ent[e], "RegistrationAccept", ue_ip(e))
      BY <1>2, <2>5, <3>1, PlainNas DEF SecurityModeComplete
    <3> QED
      BY <1>2, <1>6, <1>7, <2>1, <2>5, <3>1, <3>2, ComplyAnswered
  <2>6. CASE Leaving(u, e) /\ msg = Uplink(u, e, DeregistrationRequest)
    <3>1. e \in EntityId
      BY <2>6 DEF Leaving, Active, Bound, LiveIds
    <3>2. Detach(e, u, ent[e], "DeregistrationAccept", FALSE)
      <4>1. PICK pdu : pdu = DeregistrationRequest
        OBVIOUS
      <4>2. pdu.type = "DeregistrationRequest" /\ pdu.switch_off = FALSE
        BY <4>1 DEF DeregistrationRequest
      <4>3. Detach(e, u, ent[e], "DeregistrationAccept", pdu.switch_off)
        BY <1>2, <2>6, <3>1, <4>1, <4>2, PlainNas
      <4> QED
        BY <4>2, <4>3
    <3> QED
      BY <1>2, <1>6, <1>7, <2>1, <2>6, <3>1, <3>2, DetachAnswered
  <2>7. CASE Released(u, e) /\ msg = ReleaseComplete(u, e)
    <3>1. e \in EntityId
      BY <2>7 DEF Released, Active, Bound, LiveIds
    <3>2. Teardown(e)
      BY <1>2, <2>7 DEF process_ngap, ReleaseComplete, handle_release_complete
    <3>3. Answered(u, e) /\ Stage(u, None)'
      BY <1>2, <1>6, <2>1, <2>7, <3>1, <3>2, ReleaseAnswered
    <3> QED
      BY <1>7, <3>1, <3>3
  <2> QED
    BY <1>2, <1>4, <1>6, <1>9, <2>2, <2>3, <2>4, <2>5, <2>6, <2>7, TokenStage
<1> QED
  BY <1>8, <1>9

-----------------------------------------------------------------------------
(* The simulation.                                                         *)

\* All UEs start, bound to none.
LEMMA SimInitInv == SimInit => SimInv
<1> SUFFICES ASSUME SimInit PROVE SimInv
  OBVIOUS
<1>1. LoopInv
  BY LoopInitInv DEF SimInit
<1>2. /\ ue = [u \in Ue |-> [pc |-> "start", id |-> None, key |-> None,
                             ul_teid |-> 0, attempt |-> 0]]
      /\ responses = <<>> /\ registry = [i \in Imsi |-> None]
      /\ sqn = [i \in Imsi |-> 0] /\ ngap_rx = [u \in Ue |-> <<>>]
      /\ up = <<>> /\ out_q = <<>>
  BY DEF SimInit, PathInit, LoopInit, CpInit, RegistryInit
<1>3. SimTypeOK
  BY <1>2 DEF SimTypeOK, UeLocals
<1> DEFINE b == [u \in Ue |-> None]
<1>4. b \in Bindings
  BY DEF Bindings
<1>5. ASSUME NEW u \in Ue PROVE Stage(u, b[u])
  <2>1. pipe = <<>>
    BY <1>2 DEF pipe
  <2>2. Starting(u, None)
    BY <1>2, <2>1, SimAssumption DEF Starting, Unknown, UpNone, DownNone, Unaddressed
  <2> QED
    BY <2>2 DEF Stage
<1> QED
  BY <1>1, <1>3, <1>4, <1>5 DEF SimInv

\* Every step of every task keeps it.
LEMMA SimInvInductive == SimInv /\ Joined /\ [SimNext]_simVars => SimInv'
<1> SUFFICES ASSUME SimInv, Joined, [SimNext]_simVars PROVE SimInv'
  OBVIOUS
<1>1. ASSUME NEW u \in Ue, UeTask(u) PROVE SimInv'
  BY <1>1, UeTaskStep
<1>2. CASE Dispatch
  BY <1>2, DispatchStep
<1>3. CASE Join
  BY <1>3, IdleStep DEF Join
<1>4. CASE AmfLoop
  BY <1>4, AmfReceiveStep, AmfApplyStep, AmfSendStep DEF AmfLoop
<1>5. CASE UserPlane /\ UNCHANGED <<loopVars, chanVars>>
  <2>1. ue' = ue
    BY <1>5 DEF UserPlane, Forwarder, ForwardUplink, ForwardDownlink, Lose
  <2> QED
    BY <1>5, <2>1, IdleStep DEF chanVars
<1>6. CASE UNCHANGED simVars
  BY <1>6, IdleStep DEF simVars, chanVars
<1>7. CASE UnderWayLost
  BY <1>7, UnderWayLostStep
<1> QED
  BY <1>1, <1>2, <1>3, <1>4, <1>5, <1>6, <1>7 DEF SimNext, Done

\* A UE task that has ended does nothing more.
LEMMA JoinedStep == Joined /\ [SimNext]_simVars => Joined'
<1> SUFFICES ASSUME Joined, [SimNext]_simVars PROVE Joined'
  OBVIOUS
<1>1. ASSUME NEW u \in Ue, UeTask(u) PROVE Joined'
  <2>1. gnb' = gnb /\ ue[u].pc \notin Final
    BY <1>1 DEF UeTask, UeStart, UeReceive, RoundTripStep, RoundTripSend,
                RoundTripTimeout, EchoReceived, RoundTripDone, chanVars, Final
  <2> QED
    BY <2>1 DEF Joined
<1>2. CASE Join \/ UnderWayLost
  BY <1>2 DEF Join, UnderWayLost, Joined
<1>3. CASE UNCHANGED <<ue, gnb>>
  BY <1>3 DEF Joined
<1>4. CASE Dispatch \/ AmfLoop \/ (UserPlane /\ UNCHANGED <<loopVars, chanVars>>)
           \/ UNCHANGED simVars
  BY <1>3, <1>4 DEF Dispatch, AmfLoop, AmfReceive, AmfApply, AmfSend, UserPlane,
     Forwarder, ForwardUplink, ForwardDownlink, Lose, chanVars, simVars
<1> QED
  BY <1>1, <1>2, <1>4 DEF SimNext, Done

\* Every UE of a run of midn-sim is at one of the stages, whatever the tasks
\* of the others and the network do.
THEOREM SimInvariant == SimSpec => [](SimInv /\ Joined)
<1>1. SimInit => SimInv /\ Joined
  BY SimInitInv DEF SimInit, Joined
<1>2. SimInv /\ Joined /\ [SimNext]_simVars => SimInv' /\ Joined'
  BY SimInvInductive, JoinedStep
<1> QED
  BY <1>1, <1>2, PTL DEF SimSpec

\* No run_one_ue task takes an error return: it meets only messages it expects
\* and can decrypt.
THEOREM SimNoProtocolError == SimSpec => []NoProtocolError
<1>1. SimInv => NoProtocolError
  <2> SUFFICES ASSUME SimInv, NEW u \in Ue PROVE ue[u].pc # "error"
    BY DEF NoProtocolError
  <2>1. PICK b \in Bindings : \A v \in Ue : Stage(v, b[v])
    BY DEF SimInv
  <2> QED
    BY <2>1, StageAt
<1> QED
  BY <1>1, SimInvariant, PTL

\* A UE that was told its UL TEID is routed to a session of its own entity for
\* as long as it may send (InitialContextSetupRequest after
\* create_session_with_teid, remove_session after UeContextReleaseComplete).
THEOREM SimOnlineIsRouted == SimSpec => []OnlineIsRouted
<1>1. SimInv => OnlineIsRouted
  <2> SUFFICES ASSUME SimInv, NEW u \in Ue, ue[u].pc \in {"round_trip", "await_echo"}
               PROVE  /\ process_uplink(ue[u].ul_teid) # NoEntry
                      /\ ent[sessions[ue[u].ul_teid].entity].imsi = u
    BY DEF OnlineIsRouted
  <2>1. PICK b \in Bindings : \A v \in Ue : Stage(v, b[v])
    BY DEF SimInv
  <2>2. PICK e : e = b[u]
    OBVIOUS
  <2>3. Online(u, e)
    BY <2>1, <2>2, StageAt
  <2>4. PICK t : t = ue[u].ul_teid
    OBVIOUS
  <2>5. /\ e \in LiveIds /\ ent[e].imsi = u /\ ent[e].tunnel # None
        /\ ent[e].tunnel.ul_teid = t /\ ~Queued("CreateSession", t)
    BY <2>3, <2>4 DEF Online, Active, Bound, Settled
  <2>6. sessions[t] # NoEntry /\ sessions[t].entity = e
    BY <2>5 DEF SimInv, LoopInv, TunnelsServed, Served
  <2>7. t \in Allocated /\ t \in UlTeid
    BY <2>5, LoopAssumption DEF SimInv, LoopInv, CpInv, TeidPool, Allocated, Issued
  <2>8. ~(call.fn = "remove" /\ call.teid = t)
    BY <2>7 DEF SimInv, LoopInv, TeidsMatch, Removing
  <2>9. ul_map[t] # NoEntry
    BY <2>6, <2>7, <2>8 DEF SimInv, LoopInv, UpfCore, Recorded
  <2> QED
    BY <2>4, <2>5, <2>6, <2>9 DEF process_uplink
<1> QED
  BY <1>1, SimInvariant, PTL

\* In the simulation the IMSI index never dangles (start_registration binds
\* no subscriber, handle_identity_response registers the entity it binds,
\* handle_release_complete deregisters).
THEOREM SimRegistryPointsHome == SimSpec => []RegistryPointsHome
<1>1. SimInv => RegistryPointsHome
  <2> SUFFICES ASSUME SimInv, NEW i \in Imsi, registry[i] # None
               PROVE  is_live(registry[i]) /\ ent[registry[i]].imsi = i
    BY DEF RegistryPointsHome
  <2>1. i \in Ue
    BY SimAssumption
  <2>2. PICK b \in Bindings : \A v \in Ue : Stage(v, b[v])
    BY DEF SimInv
  <2>3. PICK e : e = b[i]
    OBVIOUS
  <2>4. Bound(i, e)
    BY <2>1, <2>2, <2>3
       DEF Stage, Starting, Requesting, Identifying, Identified, Challenging, Answering,
           Commanding, Complying, Accepting, Online, Leaving, Releasing, Released,
           Offline, Unknown, Spawned, Challenged, Verified, Active, Gone
  <2> QED
    BY <2>4 DEF Bound, LiveIds
<1> QED
  BY <1>1, SimInvariant, PTL

-----------------------------------------------------------------------------
(* The simulation implements the AMF and UPF with an open RAN side.        *)

\* A step of the simulation is a step of module N3, or leaves AMF and UPF
\* alone.
LEMMA SimStepsN3 ==
    ASSUME SimInv, [SimNext]_simVars
    PROVE  [N3Next]_loopVars
<1>1. ASSUME NEW u \in Ue, UeTask(u) PROVE UNCHANGED loopVars
  BY <1>1 DEF UeTask, UeStart, UeReceive, RoundTripStep, EchoReceived
<1>2. CASE AmfReceive
  BY <1>2, AmfTakes DEF N3Next
<1>3. CASE AmfApply \/ AmfSend
  BY <1>3 DEF AmfApply, AmfSend, N3Next
<1>4. CASE Dispatch \/ Join \/ UnderWayLost \/ UNCHANGED simVars
  BY <1>4 DEF Dispatch, Join, UnderWayLost, simVars
<1> QED
  BY <1>1, <1>2, <1>3, <1>4 DEF SimNext, AmfLoop, Done

\* What is proved of module N3 for any RAN side holds in a run of midn-sim:
\* the UEs and the dispatcher send only what process_ngap was checked for.
THEOREM SimImplementsN3 == SimSpec => N3Spec
<1>1. SimInit => LoopInit
  BY DEF SimInit
<1>2. SimInv /\ [SimNext]_simVars => [N3Next]_loopVars
  BY SimStepsN3
<1> QED
  BY <1>1, <1>2, SimInvariant, PTL DEF SimSpec, N3Spec

\* So AMF and UPF agree on the TEIDs in use between two messages of the
\* simulation (LedgersAgree),
THEOREM SimLedgersAgree == SimSpec => []LedgersAgree
BY SimImplementsN3, N3LedgersAgree

\* and no UE is told a TEID before the UPF routes it.
THEOREM SimSessionBeforeAccept == SimSpec => SessionBeforeAccept
BY SimImplementsN3, N3SessionBeforeAccept
=============================================================================
