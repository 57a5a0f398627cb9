---------------------------- MODULE SimLteProofs ----------------------------
(***************************************************************************)
(* The LTE simulation keeps MME and UPF in step, wherever the link fails   *)
(* and however many datagrams are lost: LoopInv and the MME's invariant    *)
(* hold, because every message on the link, in either direction, names an  *)
(* entity id the MME has handed out, and run_ue answers only with those.   *)
(***************************************************************************)
EXTENDS SimLte, MmeProofs

-----------------------------------------------------------------------------
(* One call of process_s1ap, seen from the UPF.                            *)

\* AttachRequest: the new entity has no tunnel.
LEMMA StartAttachQuiet ==
    ASSUME CpInv, NEW imsi, NEW ran, start_attach(imsi, ran)
    PROVE  Quiet
<1>1. CASE Drop
  BY <1>1, DropQuiet
<1>2. CASE ~Drop
  <2> DEFINE v == NextVector(imsi)
             slot == [ent[SpawnId] EXCEPT !.imsi = imsi, !.xres = v, !.ck = v,
                                          !.auth = "ChallengeIssued"]
             new == [slot EXCEPT !.live = TRUE]
             a == DownlinkNasTransport(SpawnId, ran, Plain("AuthenticationRequest"))
  <2>1. /\ spawn(slot) /\ UNCHANGED <<teid_next, teid_free>>
        /\ events' = <<>> /\ responses' = <<a>>
    BY <1>2 DEF start_attach, Returns
  <2>2. SpawnId \in EntityId /\ ent[SpawnId] = Empty
    BY <2>1, SpawnIdFresh DEF spawn, CpInv
  <2>3. ent' = [ent EXCEPT ![SpawnId] = new]
    BY <2>1 DEF spawn
  <2> HIDE DEF v
  <2>4. new.tunnel = None
    BY <2>2 DEF Empty
  <2>5. a.type # "InitialContextSetupRequest"
    BY DEF DownlinkNasTransport
  <2> HIDE DEF new, a
  <2>6. /\ ent'[SpawnId] = new
        /\ \A f \in EntityId \ {SpawnId} : ent'[f] = ent[f]
    BY <2>2, <2>3 DEF CpInv, WorldInv, WorldTypeOK
  <2>7. \A f \in EntityId : (is_live(f)' /\ ent'[f].tunnel # None) =>
            is_live(f) /\ ent'[f].tunnel = ent[f].tunnel
    BY <2>4, <2>6 DEF is_live
  <2> QED
    BY <2>1, <2>5, <2>7, QuietStep
<1> QED
  BY <1>1, <1>2

\* UplinkNasTransport, whatever it carries; the UE address is 0.0.0.0.
LEMMA UplinkNasKind ==
    ASSUME CpInv, NEW e \in EntityId, NEW ran, NEW sec \in Security, NEW pdu,
           handle_uplink_nas(e, ran, sec, pdu)
    PROVE  Quiet \/ \E t \in UlTeid : Opens(t, e)
<1> DEFINE s == Unwrapped(e, sec)
<1>1. CASE ~Accepted(e, sec)
  BY <1>1, DropQuiet DEF handle_uplink_nas
<1>2. CASE Accepted(e, sec)
  <2>1. SlotView(e, s)
    BY <1>2, UnwrappedView
  <2>2. \/ handle_auth_response(e, ran, s, pdu.res)
        \/ handle_security_mode_complete(e, ran, s)
        \/ handle_attach_complete(e, s)
        \/ handle_detach_request(e, ran, s, pdu.switch_off)
        \/ Ignore(e, s)
    BY <1>2 DEF handle_uplink_nas
  <2> HIDE DEF s
  <2>3. CASE handle_auth_response(e, ran, s, pdu.res)
    BY <2>1, <2>3, VerifyResQuiet DEF handle_auth_response
  <2>4. CASE handle_security_mode_complete(e, ran, s)
    BY <2>1, <2>4, ActivateNasKind, LteAssumption DEF handle_security_mode_complete
  <2>5. CASE handle_detach_request(e, ran, s, pdu.switch_off)
    BY <2>1, <2>5, DetachQuiet DEF handle_detach_request
  <2>6. CASE handle_attach_complete(e, s) \/ Ignore(e, s)
    BY <2>1, <2>6, IgnoreQuiet DEF handle_attach_complete
  <2> QED
    BY <2>2, <2>3, <2>4, <2>5, <2>6
<1> QED
  BY <1>1, <1>2

-----------------------------------------------------------------------------
(* The messages on the link.                                               *)

\* What run_ue sends.
UePdu ==
    {[type |-> "AuthenticationResponse", res |-> UeVector],
     [type |-> "SecurityModeComplete"],
     [type |-> "AttachComplete"],
     [type |-> "DetachRequest", switch_off |-> FALSE]}

InitialUe == [type |-> "InitialUeMessage", ran |-> TestUe]

UplinkMsg ==
    {InitialUe}
        \cup {Uplink(e, pdu) : e \in EntityId, pdu \in UePdu}
        \cup {IcsResponse(e) : e \in EntityId}
        \cup {ReleaseComplete(e) : e \in EntityId}

\* What the MME sends.
EmmPdu == {"AuthenticationRequest", "SecurityModeCommand", "AttachAccept", "DetachAccept"}
NasPdu == [pdu : EmmPdu, key : Vector \cup {None}, count : Nat]

DownlinkMsg ==
    [type : {"DownlinkNasTransport"}, id : EntityId, ran : {TestUe}, nas : NasPdu]
        \cup [type : {"InitialContextSetupRequest"}, id : EntityId, ran : {TestUe},
              ul_teid : UlTeid, nas : NasPdu]
        \cup [type : {"UeContextReleaseCommand"}, id : EntityId, ran : {TestUe}]

\* The locals of run_ue.  It knows its MME id before it goes to the user plane.
UeLocals ==
    [pc : {"start", "control", "round_trip", "await_echo"} \cup Final,
     id : EntityId \cup {None}, key : {None, UeVector},
     ul_teid : UlTeid \cup {0}, attempt : Nat]

LteTypeOK ==
    /\ ue \in [Ue -> UeLocals]
    /\ me.pc \in {"round_trip", "await_echo"} => me.id \in EntityId
    /\ up \in Seq(UplinkMsg)
    /\ down \in Seq(DownlinkMsg)
    /\ responses \in Seq(DownlinkMsg)

LteInv ==
    /\ LoopInv
    /\ RegistryPointsHome
    /\ LteTypeOK

-----------------------------------------------------------------------------
(* What the MME answers.                                                   *)

\* Each message is built from the id it concerns.
LEMMA DownlinkTyped ==
    ASSUME NEW e \in EntityId, NEW nas \in NasPdu
    PROVE  /\ DownlinkNasTransport(e, TestUe, nas) \in DownlinkMsg
           /\ UeContextReleaseCommand(e, TestUe) \in DownlinkMsg
           /\ \A t \in UlTeid : InitialContextSetupRequest(e, TestUe, t, nas) \in DownlinkMsg
BY DEF DownlinkMsg, DownlinkNasTransport, UeContextReleaseCommand,
       InitialContextSetupRequest

\* The NAS PDUs in them.
LEMMA NasTyped ==
    /\ {"AuthenticationRequest", "SecurityModeCommand", "AttachAccept", "DetachAccept"}
           \subseteq EmmPdu
    /\ \A pdu \in EmmPdu : Plain(pdu) \in NasPdu
    /\ \A pdu \in EmmPdu, nas \in NasContext : Protected(pdu, nas) \in NasPdu
<1>1. ASSUME NEW pdu \in EmmPdu PROVE Plain(pdu) \in NasPdu
  BY DEF Plain, NasPdu
<1>2. ASSUME NEW pdu \in EmmPdu, NEW nas \in NasContext PROVE Protected(pdu, nas) \in NasPdu
  BY DEF Protected, NasPdu, NasContext
<1> QED
  BY <1>1, <1>2 DEF EmmPdu

\* Short sequences of them.
LEMMA RepliesTyped ==
    ASSUME NEW S
    PROVE  /\ <<>> \in Seq(S)
           /\ \A a \in S : <<a>> \in Seq(S)
           /\ \A a, b \in S : <<a, b>> \in Seq(S)
OBVIOUS

\* AuthenticationResponse.
LEMMA VerifyResReplies ==
    ASSUME NEW e \in EntityId, NEW s, NEW res, VerifyRes(e, TestUe, s, res)
    PROVE  responses' \in Seq(DownlinkMsg)
<1> DEFINE a == DownlinkNasTransport(e, TestUe, Plain("SecurityModeCommand"))
<1>1. a \in DownlinkMsg
  BY DownlinkTyped, NasTyped
<1>2. responses' = <<>> \/ responses' = <<a>>
  BY DEF VerifyRes, Drop, Returns
<1> HIDE DEF a
<1> QED
  BY <1>1, <1>2, RepliesTyped

\* SecurityModeComplete.
LEMMA ActivateNasReplies ==
    ASSUME CpInv, NEW e \in EntityId, NEW s, SlotView(e, s),
           ActivateNas(e, TestUe, s, "AttachAccept", 0)
    PROVE  responses' \in Seq(DownlinkMsg)
<1> DEFINE nas == [key |-> s.ck, ul_count |-> 0, dl_count |-> 0]
           a == DownlinkNasTransport(e, TestUe, Protected("AttachAccept", nas))
           c == InitialContextSetupRequest(e, TestUe, AllocTeid,
                                           Protected("AttachAccept", nas))
<1>1. nas \in NasContext
  BY DEF SlotView, Slot, NasContext
<1>2. Protected("AttachAccept", nas) \in NasPdu
  BY <1>1, NasTyped
<1>3. a \in DownlinkMsg
  BY <1>2, DownlinkTyped
<1>4. alloc => c \in DownlinkMsg
  <2> SUFFICES ASSUME alloc PROVE c \in DownlinkMsg
    OBVIOUS
  <2>1. AllocTeid \in Teid
    BY TeidPoolSplit, AllocStep DEF CpInv
  <2> QED
    BY <1>2, <2>1, DownlinkTyped, LoopAssumption
<1>5. \/ responses' = <<>>
      \/ responses' = <<a>>
      \/ alloc /\ responses' = <<c>>
  BY DEF ActivateNas, Drop, Returns
<1> HIDE DEF a, c
<1> QED
  BY <1>3, <1>4, <1>5, RepliesTyped

\* DetachRequest.
LEMMA DetachReplies ==
    ASSUME NEW e \in EntityId, NEW s, SlotView(e, s), NEW switch_off,
           Detach(e, TestUe, s, "DetachAccept", switch_off)
    PROVE  responses' \in Seq(DownlinkMsg)
<1> DEFINE a == DownlinkNasTransport(e, TestUe, Plain("DetachAccept"))
           b == DownlinkNasTransport(e, TestUe, Protected("DetachAccept", s.nas))
           c == UeContextReleaseCommand(e, TestUe)
<1>1. a \in DownlinkMsg /\ c \in DownlinkMsg
  BY DownlinkTyped, NasTyped
<1>2. s.nas # None => b \in DownlinkMsg
  <2>1. s.nas # None => s.nas \in NasContext
    BY DEF SlotView, Slot
  <2> QED
    BY <2>1, DownlinkTyped, NasTyped
<1>3. \/ responses' = <<>>
      \/ responses' = <<c>>
      \/ s.nas # None /\ responses' = <<b, c>>
      \/ responses' = <<a, c>>
  BY DEF Detach, Drop, Returns
<1> HIDE DEF a, b, c
<1> QED
  BY <1>1, <1>2, <1>3, RepliesTyped

\* The responses of every call are of the MME's messages, for ids it knows.
LEMMA UplinkNasReplies ==
    ASSUME CpInv, NEW e \in EntityId, NEW pdu, handle_uplink_nas(e, TestUe, NasPlain, pdu)
    PROVE  responses' \in Seq(DownlinkMsg)
<1> DEFINE s == Unwrapped(e, NasPlain)
<1>1. NasPlain \in Security /\ Accepted(e, NasPlain)
  BY DEF Security, Accepted, NasPlain
<1>2. SlotView(e, s)
  BY <1>1, UnwrappedView
<1>3. \/ handle_auth_response(e, TestUe, s, pdu.res)
      \/ handle_security_mode_complete(e, TestUe, s)
      \/ handle_detach_request(e, TestUe, s, pdu.switch_off)
      \/ Ignore(e, s)
  BY <1>1 DEF handle_uplink_nas, handle_attach_complete
<1> HIDE DEF s
<1>4. CASE handle_auth_response(e, TestUe, s, pdu.res)
  BY <1>4, VerifyResReplies DEF handle_auth_response
<1>5. CASE handle_security_mode_complete(e, TestUe, s)
  BY <1>2, <1>5, ActivateNasReplies DEF handle_security_mode_complete
<1>6. CASE handle_detach_request(e, TestUe, s, pdu.switch_off)
  BY <1>2, <1>6, DetachReplies DEF handle_detach_request
<1>7. CASE Ignore(e, s)
  BY <1>7, RepliesTyped DEF Ignore, Returns
<1> QED
  BY <1>3, <1>4, <1>5, <1>6, <1>7

\* The challenge goes to the new entity.
LEMMA StartAttachReplies ==
    ASSUME CpInv, NEW imsi, start_attach(imsi, TestUe)
    PROVE  responses' \in Seq(DownlinkMsg)
<1> DEFINE a == DownlinkNasTransport(SpawnId, TestUe, Plain("AuthenticationRequest"))
<1>1. CASE Drop
  BY <1>1, RepliesTyped DEF Drop, Returns
<1>2. CASE ~Drop
  <2>1. (free_ids # <<>> \/ next_id < MaxEntities) /\ responses' = <<a>>
    BY <1>2 DEF start_attach, spawn, Returns
  <2>2. SpawnId \in EntityId
    BY <2>1, SpawnIdFresh DEF CpInv
  <2>3. a \in DownlinkMsg
    BY <2>2, DownlinkTyped, NasTyped
  <2> HIDE DEF a
  <2> QED
    BY <2>1, <2>3, RepliesTyped
<1> QED
  BY <1>1, <1>2

-----------------------------------------------------------------------------
(* run_mme.                                                                *)

\* What run_mme may find on the link.
LEMMA UplinkCases ==
    ASSUME NEW m \in UplinkMsg
    PROVE  \/ m.type = "InitialUeMessage" /\ m.ran = TestUe
           \/ m.type = "UplinkNasTransport" /\ m.ran = TestUe /\ m.id \in EntityId
           \/ m.type = "InitialContextSetupResponse" /\ m.id \in EntityId /\ m.dl \in DlTeid
           \/ m.type = "UeContextReleaseComplete" /\ m.id \in EntityId
BY LteAssumption DEF UplinkMsg, InitialUe, Uplink, IcsResponse, ReleaseComplete

\* One call of process_s1ap, between two messages.
LEMMA ProcessStep ==
    ASSUME LoopInv, RegistryPointsHome, NEW m \in UplinkMsg, Receive(process_s1ap(m))
    PROVE  LoopInv' /\ RegistryPointsHome' /\ responses' \in Seq(DownlinkMsg)
<1>1. Drained /\ process_s1ap(m) /\ UNCHANGED upfVars /\ CpInv /\ MmeInv
  BY DEF Receive, LoopInv, MmeInv
<1>2. CASE m.type = "InitialUeMessage"
  <2>1. TestUe \in Imsi /\ start_attach(TestUe, TestUe)
    BY <1>1, <1>2, UplinkCases, LteAssumption DEF process_s1ap
  <2>2. MmeInv'
    BY <1>1, <2>1, StartAttachStep
  <2>3. Quiet /\ responses' \in Seq(DownlinkMsg)
    BY <1>1, <2>1, StartAttachQuiet, StartAttachReplies
  <2> QED
    BY <1>1, <2>2, <2>3, KindKeeps DEF MmeInv
<1>3. CASE m.type = "UplinkNasTransport"
  <2>1. PICK e \in EntityId : e = m.id /\ m.ran = TestUe
    BY <1>3, UplinkCases
  <2>2. NasPlain \in Security /\ handle_uplink_nas(e, TestUe, NasPlain, m.pdu)
    BY <1>1, <1>3, <2>1 DEF process_s1ap, Security
  <2>3. MmeInv'
    BY <1>1, <2>2, UplinkNasStep
  <2>4. Quiet \/ \E t \in UlTeid : Opens(t, e)
    BY <1>1, <2>2, UplinkNasKind
  <2>5. responses' \in Seq(DownlinkMsg)
    BY <1>1, <2>2, UplinkNasReplies
  <2> QED
    BY <1>1, <2>3, <2>4, <2>5, KindKeeps DEF MmeInv
<1>4. CASE m.type = "InitialContextSetupResponse"
  <2>1. PICK e \in EntityId, dl \in DlTeid : e = m.id /\ dl = m.dl
    BY <1>4, UplinkCases
  <2>2. BearerSetUp(e, dl)
    BY <1>1, <1>4, <2>1 DEF process_s1ap, handle_icsrsp
  <2>3. MmeInv'
    BY <1>1, <2>2, BearerSetUpStep DEF MmeInv, HomesKept
  <2>4. Quiet \/ \E t \in UlTeid : Redirects(t, e, dl)
    BY <1>1, <2>2, BearerSetUpKind
  <2>5. responses' \in Seq(DownlinkMsg)
    BY <2>2, RepliesTyped DEF BearerSetUp, Drop, Returns
  <2> QED
    BY <1>1, <2>3, <2>4, <2>5, KindKeeps DEF MmeInv
<1>5. CASE m.type = "UeContextReleaseComplete"
  <2>1. PICK e \in EntityId : e = m.id
    BY <1>5, UplinkCases
  <2>2. Teardown(e)
    BY <1>1, <1>5, <2>1 DEF process_s1ap, handle_release_complete
  <2>3. MmeInv'
    BY <1>1, <2>2, TeardownStep DEF MmeInv, HomesKept
  <2>4. Quiet \/ \E t \in UlTeid : Closes(t, e)
    BY <1>1, <2>2, TeardownKind
  <2>5. responses' \in Seq(DownlinkMsg)
    BY <2>2, RepliesTyped DEF Teardown, Returns
  <2> QED
    BY <1>1, <2>3, <2>4, <2>5, KindKeeps DEF MmeInv
<1> QED
  BY <1>2, <1>3, <1>4, <1>5, UplinkCases

\* MmeReceive, MmeApply, MmeSend and MmeLinkLost.
LEMMA MmeLoopStep ==
    ASSUME LteInv, MmeLoop
    PROVE  LteInv'
<1>1. CASE MmeReceive
  <2>1. /\ Head(up) \in UplinkMsg /\ Tail(up) \in Seq(UplinkMsg)
        /\ Receive(process_s1ap(Head(up))) /\ up' = Tail(up)
        /\ ue' = ue /\ down' = down
    BY <1>1 DEF MmeReceive, LteInv, LteTypeOK
  <2>2. LoopInv' /\ RegistryPointsHome' /\ responses' \in Seq(DownlinkMsg)
    BY <2>1, ProcessStep DEF LteInv
  <2> QED
    BY <2>1, <2>2 DEF LteInv, LteTypeOK, me
<1>2. CASE MmeApply
  <2>1. /\ ApplyEvent \/ ServeCall
        /\ ue' = ue /\ up' = up /\ down' = down
    BY <1>2 DEF MmeApply, linkVars
  <2>2. responses' = responses /\ ent' = ent /\ registry' = registry
    BY <2>1 DEF ApplyEvent, ServeCall, coreVars, cpVars
  <2>3. LoopInv'
    BY <2>1, ApplyEventStep, ServeCallStep DEF LteInv
  <2>4. RegistryPointsHome'
    BY <2>2 DEF LteInv, RegistryPointsHome, is_live
  <2> QED
    BY <2>1, <2>2, <2>3, <2>4 DEF LteInv, LteTypeOK, me
<1>3. CASE MmeSend
  <2>1. /\ SendResponse /\ responses # <<>> /\ responses' = Tail(responses)
        /\ down' = IF link = "up" THEN Append(down, Head(responses)) ELSE down
        /\ ue' = ue /\ up' = up /\ ent' = ent /\ registry' = registry
    BY <1>3 DEF MmeSend, SendResponse, coreVars
  <2>2. responses' \in Seq(DownlinkMsg) /\ down' \in Seq(DownlinkMsg)
    BY <2>1 DEF LteInv, LteTypeOK
  <2>3. LoopInv'
    BY <2>1, SendResponseStep DEF LteInv
  <2>4. RegistryPointsHome'
    BY <2>1 DEF LteInv, RegistryPointsHome, is_live
  <2> QED
    BY <2>1, <2>2, <2>3, <2>4 DEF LteInv, LteTypeOK, me
<1>4. CASE MmeLinkLost
  <2>1. UNCHANGED loopVars /\ ue' = ue /\ up' = up /\ down' = down
    BY <1>4 DEF MmeLinkLost
  <2>2. LoopInv'
    BY <2>1, LoopStutter DEF LteInv
  <2>3. responses' = responses /\ ent' = ent /\ registry' = registry
    BY <2>1 DEF loopVars, cpVars
  <2>4. RegistryPointsHome'
    BY <2>3 DEF LteInv, RegistryPointsHome, is_live
  <2> QED
    BY <2>1, <2>2, <2>3, <2>4 DEF LteInv, LteTypeOK, me
<1> QED
  BY <1>1, <1>2, <1>3, <1>4 DEF MmeLoop, MmeRuns

-----------------------------------------------------------------------------
(* run_ue and the link.                                                    *)

\* Steps that leave the core alone keep the invariant if they keep the types.
LEMMA CoreIdle ==
    ASSUME LteInv, UNCHANGED loopVars, ue' \in [Ue -> UeLocals],
           me'.pc \in {"round_trip", "await_echo"} => me'.id \in EntityId,
           up' \in Seq(UplinkMsg), down' \in Seq(DownlinkMsg)
    PROVE  LteInv'
<1>1. LoopInv'
  BY LoopStutter DEF LteInv
<1>2. responses' = responses /\ ent' = ent /\ registry' = registry
  BY DEF loopVars, cpVars
<1>3. RegistryPointsHome'
  BY <1>2 DEF LteInv, RegistryPointsHome, is_live
<1> QED
  BY <1>1, <1>2, <1>3 DEF LteInv, LteTypeOK

\* What a change of the locals leaves.
LEMMA Became ==
    ASSUME LteTypeOK, NEW l \in UeLocals, Become(l)
    PROVE  ue' \in [Ue -> UeLocals] /\ me' = l
BY LteAssumption DEF LteTypeOK, Become, Goto, me

\* What run_ue puts on the link.
LEMMA UplinkTyped ==
    /\ InitialUe \in UplinkMsg
    /\ \A e \in EntityId :
          /\ \A pdu \in UePdu : Uplink(e, pdu) \in UplinkMsg
          /\ IcsResponse(e) \in UplinkMsg
          /\ ReleaseComplete(e) \in UplinkMsg
BY DEF UplinkMsg

\* Sending one or two of them.
LEMMA Sent ==
    ASSUME LteTypeOK
    PROVE  /\ \A x \in UplinkMsg : Send(<<x>>) => up' \in Seq(UplinkMsg)
           /\ \A x, y \in UplinkMsg : Send(<<x, y>>) => up' \in Seq(UplinkMsg)
<1>1. up \in Seq(UplinkMsg)
  BY DEF LteTypeOK
<1>2. \A s \in Seq(UplinkMsg) : Send(s) => up' \in Seq(UplinkMsg)
  BY <1>1 DEF Send
<1> QED
  BY <1>2, RepliesTyped

\* The first message to the MME.
LEMMA UeStartStep ==
    ASSUME LteInv, UeStart
    PROVE  LteInv'
<1>1. LteTypeOK /\ UNCHANGED loopVars /\ down' = down /\ down \in Seq(DownlinkMsg)
  BY DEF LteInv, LteTypeOK, UeStart
<1>2. PICK l : l = [me EXCEPT !.pc = "control"]
  OBVIOUS
<1>3. l \in UeLocals /\ l.pc = "control"
  <2>1. me \in UeLocals
    BY <1>1, LteAssumption DEF LteTypeOK, me
  <2> QED
    BY <1>2, <2>1 DEF UeLocals
<1>4. Become(l) /\ Send(<<InitialUe>>)
  BY <1>2 DEF UeStart, send_initial, InitialUe
<1>5. up' \in Seq(UplinkMsg)
  BY <1>1, <1>4, UplinkTyped, Sent
<1> QED
  BY <1>1, <1>3, <1>4, <1>5, Became, CoreIdle

\* A message of the MME: the first one tells run_ue its id, the answers carry it.
LEMMA UeReceiveStep ==
    ASSUME LteInv, UeReceive
    PROVE  LteInv'
<1>1. /\ LteTypeOK /\ UNCHANGED loopVars /\ me.pc = "control" /\ down # <<>>
      /\ down' = Tail(down) /\ down \in Seq(DownlinkMsg) /\ up \in Seq(UplinkMsg)
  BY DEF LteInv, LteTypeOK, UeReceive
<1>2. me \in UeLocals
  BY <1>1, LteAssumption DEF LteTypeOK, me
<1>3. PICK m \in DownlinkMsg : m = Head(down)
  BY <1>1
<1>4. down' \in Seq(DownlinkMsg)
  BY <1>1
<1>5. m.id \in EntityId /\ (m.type = "InitialContextSetupRequest" => m.ul_teid \in UlTeid)
  BY DEF DownlinkMsg
<1>6. PICK now : now = [me EXCEPT !.id = IF @ = None THEN m.id ELSE @]
  OBVIOUS
<1>7. now \in UeLocals /\ now.id \in EntityId /\ now.pc = "control"
  BY <1>1, <1>2, <1>5, <1>6 DEF UeLocals
<1>8. PICK n, r, v, w, x, z :
         /\ n = [now EXCEPT !.key = UeVector]
         /\ r = [now EXCEPT !.pc = "round_trip", !.ul_teid = m.ul_teid]
         /\ v = [now EXCEPT !.pc = "error"]
         /\ w = [me EXCEPT !.pc = "error"]
         /\ z = [me EXCEPT !.pc = "ok"]
         /\ x = m.ul_teid
  OBVIOUS
<1>9. n \in UeLocals /\ n.pc = "control"
  BY <1>7, <1>8 DEF UeLocals
<1>10. v \in UeLocals /\ v.pc = "error"
  BY <1>7, <1>8 DEF UeLocals, Final
<1>11. z \in UeLocals /\ z.pc = "ok" /\ w \in UeLocals /\ w.pc = "error"
  BY <1>2, <1>8 DEF UeLocals, Final
<1>12. x \in UlTeid => r \in UeLocals /\ r.id \in EntityId
  BY <1>7, <1>8 DEF UeLocals
<1>13. \/ Become(n) /\ \E x1 \in UplinkMsg : Send(<<x1>>)
       \/ Become(now) /\ \E x1 \in UplinkMsg : Send(<<x1>>)
       \/ (Become(v) \/ Become(w)) /\ up' = up
       \/ Become(now) /\ up' = up
       \/ x \in UlTeid /\ Become(r) /\ \E x1, x2 \in UplinkMsg : Send(<<x1, x2>>)
       \/ Become(z) /\ \E x1 \in UplinkMsg : Send(<<x1>>)
  <2>1. /\ [type |-> "AuthenticationResponse", res |-> UeVector] \in UePdu
        /\ [type |-> "SecurityModeComplete"] \in UePdu
        /\ [type |-> "AttachComplete"] \in UePdu
    BY DEF UePdu
  <2>2. ASSUME AnswerPlain(now, m.nas.pdu)
        PROVE  \/ Become(n) /\ \E x1 \in UplinkMsg : Send(<<x1>>)
               \/ Become(now) /\ \E x1 \in UplinkMsg : Send(<<x1>>)
               \/ Become(v) /\ up' = up
    BY <1>7, <1>8, <2>1, <2>2, UplinkTyped DEF AnswerPlain
  <2>3. \/ AnswerPlain(now, m.nas.pdu)
        \/ Become(now) /\ up' = up
        \/ (Become(v) \/ Become(w)) /\ up' = up
        \/ /\ m.type = "InitialContextSetupRequest"
           /\ Become(r)
           /\ Send(<<IcsResponse(now.id), Uplink(now.id, [type |-> "AttachComplete"])>>)
        \/ Become(z) /\ Send(<<ReleaseComplete(m.id)>>)
    BY <1>3, <1>6, <1>8 DEF UeReceive
  <2> QED
    BY <1>5, <1>7, <1>8, <2>1, <2>2, <2>3, UplinkTyped
<1>14. up' \in Seq(UplinkMsg)
  BY <1>1, <1>13, Sent
<1>15. ue' \in [Ue -> UeLocals] /\ (me'.pc \in {"round_trip", "await_echo"} => me'.id \in EntityId)
  BY <1>1, <1>7, <1>9, <1>10, <1>11, <1>12, <1>13, Became
<1> QED
  BY <1>1, <1>4, <1>14, <1>15, CoreIdle

\* user_plane_round_trip: attempts and timeouts.
LEMMA UeRoundTripStep ==
    ASSUME LteInv, user_plane_round_trip
    PROVE  LteInv'
<1>1. /\ LteTypeOK /\ UNCHANGED loopVars /\ up' = up /\ down' = down
      /\ down \in Seq(DownlinkMsg) /\ up \in Seq(UplinkMsg)
  BY DEF LteInv, LteTypeOK, user_plane_round_trip, linkVars
<1>2. me \in UeLocals
  BY <1>1, LteAssumption DEF LteTypeOK, me
<1>3. PICK a, r, l : /\ a = [me EXCEPT !.pc = "await_echo", !.attempt = @ + 1]
                     /\ r = [me EXCEPT !.pc = "round_trip"]
                     /\ l = [me EXCEPT !.pc = "lost"]
  OBVIOUS
<1>4. me.id \in EntityId /\ (Become(a) \/ Become(r) \/ Become(l))
  BY <1>1, <1>3 DEF user_plane_round_trip, RoundTripSend, RoundTripTimeout, Become, me,
                    LteTypeOK
<1>5. a \in UeLocals /\ a.id = me.id
  <2>1. PICK k \in Nat : k = me.attempt + 1
    BY <1>2 DEF UeLocals
  <2>2. a = [me EXCEPT !.pc = "await_echo", !.attempt = k]
    BY <1>3, <2>1
  <2> QED
    BY <1>2, <2>2 DEF UeLocals
<1>6. r \in UeLocals /\ r.id = me.id
  BY <1>2, <1>3 DEF UeLocals
<1>7. l \in UeLocals /\ l.pc = "lost"
  BY <1>2, <1>3 DEF UeLocals, Final
<1> QED
  BY <1>1, <1>4, <1>5, <1>6, <1>7, Became, CoreIdle

\* The echo: DetachRequest under the id of the attach.
LEMMA EchoReceivedStep ==
    ASSUME LteInv, NEW p, EchoReceived(p)
    PROVE  LteInv'
<1>1. /\ LteTypeOK /\ UNCHANGED loopVars /\ down' = down /\ down \in Seq(DownlinkMsg)
  BY DEF LteInv, LteTypeOK, EchoReceived
<1>2. me \in UeLocals
  BY <1>1, LteAssumption DEF LteTypeOK, me
<1>3. PICK l, x : /\ l = [me EXCEPT !.pc = "control"]
                  /\ x = Uplink(me.id, [type |-> "DetachRequest", switch_off |-> FALSE])
  OBVIOUS
<1>4. me.pc = "await_echo" /\ Become(l) /\ Send(<<x>>)
  BY <1>3 DEF EchoReceived, RoundTripDone, Become, me
<1>5. me.id \in EntityId
  BY <1>1, <1>4 DEF LteTypeOK
<1>6. x \in UplinkMsg
  BY <1>3, <1>5, UplinkTyped DEF UePdu
<1>7. l \in UeLocals /\ l.pc = "control"
  BY <1>2, <1>3 DEF UeLocals
<1>8. up' \in Seq(UplinkMsg)
  BY <1>1, <1>4, <1>6, Sent
<1> QED
  BY <1>1, <1>4, <1>7, <1>8, Became, CoreIdle

\* run_ue learns that the link is gone.
LEMMA UeLinkLostStep ==
    ASSUME LteInv, UeLinkLost
    PROVE  LteInv'
<1>1. /\ LteTypeOK /\ UNCHANGED loopVars /\ up' = up /\ down' = down
      /\ down \in Seq(DownlinkMsg) /\ up \in Seq(UplinkMsg)
  BY DEF LteInv, LteTypeOK, UeLinkLost, linkVars
<1>2. me \in UeLocals
  BY <1>1, LteAssumption DEF LteTypeOK, me
<1>3. PICK l : l = [me EXCEPT !.pc = "link_lost"] /\ Become(l)
  BY DEF UeLinkLost
<1>4. l \in UeLocals /\ l.pc = "link_lost"
  BY <1>2, <1>3 DEF UeLocals, Final
<1> QED
  BY <1>1, <1>3, <1>4, Became, CoreIdle

\* The link fails: what is still delivered was sent.
LEMMA LinkFailsStep ==
    ASSUME LteInv, LinkFails
    PROVE  LteInv'
<1>1. /\ LteTypeOK /\ UNCHANGED loopVars /\ ue' = ue
      /\ down \in Seq(DownlinkMsg) /\ up \in Seq(UplinkMsg)
  BY DEF LteInv, LteTypeOK, LinkFails
<1>2. PICK i \in 0 .. Len(up), j \in 0 .. Len(down) :
         up' = SubSeq(up, 1, i) /\ down' = SubSeq(down, 1, j)
  BY DEF LinkFails
<1>3. up' \in Seq(UplinkMsg) /\ down' \in Seq(DownlinkMsg)
  BY <1>1, <1>2
<1>4. me' = me
  BY <1>1 DEF me
<1> QED
  BY <1>1, <1>3, <1>4, CoreIdle DEF LteTypeOK

\* The forwarder, the network, and the end: neither task moves.
LEMMA LteStutter ==
    ASSUME LteInv, UNCHANGED <<loopVars, ue, up, down>>
    PROVE  LteInv'
<1>1. LteTypeOK /\ UNCHANGED loopVars /\ ue' = ue /\ up' = up /\ down' = down /\ me' = me
  BY DEF LteInv, me
<1> QED
  BY <1>1, CoreIdle DEF LteTypeOK

\* Every step of mme-sim preserves the invariant.
LEMMA LteInvInductive == LteInv /\ [LteNext]_lteVars => LteInv'
<1> SUFFICES ASSUME LteInv, [LteNext]_lteVars PROVE LteInv'
  OBVIOUS
<1>1. CASE UeTask
  BY <1>1, UeStartStep, UeReceiveStep, UeRoundTripStep, EchoReceivedStep, UeLinkLostStep
     DEF UeTask, UeRuns
<1>2. CASE MmeLoop
  BY <1>2, MmeLoopStep
<1>3. CASE UserPlane /\ UNCHANGED <<loopVars, linkVars>>
  <2>1. ue' = ue
    BY <1>3 DEF UserPlane, Forwarder, ForwardUplink, ForwardDownlink, Lose
  <2> QED
    BY <1>3, <2>1, LteStutter DEF linkVars
<1>4. CASE LinkFails
  BY <1>4, LinkFailsStep
<1>5. CASE Done \/ UNCHANGED lteVars
  BY <1>5, LteStutter DEF Done, lteVars, linkVars
<1> QED
  BY <1>1, <1>2, <1>3, <1>4, <1>5 DEF LteNext

\* mme-sim starts with an empty core, an idle UE and an empty link.
LEMMA LteInitInv == LteInit => LteInv
<1> SUFFICES ASSUME LteInit PROVE LteInv
  OBVIOUS
<1>1. LoopInv /\ RegistryPointsHome
  BY LoopInitInv, CpInitInv DEF LteInit, LoopInit
<1>2. up = <<>> /\ down = <<>> /\ responses = <<>>
  BY DEF LteInit, LoopInit, CpInit
<1>3. ue \in [Ue -> UeLocals] /\ me.pc = "start"
  BY LteAssumption DEF LteInit, PathInit, UeLocals, me
<1> QED
  BY <1>1, <1>2, <1>3, RepliesTyped DEF LteInv, LteTypeOK

\* The invariant holds in every state of mme-sim, also after the link failed.
THEOREM LteInvariant == LteSpec => []LteInv
<1>1. LteInit => LteInv
  BY LteInitInv
<1>2. LteInv /\ [LteNext]_lteVars => LteInv'
  BY LteInvInductive
<1> QED
  BY <1>1, <1>2, PTL DEF LteSpec

\* MME and UPF agree on the TEIDs in use whenever run_mme waits for the next
\* message, wherever the link was cut and whatever was lost (LedgersAgree).
THEOREM LteLedgersAgree == LteSpec => []LedgersAgree
<1>1. LteInv => LedgersAgree
  BY DrainedAgree DEF LteInv, LedgersAgree
<1> QED
  BY <1>1, LteInvariant, PTL
=============================================================================
