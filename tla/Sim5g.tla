------------------------------- MODULE Sim5g -------------------------------
(***************************************************************************)
(* midn-sim: n UEs behind one gNB register with the AMF, send a packet     *)
(* through the UPF, which echoes it, and deregister.                       *)
(*                                                                         *)
(* run_gnb's tasks are the actors: one run_one_ue per UE, the dispatcher   *)
(* that owns the SCTP link, and the AMF process of module CoreLoop.  The   *)
(* link is reliable and ordered; GTP-U datagrams are lost, delayed and     *)
(* reordered.  The dispatcher's receive half only routes by the RAN id, so *)
(* a response goes straight into the channel of the UE it names.           *)
(***************************************************************************)
EXTENDS N3, RoundTrip

CONSTANTS
    NUes,          \* --n-ues
    DlTeidBase     \* MOCK_DL_TEID_BASE

\* UE number u has IMSI, RAN id and DL TEID u (above their base).
ASSUME SimAssumption ==
    /\ NUes \in Nat
    /\ Ue = 1 .. NUes
    /\ Imsi = Ue
    /\ RanId = Ue
    /\ DlTeid = {DlTeidBase + u : u \in Ue}
    /\ WithUpf
    /\ None \notin Suci

VARIABLES
    ngap_rx,   \* per UE: messages from the dispatcher
    out_q,     \* out_tx / out_rx: messages for the dispatcher
    up,        \* messages handed to the link and not yet received by the AMF
    gnb        \* "running"; "returned": run_gnb has joined the UEs and dropped
               \* the link; "gone": what the AMF had not got by then is lost

chanVars == <<ngap_rx, out_q, up, gnb>>
simVars == <<loopVars, pathVars, ue, chanVars>>

Final == {"ok", "lost", "error"}

SimInit ==
    /\ LoopInit
    /\ PathInit
    /\ sqn = [i \in Imsi |-> 0]
    /\ ngap_rx = [u \in Ue |-> <<>>]
    /\ out_q = <<>>
    /\ up = <<>>
    /\ gnb = "running"

-----------------------------------------------------------------------------
(* run_one_ue.                                                             *)

InitialUeMessage(u) == [type |-> "InitialUeMessage", ran |-> u]
Uplink(u, id, pdu) == [type |-> "UplinkNasTransport", ran |-> u, id |-> id, pdu |-> pdu]
IcsResponse(u, id) == [type |-> "InitialContextSetupResponse", ran |-> u, id |-> id,
                       dl |-> DlTeidBase + u]
ReleaseComplete(ran, id) == [type |-> "UeContextReleaseComplete", ran |-> ran, id |-> id]

\* The UE assumes the first vector of a fresh subscriber.
UeVector(u) == [imsi |-> u, sqn |-> 0]

Send(msgs) == out_q' = out_q \o msgs

UeStart(u) ==
    /\ ue[u].pc = "start"
    /\ Goto(u, [ue[u] EXCEPT !.pc = "control"])
    /\ Send(<<InitialUeMessage(u)>>)
    /\ UNCHANGED <<loopVars, pathVars, ngap_rx, up, gnb>>

\* A plain NAS message: each of the three is answered, whenever it comes, and
\* any other is an error.
AnswerPlain(u, me, pdu) ==
    \/ /\ pdu = "IdentityRequest"
       /\ Goto(u, me)
       /\ Send(<<Uplink(u, me.id, [type |-> "IdentityResponse",
                                   suci |-> [scheme |-> 0, msin |-> u]])>>)
    \/ /\ pdu = "AuthenticationRequest"
       /\ Goto(u, [me EXCEPT !.key = UeVector(u)])
       /\ Send(<<Uplink(u, me.id, [type |-> "AuthenticationResponse",
                                   res |-> UeVector(u)])>>)
    \/ /\ pdu = "SecurityModeCommand"
       /\ Goto(u, me)
       /\ Send(<<Uplink(u, me.id, [type |-> "SecurityModeComplete"])>>)
    \/ /\ pdu \notin {"IdentityRequest", "AuthenticationRequest", "SecurityModeCommand"}
       /\ Goto(u, [me EXCEPT !.pc = "error"])
       /\ UNCHANGED out_q

\* decode_protected_downlink with a context made afresh from KAMF: COUNT
\* starts at 0, so any COUNT the AMF used is taken.
Unprotected(me, nas, pdu) == me.key # None /\ nas.key = me.key /\ nas.pdu = pdu

UeReceive(u) ==
    LET msg == Head(ngap_rx[u])
        me  == [ue[u] EXCEPT !.id = IF @ = None THEN msg.id ELSE @]
    IN
    /\ ue[u].pc = "control"
    /\ ngap_rx[u] # <<>>
    /\ ngap_rx' = [ngap_rx EXCEPT ![u] = Tail(@)]
    /\ \/ /\ msg.type = "DownlinkNasTransport"
          /\ msg.nas.key = None
          /\ AnswerPlain(u, me, msg.nas.pdu)
       \/ /\ msg.type = "DownlinkNasTransport"
          /\ msg.nas.key # None
          /\ Goto(u, IF Unprotected(me, msg.nas, "DeregistrationAccept")
                     THEN me ELSE [me EXCEPT !.pc = "error"])
          /\ UNCHANGED out_q
       \/ /\ msg.type = "InitialContextSetupRequest"
          /\ Unprotected(me, msg.nas, "RegistrationAccept")
          /\ Goto(u, [me EXCEPT !.pc = "round_trip", !.ul_teid = msg.ul_teid])
          /\ Send(<<IcsResponse(u, me.id),
                    Uplink(u, me.id, [type |-> "RegistrationComplete"])>>)
       \/ /\ msg.type = "InitialContextSetupRequest"
          /\ ~Unprotected(me, msg.nas, "RegistrationAccept")
          /\ Goto(u, [me EXCEPT !.pc = "error"])
          /\ UNCHANGED out_q
       \/ /\ msg.type = "UeContextReleaseCommand"
          /\ Goto(u, [ue[u] EXCEPT !.pc = "ok"])
          /\ Send(<<ReleaseComplete(msg.ran, msg.id)>>)
       \/ /\ msg.type \notin {"DownlinkNasTransport", "InitialContextSetupRequest",
                              "UeContextReleaseCommand"}
          /\ Goto(u, [ue[u] EXCEPT !.pc = "error"])
          /\ UNCHANGED out_q
    /\ UNCHANGED <<loopVars, pathVars, up, gnb>>

\* user_plane_round_trip.
RoundTripStep(u) ==
    /\ RoundTripSend(u) \/ RoundTripTimeout(u)
    /\ UNCHANGED <<loopVars, chanVars>>

\* gtp_demux_task hands a G-PDU to the UE with that DL TEID; the first one
\* ends the round trip and the UE deregisters.
EchoReceived(u, p) ==
    /\ p.to.dl_teid = DlTeidBase + u
    /\ RoundTripDone(u, p)
    /\ Send(<<Uplink(u, ue[u].id, [type |-> "DeregistrationRequest",
                                   switch_off |-> FALSE])>>)
    /\ UNCHANGED <<loopVars, ngap_rx, up, gnb>>

-----------------------------------------------------------------------------
(* run_gnb: the dispatcher's send half, and the end.                       *)

Dispatch ==
    /\ gnb = "running"
    /\ out_q # <<>>
    /\ up' = Append(up, Head(out_q))
    /\ out_q' = Tail(out_q)
    /\ UNCHANGED <<loopVars, pathVars, ue, ngap_rx, gnb>>

\* All UE tasks are joined, then the dispatcher is aborted and the link with it.
Join ==
    /\ gnb = "running"
    /\ \A u \in Ue : ue[u].pc \in Final
    /\ gnb' = "returned"
    /\ UNCHANGED <<loopVars, pathVars, ue, ngap_rx, out_q, up>>

\* Nobody retransmits for a link that was dropped: when a datagram is lost the
\* AMF gets a prefix of what was under way, and run_both aborts the AMF 200 ms
\* later, wherever it is.
UnderWayLost ==
    /\ gnb = "returned"
    /\ \E n \in 0 .. Len(up) : up' = SubSeq(up, 1, n)
    /\ gnb' = "gone"
    /\ UNCHANGED <<loopVars, pathVars, ue, ngap_rx, out_q>>

-----------------------------------------------------------------------------
(* run_amf.                                                                *)

process_ngap(msg) ==
    \/ /\ msg.type = "InitialUeMessage"
       /\ start_registration(FALSE, msg.ran)
    \/ /\ msg.type = "UplinkNasTransport"
       /\ handle_uplink_nas(msg.id, msg.ran, NasPlain, msg.pdu)
    \/ /\ msg.type = "InitialContextSetupResponse"
       /\ handle_ics_response(msg.id, msg.dl)
    \/ /\ msg.type = "UeContextReleaseComplete"
       /\ handle_release_complete(msg.id)

AmfReceive ==
    /\ up # <<>>
    /\ Receive(process_ngap(Head(up)))
    /\ up' = Tail(up)
    /\ UNCHANGED <<pathVars, ue, ngap_rx, out_q, gnb>>

AmfSend ==
    /\ SendResponse
    /\ ngap_rx' = [ngap_rx EXCEPT ![Head(responses).ran] =
                       Append(@, Head(responses))]
    /\ UNCHANGED <<pathVars, ue, out_q, up, gnb>>

AmfApply == (ApplyEvent \/ ServeCall) /\ UNCHANGED <<pathVars, ue, chanVars>>

AmfLoop == AmfReceive \/ AmfApply \/ AmfSend

-----------------------------------------------------------------------------
UeTask(u) ==
    \/ UeStart(u)
    \/ UeReceive(u)
    \/ RoundTripStep(u)
    \/ \E p \in gtp_dl : EchoReceived(u, p)

\* Nothing is left to do.
Done == gnb # "running" /\ up = <<>> /\ Drained /\ UNCHANGED simVars

SimNext ==
    \/ \E u \in Ue : UeTask(u)
    \/ Dispatch
    \/ Join
    \/ UnderWayLost
    \/ AmfLoop
    \/ UserPlane /\ UNCHANGED <<loopVars, chanVars>>
    \/ Done

\* Every task of the runtime that can run does run eventually; the AMF's only
\* as long as it is not aborted.  Of the user plane's network nothing is
\* assumed, and nothing has to be lost.
SimFairness ==
    /\ \A u \in Ue : WF_simVars(UeTask(u))
    /\ WF_simVars(Dispatch)
    /\ WF_simVars(Join)
    /\ WF_simVars(gnb # "gone" /\ AmfLoop)

SimSpec == SimInit /\ [][SimNext]_simVars /\ SimFairness

-----------------------------------------------------------------------------
(* Properties.                                                             *)

\* The run comes to its end: every UE task finishes and run_gnb returns, even
\* when every datagram is lost.
RunEnds == <>(gnb # "running")

\* Offline is offline: once a UE's UeContextReleaseComplete has been handed to
\* the link, the subscriber's entity and its user-plane session are eventually
\* gone, unless run_gnb returns and what was under way is lost with its link.
OfflineIsReleased ==
    \A u \in Ue :
        (ue[u].pc = "ok" /\ ReleaseComplete(u, ue[u].id) \in Range(up))
        ~> \/ gnb = "gone"
           \/ /\ \A e \in LiveIds : ent[e].imsi # u
              /\ ue[u].ul_teid \in Live =>
                    ent[sessions[ue[u].ul_teid].entity].imsi \in Imsi \ {u}

\* "`run_gnb` returning Ok only means every logical UE's last sends completed
\* locally" (midn-sim main.rs): then nothing is left in the channel.
SendsCompleted ==
    (gnb # "running" /\ \A u \in Ue : ue[u].pc = "ok") => out_q = <<>>
=============================================================================
