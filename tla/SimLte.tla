------------------------------- MODULE SimLte -------------------------------
(***************************************************************************)
(* mme-sim: one UE behind an eNodeB attaches to the MME, sends a packet    *)
(* through the UPF, which echoes it, and detaches.                         *)
(*                                                                         *)
(* The actors are run_ue, which plays UE and eNodeB in one task and owns   *)
(* its end of the SCTP link, run_mme (module CoreLoop around module Mme),  *)
(* and the forwarder tasks.  The link is reliable and ordered until it     *)
(* fails: then what was in flight may or may not have been delivered.  A   *)
(* side may learn of it from recv or from a send, or never: a peer that is *)
(* gone sends nothing, and neither side puts a timeout on recv.  A run_ue  *)
(* that has returned has dropped its end, so the link may fail then, too.  *)
(***************************************************************************)
EXTENDS Mme, RoundTrip

CONSTANTS
    TestUe,       \* the one UE: TEST_IMSI, ENB_UE_S1AP_ID
    MockDlTeid    \* MOCK_DL_TEID

ASSUME LteAssumption ==
    /\ Ue = {TestUe}
    /\ Imsi = {TestUe}
    /\ RanId = {TestUe}
    /\ DlTeid = {MockDlTeid}
    /\ 0 \in UeIp
    /\ WithUpf

VARIABLES
    down,    \* messages on the link, MME to UE
    up,      \* messages on the link, UE to MME
    link,    \* "up", or "cut" once the association has failed
    mme      \* "running", or "returned"

linkVars == <<down, up, link, mme>>
lteVars == <<loopVars, pathVars, ue, linkVars>>

Final == {"ok", "lost", "link_lost", "error"}

LteInit ==
    /\ LoopInit
    /\ PathInit
    /\ sqn = [i \in Imsi |-> 0]
    /\ down = <<>>
    /\ up = <<>>
    /\ link = "up"
    /\ mme = "running"

-----------------------------------------------------------------------------
(* run_ue.                                                                 *)

me == ue[TestUe]
Become(new) == Goto(TestUe, new)

\* Into the link, as long as there is one.
Send(msgs) == up' = IF link = "up" THEN up \o msgs ELSE up

send_initial == Send(<<[type |-> "InitialUeMessage", ran |-> TestUe]>>)

Uplink(id, pdu) == [type |-> "UplinkNasTransport", ran |-> TestUe, id |-> id, pdu |-> pdu]

IcsResponse(id) == [type |-> "InitialContextSetupResponse", id |-> id, dl |-> MockDlTeid]
ReleaseComplete(id) == [type |-> "UeContextReleaseComplete", id |-> id]

\* The UE assumes the first vector of a fresh subscriber.
UeVector == [imsi |-> TestUe, sqn |-> 0]

\* Connected has been received.
UeStart ==
    /\ me.pc = "start"
    /\ Become([me EXCEPT !.pc = "control"])
    /\ send_initial
    /\ UNCHANGED <<loopVars, pathVars, down, link, mme>>

AnswerPlain(now, pdu) ==
    \/ /\ pdu = "AuthenticationRequest"
       /\ Become([now EXCEPT !.key = UeVector])
       /\ Send(<<Uplink(now.id, [type |-> "AuthenticationResponse", res |-> UeVector])>>)
    \/ /\ pdu = "SecurityModeCommand"
       /\ Become(now)
       /\ Send(<<Uplink(now.id, [type |-> "SecurityModeComplete"])>>)
    \/ /\ pdu \notin {"AuthenticationRequest", "SecurityModeCommand"}
       /\ Become([now EXCEPT !.pc = "error"])
       /\ UNCHANGED up

\* decode_protected_downlink with a context made afresh from Kasme: COUNT
\* starts at 0, so any COUNT the MME used is taken.
Unprotected(now, nas, pdu) == now.key # None /\ nas.key = now.key /\ nas.pdu = pdu

UeReceive ==
    LET msg == Head(down)
        now == [me EXCEPT !.id = IF @ = None THEN msg.id ELSE @]
    IN
    /\ me.pc = "control"
    /\ down # <<>>
    /\ down' = Tail(down)
    /\ \/ /\ msg.type = "DownlinkNasTransport"
          /\ msg.nas.key = None
          /\ AnswerPlain(now, msg.nas.pdu)
       \/ /\ msg.type = "DownlinkNasTransport"
          /\ msg.nas.key # None
          /\ Become(IF Unprotected(now, msg.nas, "DetachAccept")
                    THEN now ELSE [now EXCEPT !.pc = "error"])
          /\ UNCHANGED up
       \/ /\ msg.type = "InitialContextSetupRequest"
          /\ Unprotected(now, msg.nas, "AttachAccept")
          /\ Become([now EXCEPT !.pc = "round_trip", !.ul_teid = msg.ul_teid])
          /\ Send(<<IcsResponse(now.id), Uplink(now.id, [type |-> "AttachComplete"])>>)
       \/ /\ msg.type = "InitialContextSetupRequest"
          /\ ~Unprotected(now, msg.nas, "AttachAccept")
          /\ Become([now EXCEPT !.pc = "error"])
          /\ UNCHANGED up
       \/ /\ msg.type = "UeContextReleaseCommand"
          /\ Become([me EXCEPT !.pc = "ok"])
          /\ Send(<<ReleaseComplete(msg.id)>>)
       \/ /\ msg.type \notin {"DownlinkNasTransport", "InitialContextSetupRequest",
                               "UeContextReleaseCommand"}
          /\ Become([me EXCEPT !.pc = "error"])
          /\ UNCHANGED up
    /\ UNCHANGED <<loopVars, pathVars, link, mme>>

\* The link is not looked at during the round trip.
user_plane_round_trip ==
    /\ RoundTripSend(TestUe) \/ RoundTripTimeout(TestUe)
    /\ UNCHANGED <<loopVars, linkVars>>

\* The socket takes any G-PDU; the DL TEID is only logged.
EchoReceived(p) ==
    /\ RoundTripDone(TestUe, p)
    /\ Send(<<Uplink(me.id, [type |-> "DetachRequest", switch_off |-> FALSE])>>)
    /\ UNCHANGED <<loopVars, down, link, mme>>

\* recv yields Lost, or a send fails.  Nothing makes this happen: the driver
\* tells its task what rtc_sctp and the socket tell it.
UeLinkLost ==
    /\ link = "cut"
    /\ me.pc \in {"start", "control"}
    /\ Become([me EXCEPT !.pc = "link_lost"])
    /\ UNCHANGED <<loopVars, pathVars, linkVars>>

UeRuns ==
    \/ UeStart
    \/ UeReceive
    \/ user_plane_round_trip
    \/ \E p \in gtp_dl : EchoReceived(p)

UeTask == UeRuns \/ UeLinkLost

-----------------------------------------------------------------------------
(* run_mme.                                                                *)

process_s1ap(msg) ==
    \/ /\ msg.type = "InitialUeMessage"
       /\ start_attach(TestUe, msg.ran)
    \/ /\ msg.type = "UplinkNasTransport"
       /\ handle_uplink_nas(msg.id, msg.ran, NasPlain, msg.pdu)
    \/ /\ msg.type = "InitialContextSetupResponse"
       /\ handle_icsrsp(msg.id, msg.dl)
    \/ /\ msg.type = "UeContextReleaseComplete"
       /\ handle_release_complete(msg.id)

MmeReceive ==
    /\ up # <<>>
    /\ Receive(process_s1ap(Head(up)))
    /\ up' = Tail(up)
    /\ UNCHANGED <<pathVars, ue, down, link, mme>>

MmeApply == (ApplyEvent \/ ServeCall) /\ UNCHANGED <<pathVars, ue, linkVars>>

MmeSend ==
    /\ SendResponse
    /\ down' = IF link = "up" THEN Append(down, Head(responses)) ELSE down
    /\ UNCHANGED <<pathVars, ue, up, link, mme>>

\* recv yields Lost after what was delivered, or a send fails; the events of
\* the iteration have been applied by then.
MmeLinkLost ==
    /\ link = "cut"
    /\ events = <<>>
    /\ call = Idle
    /\ up = <<>> \/ responses # <<>>
    /\ mme' = "returned"
    /\ UNCHANGED <<loopVars, pathVars, ue, down, up, link>>

MmeRuns ==
    /\ mme = "running"
    /\ MmeReceive \/ MmeApply \/ MmeSend

MmeLoop == MmeRuns \/ (mme = "running" /\ MmeLinkLost)

-----------------------------------------------------------------------------
\* The association fails: a part of what is in flight is delivered.
LinkFails ==
    /\ link = "up"
    /\ link' = "cut"
    /\ \E i \in 0 .. Len(up), j \in 0 .. Len(down) :
          /\ up' = SubSeq(up, 1, i)
          /\ down' = SubSeq(down, 1, j)
    /\ UNCHANGED <<loopVars, pathVars, ue, mme>>

\* Nothing is left to do.
Done ==
    /\ me.pc \in Final
    /\ mme = "returned" \/ (up = <<>> /\ Drained)
    /\ UNCHANGED lteVars

LteNext ==
    \/ UeTask
    \/ MmeLoop
    \/ UserPlane /\ UNCHANGED <<loopVars, linkVars>>
    \/ LinkFails
    \/ Done

\* Both tasks run when they can.  An association that has not failed delivers;
\* that it does not fail, or that a side is told when it has, is not assumed.
LteFairness == WF_lteVars(UeRuns) /\ WF_lteVars(MmeRuns)

LteSpec == LteInit /\ [][LteNext]_lteVars /\ LteFairness

-----------------------------------------------------------------------------
(* Properties.                                                             *)

\* run_ue returns, although every user-plane datagram may be lost: it never
\* stays in the round trip, and over the association it has an answer for
\* everything it sends.  The one place it may be left in for ever is its recv,
\* which has no timeout, behind an association that failed without telling it.
UeReturnsUnlessCut ==
    <>[](\/ me.pc \in Final
         \/ link = "cut" /\ me.pc = "control" /\ down = <<>>)

\* A detach that run_ue reports as complete leaves nothing behind: entity,
\* index entry, TEID and user-plane session all go, unless the link failed
\* first ("detach complete - subscriber is offline").
DetachLeavesNothing ==
    me.pc = "ok" ~> \/ link = "cut"
                    \/ /\ LiveIds = {}
                       /\ registry = [i \in Imsi |-> None]
                       /\ Allocated = {}
                       /\ Live = {}
=============================================================================
