-------------------------------- MODULE Mme --------------------------------
(***************************************************************************)
(* midn_core::mme: the LTE mobility management entity, process_s1ap and    *)
(* the attach and detach handlers behind it.                               *)
(*                                                                         *)
(* process_s1ap takes &mut self and awaits nothing, so one call is one     *)
(* step.  The environment is open: any S1AP message for any entity id may  *)
(* arrive at any time, so messages can be early, late, repeated, or meant  *)
(* for an entity whose id has since been recycled.                         *)
(***************************************************************************)
EXTENDS ControlPlane

-----------------------------------------------------------------------------
(* InitialUeMessage with an AttachRequest.  Without an IMSI (GUTI attach)  *)
(* or for an unknown subscriber it is dropped; otherwise a new entity is   *)
(* spawned, also when the IMSI already has one.                            *)

start_attach(imsi, ran) ==
    \/ /\ ~has_subscriber(imsi)
       /\ Drop
    \/ /\ has_subscriber(imsi)
       /\ generate_auth_vector(imsi)
       /\ spawn([ent[SpawnId] EXCEPT !.imsi = imsi,
                                     !.xres = NextVector(imsi),
                                     !.ck   = NextVector(imsi),
                                     !.auth = "ChallengeIssued"])
       /\ register(imsi, SpawnId)
       /\ Returns(<<DownlinkNasTransport(SpawnId, ran,
                                         Plain("AuthenticationRequest"))>>, <<>>)
       /\ UNCHANGED <<teid_next, teid_free>>

handle_auth_response(e, ran, s, res) == VerifyRes(e, ran, s, res)

handle_security_mode_complete(e, ran, s) ==
    ActivateNas(e, ran, s, "AttachAccept", 0)

handle_attach_complete(e, s) == Ignore(e, s)

handle_detach_request(e, ran, s, switch_off) ==
    Detach(e, ran, s, "DetachAccept", switch_off)

\* UplinkNasTransport: unwrap, then dispatch on the NAS message.
handle_uplink_nas(e, ran, sec, pdu) ==
    LET s == Unwrapped(e, sec) IN
    \/ /\ ~Accepted(e, sec)
       /\ Drop
    \/ /\ Accepted(e, sec)
       /\ \/ /\ pdu.type = "AuthenticationResponse"
             /\ handle_auth_response(e, ran, s, pdu.res)
          \/ /\ pdu.type = "SecurityModeComplete"
             /\ handle_security_mode_complete(e, ran, s)
          \/ /\ pdu.type = "AttachComplete"
             /\ handle_attach_complete(e, s)
          \/ /\ pdu.type = "DetachRequest"
             /\ handle_detach_request(e, ran, s, pdu.switch_off)
          \/ /\ pdu.type = "other"
             /\ Ignore(e, s)

handle_icsrsp(e, dl) == BearerSetUp(e, dl)

handle_release_complete(e) == Teardown(e)

-----------------------------------------------------------------------------
(* Inputs.                                                                 *)

UplinkPdu ==
    [type : {"AuthenticationResponse"}, res : Responses]
        \cup [type : {"SecurityModeComplete", "AttachComplete", "other"}]
        \cup [type : {"DetachRequest"}, switch_off : BOOLEAN]

Init == CpInit

Next ==
    \/ \E imsi \in Imsi \cup {NoImsi}, ran \in RanId : start_attach(imsi, ran)
    \/ \E e \in EntityId, ran \in RanId, sec \in Security, pdu \in UplinkPdu :
          handle_uplink_nas(e, ran, sec, pdu)
    \/ \E e \in EntityId, dl \in DlTeid \cup {None} : handle_icsrsp(e, dl)
    \/ \E e \in EntityId : handle_release_complete(e)

Spec == Init /\ [][Next]_cpVars

-----------------------------------------------------------------------------
(* Properties.                                                             *)

TypeOK == CpTypeOK

\* "A detached subscriber's TEID becomes available for the next attach"
\* (mme/state_machine.rs): when all subscribers have gone, all TEIDs are free.
DetachedTeidsReturn == LiveIds = {} => Allocated = {}
=============================================================================
