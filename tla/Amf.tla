-------------------------------- MODULE Amf --------------------------------
(***************************************************************************)
(* midn_core::amf: the 5G access and mobility management function,         *)
(* process_ngap and the registration and deregistration handlers.          *)
(*                                                                         *)
(* It differs from the MME in how a procedure starts: RegistrationRequest  *)
(* names nobody, so an entity without IMSI is spawned first and the        *)
(* IdentityResponse binds it to a subscriber.  As in module Mme one call   *)
(* is one step and any NGAP message may arrive at any time.                *)
(***************************************************************************)
EXTENDS ControlPlane

CONSTANT UeIpSpace   \* number of UE addresses under 10.45.0.0/16: 2^16

ASSUME AmfAssumption == UeIpSpace \in Nat \ {0}

\* The UE address [10, 45, id >> 8, id]; 0 is kept for 0.0.0.0.
ue_ip(e) == 1 + (e % UeIpSpace)

-----------------------------------------------------------------------------
(* InitialUeMessage.  A request with a GUTI is dropped; otherwise the new  *)
(* entity gets an identity with IMSI 0 and an AKA context with only the    *)
(* PLMN in it.  The auth state is not written.                             *)

start_registration(guti, ran) ==
    \/ /\ guti
       /\ Drop
    \/ /\ ~guti
       /\ spawn([ent[SpawnId] EXCEPT !.imsi = NoImsi, !.xres = None, !.ck = None])
       /\ Returns(<<DownlinkNasTransport(SpawnId, ran, Plain("IdentityRequest"))>>,
                  <<>>)
       /\ UNCHANGED <<registry, sqn, teid_next, teid_free>>

\* A SUCI under a protection scheme other than 0 is not resolved.
Suci == [scheme : {0, 1}, msin : Imsi]
resolve_suci_to_imsi(suci) == IF suci.scheme = 0 THEN suci.msin ELSE None

\* The SQN of a known subscriber is consumed before the entity is looked at;
\* the entity is bound to the IMSI whatever it was bound to before.
handle_identity_response(e, ran, s, suci) ==
    LET imsi == IF suci = None THEN None ELSE resolve_suci_to_imsi(suci) IN
    \/ /\ ~has_subscriber(imsi)
       /\ Ignore(e, s)
    \/ /\ has_subscriber(imsi)
       /\ ~is_live(e)
       /\ generate_auth_vector(imsi)
       /\ Returns(<<>>, <<>>)
       /\ UNCHANGED <<next_id, free_ids, live_count, ent, registry,
                      teid_next, teid_free>>
    \/ /\ has_subscriber(imsi)
       /\ is_live(e)
       /\ generate_auth_vector(imsi)
       /\ register(imsi, e)
       /\ set_slot(e, [s EXCEPT !.imsi = imsi,
                                !.xres = NextVector(imsi),
                                !.ck   = NextVector(imsi),
                                !.auth = "ChallengeIssued"])
       /\ Returns(<<DownlinkNasTransport(e, ran, Plain("AuthenticationRequest"))>>,
                  <<>>)
       /\ UNCHANGED <<teid_next, teid_free>>

handle_auth_response(e, ran, s, res) == VerifyRes(e, ran, s, res)

handle_security_mode_complete(e, ran, s) ==
    ActivateNas(e, ran, s, "RegistrationAccept", ue_ip(e))

handle_registration_complete(e, s) == Ignore(e, s)

handle_deregistration_request(e, ran, s, switch_off) ==
    Detach(e, ran, s, "DeregistrationAccept", switch_off)

handle_uplink_nas(e, ran, sec, pdu) ==
    LET s == Unwrapped(e, sec) IN
    \/ /\ ~Accepted(e, sec)
       /\ Drop
    \/ /\ Accepted(e, sec)
       /\ \/ /\ pdu.type = "IdentityResponse"
             /\ handle_identity_response(e, ran, s, pdu.suci)
          \/ /\ pdu.type = "AuthenticationResponse"
             /\ handle_auth_response(e, ran, s, pdu.res)
          \/ /\ pdu.type = "SecurityModeComplete"
             /\ handle_security_mode_complete(e, ran, s)
          \/ /\ pdu.type = "RegistrationComplete"
             /\ handle_registration_complete(e, s)
          \/ /\ pdu.type = "DeregistrationRequest"
             /\ handle_deregistration_request(e, ran, s, pdu.switch_off)
          \/ /\ pdu.type = "other"
             /\ Ignore(e, s)

handle_ics_response(e, dl) == BearerSetUp(e, dl)

handle_release_complete(e) == Teardown(e)

-----------------------------------------------------------------------------
(* Inputs.                                                                 *)

UplinkPdu ==
    [type : {"IdentityResponse"}, suci : Suci \cup {None}]
        \cup [type : {"AuthenticationResponse"}, res : Responses]
        \cup [type : {"SecurityModeComplete", "RegistrationComplete", "other"}]
        \cup [type : {"DeregistrationRequest"}, switch_off : BOOLEAN]

Init == CpInit

Next ==
    \/ \E guti \in BOOLEAN, ran \in RanId : start_registration(guti, ran)
    \/ \E e \in EntityId, ran \in RanId, sec \in Security, pdu \in UplinkPdu :
          handle_uplink_nas(e, ran, sec, pdu)
    \/ \E e \in EntityId, dl \in DlTeid \cup {None} : handle_ics_response(e, dl)
    \/ \E e \in EntityId : handle_release_complete(e)

Spec == Init /\ [][Next]_cpVars

-----------------------------------------------------------------------------
(* Properties.                                                             *)

TypeOK == CpTypeOK
=============================================================================
