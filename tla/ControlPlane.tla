---------------------------- MODULE ControlPlane ----------------------------
(***************************************************************************)
(* What midn_core::mme and midn_core::amf have in common: the state of the *)
(* `Mme' / `Amf' struct and the handlers that the two modules spell out    *)
(* identically for S1AP/NAS-EPS and for NGAP/NAS-5GS.  Modules Mme and Amf *)
(* add the procedure starts and dispatch to these.                         *)
(*                                                                         *)
(* A handler takes the entity the message names, the RAN id it came with   *)
(* and the parts of the PDU it reads, and returns (Vec<message>,           *)
(* Vec<event>): variables `responses' and `events' hold what the last call *)
(* returned.  A message that does not decode is dropped without effect.    *)
(***************************************************************************)
EXTENDS World, ImsiRegistry, TeidAllocator, Hss

CONSTANTS
    RanId,      \* enb_ue_s1ap_id / ran_ue_ngap_id values
    DlTeid,     \* downlink TEIDs chosen by the RAN node
    WithUpf,    \* TRUE: with_phase3() / with_phase_b(); FALSE: NAS only
    MaxCount    \* bound on the NAS COUNTs

ASSUME ControlPlaneAssumption ==
    /\ DlTeid \subseteq Nat \ {0}
    /\ WithUpf \in BOOLEAN
    /\ MaxCount \in Nat

VARIABLES responses, events

coreVars == <<next_id, free_ids, live_count, ent, registry, sqn,
              teid_next, teid_free>>
cpVars == <<next_id, free_ids, live_count, ent, registry, sqn,
            teid_next, teid_free, responses, events>>

CpInit ==
    /\ WorldInit
    /\ RegistryInit
    /\ HssInit
    /\ TeidInit
    /\ responses = <<>>
    /\ events = <<>>

-----------------------------------------------------------------------------
(* Messages to the RAN node and events for the UPF.                        *)

\* A plain NAS PDU, and one under the NAS security context (key and COUNT).
Plain(pdu) == [pdu |-> pdu, key |-> None, count |-> 0]
Protected(pdu, nas) == [pdu |-> pdu, key |-> nas.key, count |-> nas.dl_count]

DownlinkNasTransport(e, ran, nas) ==
    [type |-> "DownlinkNasTransport", id |-> e, ran |-> ran, nas |-> nas]
InitialContextSetupRequest(e, ran, teid, nas) ==
    [type |-> "InitialContextSetupRequest", id |-> e, ran |-> ran,
     ul_teid |-> teid, nas |-> nas]
UeContextReleaseCommand(e, ran) ==
    [type |-> "UeContextReleaseCommand", id |-> e, ran |-> ran]

CreateSession(teid, e, imsi, ip) ==
    [type |-> "CreateSession", ul_teid |-> teid, entity |-> e, imsi |-> imsi,
     ue_ip |-> ip]
UpdateBearer(teid, dl) ==
    [type |-> "UpdateBearer", ul_teid |-> teid, dl_teid |-> dl]
RemoveSession(teid) == [type |-> "RemoveSession", ul_teid |-> teid]

Returns(r, e) == responses' = r /\ events' = e

\* The early returns: nothing sent, nothing changed.
Drop == Returns(<<>>, <<>>) /\ UNCHANGED coreVars

-----------------------------------------------------------------------------
(* Uplink NAS protection.  A protected PDU names the key and the COUNT it  *)
(* was protected with; only the low byte of COUNT travels, and below 256   *)
(* reconstruct_count returns the sender's COUNT exactly when it is not     *)
(* behind ul_count, otherwise the MAC check fails.                         *)

NasPlain == [sht |-> "plain"]
NasProtected(key, count) == [sht |-> "protected", key |-> key, count |-> count]

decode_protected(nas, sec) ==
    /\ nas # None
    /\ sec.key = nas.key
    /\ sec.count >= nas.ul_count

\* The PDU reaches a handler: plain, or unprotected with the stored context.
Accepted(e, sec) ==
    \/ sec.sht = "plain"
    \/ sec.sht = "protected" /\ is_live(e) /\ decode_protected(ent[e].nas, sec)

\* The slot as the handler finds it: a protected PDU has advanced ul_count.
Unwrapped(e, sec) ==
    IF sec.sht = "plain" THEN ent[e]
    ELSE [ent[e] EXCEPT !.nas.ul_count = sec.count + 1]

-----------------------------------------------------------------------------
(* Handlers.  `s' is the slot of e after decode_protected.                 *)

\* RES against XRES.  The challenge is wiped on both outcomes, so a second
\* response for the same challenge compares against zeroes.
VerifyRes(e, ran, s, res) ==
    \/ /\ ~is_live(e)
       /\ Drop
    \/ /\ is_live(e)
       /\ s.xres = res
       /\ set_slot(e, [s EXCEPT !.xres = None, !.auth = "Authenticated"])
       /\ Returns(<<DownlinkNasTransport(e, ran, Plain("SecurityModeCommand"))>>, <<>>)
       /\ UNCHANGED <<registry, sqn, teid_next, teid_free>>
    \/ /\ is_live(e)
       /\ s.xres # res
       /\ set_slot(e, [s EXCEPT !.xres = None, !.auth = "Failed"])
       /\ Returns(<<>>, <<>>)
       /\ UNCHANGED <<registry, sqn, teid_next, teid_free>>

\* Mutants of ActivateNas: CK survives the derivation; CK is wiped before it.
ActivateKeepingCk(e, ran, s, accept, ip) ==
    LET nas == [key |-> s.ck, ul_count |-> 0, dl_count |-> 0] IN
    /\ is_live(e)
    /\ IF WithUpf THEN alloc ELSE UNCHANGED <<teid_next, teid_free>>
    /\ set_slot(e, [s EXCEPT !.nas = [nas EXCEPT !.dl_count = 1]])
    /\ Returns(<<>>, <<>>)
    /\ UNCHANGED <<registry, sqn>>

ActivateWiped(e, ran, s, accept, ip) ==
    LET nas == [key |-> None, ul_count |-> 0, dl_count |-> 0] IN
    /\ is_live(e)
    /\ WithUpf
    /\ alloc
    /\ set_slot(e, [s EXCEPT !.ck = None, !.nas = [nas EXCEPT !.dl_count = 1],
                             !.tunnel = [ul_teid |-> AllocTeid, dl_teid |-> 0]])
    /\ Returns(<<InitialContextSetupRequest(e, ran, AllocTeid, Protected(accept, nas))>>,
               <<CreateSession(AllocTeid, e, s.imsi, ip)>>)
    /\ UNCHANGED <<registry, sqn>>

\* SecurityModeComplete: the NAS keys descend from CK/IK/AK, which are wiped
\* here; the Accept is the first protected message (COUNT 0).  With a UPF a
\* TEID is allocated and replaces the tunnel, whatever was there before.  `ip'
\* is the UE address announced to the UPF.
ActivateNas(e, ran, s, accept, ip) ==
    LET nas == [key |-> s.ck, ul_count |-> 0, dl_count |-> 0]
        secured == [s EXCEPT !.ck = None, !.nas = [nas EXCEPT !.dl_count = 1]]
    IN
    \/ /\ ~is_live(e)
       /\ Drop
    \/ /\ is_live(e)
       /\ WithUpf
       /\ alloc
       /\ set_slot(e, [secured EXCEPT !.tunnel =
                          [ul_teid |-> AllocTeid, dl_teid |-> 0]])
       /\ Returns(<<InitialContextSetupRequest(e, ran, AllocTeid,
                                               Protected(accept, nas))>>,
                  <<CreateSession(AllocTeid, e, s.imsi, ip)>>)
       /\ UNCHANGED <<registry, sqn>>
    \/ /\ is_live(e)
       /\ ~WithUpf
       /\ set_slot(e, secured)
       /\ Returns(<<DownlinkNasTransport(e, ran, Protected(accept, nas))>>, <<>>)
       /\ UNCHANGED <<registry, sqn, teid_next, teid_free>>

\* AttachComplete, RegistrationComplete, and any PDU no handler knows: at
\* most the COUNT of a protected PDU was consumed.
Ignore(e, s) ==
    /\ ent' = [ent EXCEPT ![e] = s]
    /\ Returns(<<>>, <<>>)
    /\ UNCHANGED <<next_id, free_ids, live_count, registry, sqn,
                   teid_next, teid_free>>

\* DetachRequest / DeregistrationRequest: an Accept unless the UE switches
\* off, protected once there is a NAS context, then the release command.
\* The entity stays until the RAN node confirms.
Detach(e, ran, s, accept, switch_off) ==
    LET release_cmd == UeContextReleaseCommand(e, ran) IN
    \/ /\ ~is_live(e)
       /\ Drop
    \/ /\ is_live(e)
       /\ switch_off
       /\ set_slot(e, s)
       /\ Returns(<<release_cmd>>, <<>>)
       /\ UNCHANGED <<registry, sqn, teid_next, teid_free>>
    \/ /\ is_live(e)
       /\ ~switch_off
       /\ s.nas # None
       /\ s.nas.dl_count < MaxCount
       /\ set_slot(e, [s EXCEPT !.nas.dl_count = @ + 1])
       /\ Returns(<<DownlinkNasTransport(e, ran, Protected(accept, s.nas)),
                    release_cmd>>, <<>>)
       /\ UNCHANGED <<registry, sqn, teid_next, teid_free>>
    \/ /\ is_live(e)
       /\ ~switch_off
       /\ s.nas = None
       /\ set_slot(e, s)
       /\ Returns(<<DownlinkNasTransport(e, ran, Plain(accept)), release_cmd>>,
                  <<>>)
       /\ UNCHANGED <<registry, sqn, teid_next, teid_free>>

\* InitialContextSetupResponse: the first bearer's DL TEID completes the
\* tunnel.  `dl' is None when the response lists no bearer.
BearerSetUp(e, dl) ==
    \/ /\ dl = None \/ tunnel(e) = None
       /\ Drop
    \/ /\ dl # None
       /\ tunnel(e) # None
       /\ set_slot(e, [ent[e] EXCEPT !.tunnel.dl_teid = dl])
       /\ Returns(<<>>, <<UpdateBearer(tunnel(e).ul_teid, dl)>>)
       /\ UNCHANGED <<registry, sqn, teid_next, teid_free>>

\* Mutant of Teardown: the UPF is not told.
TeardownSilently(e) ==
    /\ IF is_live(e) THEN deregister(ent[e].imsi) ELSE UNCHANGED registry
    /\ despawn(e)
    /\ UNCHANGED sqn
    /\ IF tunnel(e) = None THEN UNCHANGED <<teid_next, teid_free>>
       ELSE release(tunnel(e).ul_teid)
    /\ Returns(<<>>, <<>>)

\* UeContextReleaseComplete: deregister by the entity's IMSI, despawn, give
\* the TEID back.  On an entity that is gone every part is a no-op.
Teardown(e) ==
    /\ IF is_live(e) THEN deregister(ent[e].imsi) ELSE UNCHANGED registry
    /\ despawn(e)
    /\ UNCHANGED sqn
    /\ \/ /\ tunnel(e) = None
          /\ Returns(<<>>, <<>>)
          /\ UNCHANGED <<teid_next, teid_free>>
       \/ /\ tunnel(e) # None
          /\ release(tunnel(e).ul_teid)
          /\ Returns(<<>>, <<RemoveSession(tunnel(e).ul_teid)>>)

-----------------------------------------------------------------------------
(* Inputs.                                                                 *)

Vectors == [imsi : Imsi, sqn : 0 .. MaxSqn - 1]

\* What a UE can answer to a challenge: the response to some vector, or the
\* zero string, which is what xres holds after the wipe.
Responses == Vectors \cup {None}

\* A protected PDU was made with the key of some NAS context that exists, or
\* with another one, for which None stands (it matches only a context whose
\* keys were derived from zeroised material).
Security ==
    LET keys == {ent[e].nas.key : e \in {f \in EntityId : ent[f].nas # None}} IN
    {NasPlain} \cup {NasProtected(k, c) : k \in keys \cup {None},
                                          c \in 0 .. MaxCount - 1}

-----------------------------------------------------------------------------
(* Properties of the state the two cores share.                            *)

CpTypeOK ==
    /\ WorldTypeOK
    /\ RegistryTypeOK
    /\ TeidTypeOK
    /\ HssTypeOK

\* The UL TEIDs in use are issued ones, no two subscribers share one, and
\* none of them is on the free list, which holds no TEID twice: alloc never
\* returns a TEID some tunnel still uses, also after ids and TEIDs have been
\* recycled and messages repeated (TeidAllocator with ActivateNas, Teardown).
TeidPool ==
    /\ IsInjective(teid_free)
    /\ Range(teid_free) \subseteq Issued
    /\ \A e \in LiveIds : ent[e].tunnel # None =>
          /\ ent[e].tunnel.ul_teid \in Allocated
          /\ \A f \in LiveIds \ {e} : ent[f].tunnel # None =>
                ent[f].tunnel.ul_teid # ent[e].tunnel.ul_teid

\* The IMSI index never dangles: an entry names a live entity that belongs
\* to that IMSI, also after the id was recycled for somebody else
\* (start_attach registers, handle_release_complete deregisters).
RegistryPointsHome ==
    \A i \in Imsi : registry[i] # None =>
        /\ is_live(registry[i])
        /\ ent[registry[i]].imsi = i

\* Vectors an entity holds: pending challenge, CK, the root of its NAS keys.
\* Keys derived from zeroised material have no vector in them and are not
\* counted here; in the code they depend on what the wipe leaves (PLMN, SQN
\* and in the AMF the SUPI), so two entities can have the same ones.
VectorsOf(e) ==
    {v \in {ent[e].xres, ent[e].ck} : v # None}
        \cup (IF ent[e].nas = None \/ ent[e].nas.key = None
              THEN {} ELSE {ent[e].nas.key})

\* A sequence number serves one entity only: no two entities, live or not,
\* ever hold a vector made from the same SQN of a subscriber, however often
\* it attaches (Hss::generate_auth_vector and who gets what it returns).
KeysUnshared ==
    \A e, f \in EntityId : e # f => VectorsOf(e) \cap VectorsOf(f) = {}

\* Key material stays with the subscriber it was made for: what an entity
\* holds comes from its own IMSI (Mme: start_attach writes the two together,
\* no later message changes the IMSI of an entity).
KeysStayHome ==
    \A e \in EntityId : \A v \in VectorsOf(e) : is_live(e) /\ v.imsi = ent[e].imsi

\* The CK of a vector can still be used: it was not handed out yet, or an
\* entity holds it.
Unspent(v) ==
    \/ sqn[v.imsi] = None \/ sqn[v.imsi] <= v.sqn
    \/ \E e \in EntityId : ent[e].ck = v

\* The NAS context of slot n is that of slot o: the same key, and neither
\* COUNT behind.
GoesOn(n, o) ==
    /\ o.nas # None /\ n.nas.key = o.nas.key
    /\ n.nas.ul_count >= o.nas.ul_count
    /\ n.nas.dl_count >= o.nas.dl_count

\* A vector keys one NAS context, once: a context with its key goes on with
\* the COUNTs it had, or it is new and the vector is spent by making it; and a
\* spent vector stays spent, whatever is repeated, reordered or released later
\* (handle_security_mode_complete wipes CK, generate_auth_vector moves on).
\* Not so the keys derived after the wipe: those come from zeroes and not from
\* a vector, and a repeated SecurityModeComplete derives the same one again,
\* with both COUNTs back at 0.
VectorsSpentOnce ==
    [][\A v \in Vectors :
          /\ Unspent(v)' => Unspent(v)
          /\ \A e \in EntityId :
                ent'[e].nas # None /\ ent'[e].nas.key = v =>
                   GoesOn(ent'[e], ent[e]) \/ (Unspent(v) /\ ~Unspent(v)')]_cpVars
=============================================================================
