------------------------------ MODULE AmfProofs ------------------------------
(***************************************************************************)
(* The AMF keeps its stores consistent for every number of subscribers,    *)
(* entities and TEIDs, and for any order, loss or repetition of the NGAP   *)
(* messages it is sent.  The invariant is CpInv alone: an entity can be    *)
(* bound to a second IMSI, so the IMSI index of the AMF may dangle.        *)
(* With the UPF it controls (module N3) it stays in step, by LoopInv of    *)
(* CoreLoopProofs.                                                         *)
(***************************************************************************)
EXTENDS N3, CoreLoopProofs

\* RegistrationRequest: an entity that belongs to nobody yet.
LEMMA StartRegistrationStep ==
    ASSUME CpInv, NEW guti, NEW ran, start_registration(guti, ran)
    PROVE  CpInv'
<1>1. CASE Drop
  BY <1>1, DropStep DEF Drop
<1>2. CASE ~Drop
  <2> DEFINE found == ent[SpawnId]
             slot == [found EXCEPT !.imsi = NoImsi, !.xres = None, !.ck = None]
  <2>1. spawn(slot) /\ UNCHANGED <<registry, sqn, teid_next, teid_free>>
    BY <1>2 DEF start_registration
  <2>2. /\ SpawnId \in EntityId /\ ~is_live(SpawnId)
        /\ found \in Slot /\ found.tunnel = None
    <3>1. free_ids # <<>> \/ next_id < MaxEntities
      BY <2>1 DEF spawn
    <3> QED
      BY <3>1, SpawnIdFresh, EmptyIsSlot DEF CpInv
  <2> HIDE DEF found
  <2>3. slot \in Slot /\ slot.tunnel = None
    BY <2>2 DEF Slot
  <2> HIDE DEF slot
  <2> DEFINE new == [slot EXCEPT !.live = TRUE]
  <2>4. /\ WorldInv'
        /\ ent' = [ent EXCEPT ![SpawnId] = new]
        /\ LiveIds' = LiveIds \cup {SpawnId}
    BY <2>1, <2>3, SpawnStep DEF CpInv
  <2>5. new.tunnel = None
    BY <2>3 DEF Slot
  <2> HIDE DEF new
  <2>6. /\ ent'[SpawnId] = new
        /\ \A f \in EntityId \ {SpawnId} : ent'[f] = ent[f]
    BY <2>2, <2>4 DEF CpInv, WorldInv, WorldTypeOK
  <2>7. AllocatorInv /\ TunnelsOwn
    BY TeidPoolSplit DEF CpInv
  <2>8. \A f \in LiveIds' : ent'[f].tunnel # None =>
            f \in LiveIds /\ ent'[f].tunnel = ent[f].tunnel
    BY <2>2, <2>4, <2>5, <2>6 DEF LiveIds
  <2>9. TunnelsOwn'
    BY <2>1, <2>7, <2>8, TunnelsKept
  <2>10. AllocatorInv'
    BY <2>1, <2>7 DEF AllocatorInv, TeidTypeOK, Issued
  <2>11. TeidTypeOK' /\ TeidPool'
    BY <2>9, <2>10 DEF AllocatorInv, TunnelsOwn, TeidPool
  <2>12. RegistryTypeOK' /\ HssTypeOK'
    BY <2>1 DEF CpInv, RegistryTypeOK, HssTypeOK
  <2> QED
    BY <2>4, <2>11, <2>12 DEF CpInv
<1> QED
  BY <1>1, <1>2

\* IdentityResponse: the entity is bound to the subscriber it names.
LEMMA IdentityResponseStep ==
    ASSUME CpInv, NEW e \in EntityId, NEW ran, NEW s, SlotView(e, s), NEW suci,
           handle_identity_response(e, ran, s, suci)
    PROVE  CpInv'
<1> DEFINE imsi == IF suci = None THEN None ELSE resolve_suci_to_imsi(suci)
<1>1. CASE Ignore(e, s)
  BY <1>1, IgnoreStep
<1>2. CASE /\ has_subscriber(imsi) /\ generate_auth_vector(imsi)
           /\ UNCHANGED <<next_id, free_ids, live_count, ent, registry,
                          teid_next, teid_free>>
  <2>1. imsi \in Imsi /\ sqn[imsi] \in Nat
    BY <1>2 DEF has_subscriber, CpInv, HssTypeOK
  <2> HIDE DEF imsi
  <2>2. HssTypeOK'
    BY <1>2, <2>1, HssAssumption DEF generate_auth_vector, CpInv, HssTypeOK
  <2> QED
    BY <1>2, <2>2
       DEF CpInv, WorldInv, WorldTypeOK, EntityPool, DeadSlotsEmpty, CountMatches,
           LiveIds, is_live, RegistryTypeOK, TeidTypeOK, TeidPool, Allocated, Issued
<1>3. CASE /\ has_subscriber(imsi) /\ is_live(e) /\ generate_auth_vector(imsi)
           /\ register(imsi, e)
           /\ set_slot(e, [s EXCEPT !.imsi = imsi, !.xres = NextVector(imsi),
                                    !.ck = NextVector(imsi),
                                    !.auth = "ChallengeIssued"])
           /\ UNCHANGED <<teid_next, teid_free>>
  <2> DEFINE v == NextVector(imsi)
             new == [s EXCEPT !.imsi = imsi, !.xres = v, !.ck = v,
                              !.auth = "ChallengeIssued"]
  <2>1. imsi \in Imsi /\ sqn[imsi] \in Nat
    BY <1>3 DEF has_subscriber, CpInv, HssTypeOK
  <2>2. v \in Vector
    BY <2>1 DEF NextVector, Vector
  <2>3. /\ ent' = [ent EXCEPT ![e] = new]
        /\ UNCHANGED <<next_id, free_ids, live_count>>
    BY <1>3 DEF set_slot
  <2>4. HssTypeOK' /\ RegistryTypeOK'
    BY <1>3, <2>1, HssAssumption
       DEF generate_auth_vector, register, CpInv, HssTypeOK, RegistryTypeOK
  <2> HIDE DEF v, imsi
  <2>5. new \in Slot /\ new.live = ent[e].live /\ new.tunnel = ent[e].tunnel
    BY <2>1, <2>2 DEF Slot, AuthState, SlotView
  <2> HIDE DEF new
  <2>6. WorldInv' /\ LiveIds' = LiveIds
    BY <1>3, <2>3, <2>5, SetSlotStep DEF CpInv
  <2>7. \A f \in EntityId : ent'[f].tunnel = ent[f].tunnel
    BY <2>3, <2>5 DEF CpInv, WorldInv, WorldTypeOK
  <2>8. AllocatorInv /\ TunnelsOwn
    BY TeidPoolSplit DEF CpInv
  <2>9. TunnelsOwn'
    BY <1>3, <2>6, <2>7, <2>8, TunnelsKept DEF LiveIds
  <2>10. AllocatorInv'
    BY <1>3, <2>8 DEF AllocatorInv, TeidTypeOK, Issued
  <2>11. TeidTypeOK' /\ TeidPool'
    BY <2>9, <2>10 DEF AllocatorInv, TunnelsOwn, TeidPool
  <2> QED
    BY <2>4, <2>6, <2>11 DEF CpInv
<1> QED
  BY <1>1, <1>2, <1>3 DEF handle_identity_response

\* UplinkNasTransport, whatever it carries.
LEMMA UplinkNasStep ==
    ASSUME CpInv, NEW e \in EntityId, NEW ran, NEW sec \in Security, NEW pdu,
           handle_uplink_nas(e, ran, sec, pdu)
    PROVE  CpInv'
<1> DEFINE s == Unwrapped(e, sec)
<1>1. CASE ~Accepted(e, sec)
  BY <1>1, DropStep DEF handle_uplink_nas, Drop
<1>2. CASE Accepted(e, sec)
  <2>1. SlotView(e, s)
    BY <1>2, UnwrappedView
  <2>2. \/ handle_identity_response(e, ran, s, pdu.suci)
        \/ handle_auth_response(e, ran, s, pdu.res)
        \/ handle_security_mode_complete(e, ran, s)
        \/ handle_registration_complete(e, s)
        \/ handle_deregistration_request(e, ran, s, pdu.switch_off)
        \/ Ignore(e, s)
    BY <1>2 DEF handle_uplink_nas
  <2> HIDE DEF s
  <2>3. CASE handle_identity_response(e, ran, s, pdu.suci)
    BY <2>1, <2>3, IdentityResponseStep
  <2>4. CASE handle_auth_response(e, ran, s, pdu.res)
    BY <2>1, <2>4, VerifyResStep DEF handle_auth_response
  <2>5. CASE handle_security_mode_complete(e, ran, s)
    BY <2>1, <2>5, ActivateNasStep DEF handle_security_mode_complete
  <2>6. CASE handle_deregistration_request(e, ran, s, pdu.switch_off)
    BY <2>1, <2>6, DetachStep DEF handle_deregistration_request
  <2>7. CASE handle_registration_complete(e, s) \/ Ignore(e, s)
    BY <2>1, <2>7, IgnoreStep DEF handle_registration_complete
  <2> QED
    BY <2>2, <2>3, <2>4, <2>5, <2>6, <2>7
<1> QED
  BY <1>1, <1>2

\* Every step of the AMF preserves the invariant.
LEMMA AmfInvInductive == CpInv /\ [Next]_cpVars => CpInv'
<1> SUFFICES ASSUME CpInv, [Next]_cpVars PROVE CpInv'
  OBVIOUS
<1>1. CASE UNCHANGED cpVars
  BY <1>1, DropStep DEF cpVars, coreVars
<1>2. ASSUME NEW guti \in BOOLEAN, NEW ran \in RanId, start_registration(guti, ran)
      PROVE  CpInv'
  BY <1>2, StartRegistrationStep
<1>3. ASSUME NEW e \in EntityId, NEW ran \in RanId, NEW sec \in Security,
             NEW pdu \in UplinkPdu, handle_uplink_nas(e, ran, sec, pdu)
      PROVE  CpInv'
  BY <1>3, UplinkNasStep
<1>4. ASSUME NEW e \in EntityId, NEW dl \in DlTeid \cup {None}, handle_ics_response(e, dl)
      PROVE  CpInv'
  BY <1>4, BearerSetUpStep DEF handle_ics_response
<1>5. ASSUME NEW e \in EntityId, handle_release_complete(e)
      PROVE  CpInv'
  BY <1>5, TeardownStep DEF handle_release_complete
<1> QED
  BY <1>1, <1>2, <1>3, <1>4, <1>5 DEF Next

\* The invariant holds in every state the AMF reaches (process_ngap).
THEOREM AmfInvariant == Spec => []CpInv
<1>1. Init => CpInv
  BY CpInitInv DEF Init
<1>2. CpInv /\ [Next]_cpVars => CpInv'
  BY AmfInvInductive
<1> QED
  BY <1>1, <1>2, PTL DEF Spec

\* Every component of the AMF's state keeps its type.
THEOREM AmfTypeCorrect == Spec => []TypeOK
<1>1. CpInv => TypeOK
  BY DEF CpInv, WorldInv, TypeOK, CpTypeOK
<1> QED
  BY <1>1, AmfInvariant, PTL

\* World::spawn and World::despawn recycle ids exactly, also for the entities
\* that never get an IMSI.
THEOREM AmfEntityPool == Spec => []EntityPool
<1>1. CpInv => EntityPool
  BY DEF CpInv, WorldInv
<1> QED
  BY <1>1, AmfInvariant, PTL

\* No two UEs share an uplink TEID, and TeidAllocator::alloc never returns
\* one that is in use.
THEOREM AmfTeidPool == Spec => []TeidPool
<1>1. CpInv => TeidPool
  BY DEF CpInv
<1> QED
  BY <1>1, AmfInvariant, PTL

-----------------------------------------------------------------------------
(* Key material.                                                           *)

\* RegistrationRequest: the new entity has no keys.
LEMMA StartRegistrationKeys ==
    ASSUME CpInv, NEW guti, NEW ran, start_registration(guti, ran)
    PROVE  Handled
<1>1. CASE Drop
  BY <1>1, DropHandled DEF Drop
<1>2. CASE ~Drop
  <2> DEFINE slot == [ent[SpawnId] EXCEPT !.imsi = NoImsi, !.xres = None, !.ck = None]
             new == [slot EXCEPT !.live = TRUE]
  <2>1. spawn(slot) /\ UNCHANGED sqn
    BY <1>2 DEF start_registration
  <2>2. SpawnId \in EntityId /\ ent[SpawnId] = Empty
    BY <2>1, SpawnIdFresh DEF spawn, CpInv
  <2>3. ent' = [ent EXCEPT ![SpawnId] = new]
    BY <2>1 DEF spawn
  <2>4. new.xres = None /\ new.ck = None /\ new.nas = None
    BY <2>2 DEF Empty
  <2> HIDE DEF new
  <2>5. Inherits(new, ent[SpawnId])
    BY <2>4 DEF Inherits, Holds, Spends
  <2> QED
    BY <2>1, <2>2, <2>3, <2>5, HandledSlot
<1> QED
  BY <1>1, <1>2

\* A vector is made and goes to nobody: the entity the answer names is gone.
Spoiled(i) ==
    i \in Imsi /\ sqn[i] \in Nat /\ generate_auth_vector(i) /\ UNCHANGED ent

\* IdentityResponse: the new vector goes to the entity that answered, if it
\* is still there.
LEMMA IdentityResponseKeys ==
    ASSUME CpInv, NEW e \in EntityId, NEW ran, NEW s, Opened(e, s), NEW suci,
           handle_identity_response(e, ran, s, suci)
    PROVE  Handled \/ \E i : Spoiled(i) \/ Vended(i, e)
<1> DEFINE imsi == IF suci = None THEN None ELSE resolve_suci_to_imsi(suci)
<1>1. CASE Ignore(e, s)
  BY <1>1, IgnoreHandled
<1>2. CASE has_subscriber(imsi) /\ generate_auth_vector(imsi) /\ UNCHANGED ent
  BY <1>2 DEF has_subscriber, CpInv, HssTypeOK, Spoiled
<1>3. CASE /\ has_subscriber(imsi) /\ is_live(e) /\ generate_auth_vector(imsi)
           /\ set_slot(e, [s EXCEPT !.imsi = imsi, !.xres = NextVector(imsi),
                                    !.ck = NextVector(imsi),
                                    !.auth = "ChallengeIssued"])
  <2> DEFINE v == NextVector(imsi)
             new == [s EXCEPT !.imsi = imsi, !.xres = v, !.ck = v,
                              !.auth = "ChallengeIssued"]
  <2>1. imsi \in Imsi /\ sqn[imsi] \in Nat
    BY <1>3 DEF has_subscriber, CpInv, HssTypeOK
  <2>2. ent' = [ent EXCEPT ![e] = new]
    BY <1>3 DEF set_slot
  <2> HIDE DEF imsi, v
  <2>3. /\ new.live = s.live /\ new.imsi = imsi /\ new.xres = v /\ new.ck = v
        /\ new.nas = s.nas
    BY DEF Opened, Slot
  <2> HIDE DEF new
  <2>4. ent'[e] = new /\ \A f \in EntityId \ {e} : ent'[f] = ent[f]
    BY <2>2 DEF CpInv, WorldInv, WorldTypeOK
  <2>5. /\ s.live = TRUE
        /\ s.nas = None <=> ent[e].nas = None
        /\ s.nas # None => /\ s.nas.key = ent[e].nas.key
                           /\ s.nas.ul_count >= ent[e].nas.ul_count
                           /\ s.nas.dl_count >= ent[e].nas.dl_count
    BY <1>3 DEF Opened, Slot, NasContext, is_live
  <2>6. Vended(imsi, e)
    BY <1>3, <2>1, <2>3, <2>4, <2>5 DEF Vended, v
  <2> QED
    BY <2>6
<1> QED
  BY <1>1, <1>2, <1>3 DEF handle_identity_response

\* UplinkNasTransport, whatever it carries.
LEMMA UplinkNasKeys ==
    ASSUME CpInv, NEW e \in EntityId, NEW ran, NEW sec \in Security, NEW pdu,
           handle_uplink_nas(e, ran, sec, pdu)
    PROVE  Handled \/ \E i : Spoiled(i) \/ Vended(i, e)
<1> DEFINE s == Unwrapped(e, sec)
<1>1. CASE ~Accepted(e, sec)
  BY <1>1, DropHandled DEF handle_uplink_nas, Drop
<1>2. CASE Accepted(e, sec)
  <2>1. Opened(e, s)
    BY <1>2, UnwrappedOpened
  <2>2. \/ handle_identity_response(e, ran, s, pdu.suci)
        \/ handle_auth_response(e, ran, s, pdu.res)
        \/ handle_security_mode_complete(e, ran, s)
        \/ handle_registration_complete(e, s)
        \/ handle_deregistration_request(e, ran, s, pdu.switch_off)
        \/ Ignore(e, s)
    BY <1>2 DEF handle_uplink_nas
  <2> HIDE DEF s
  <2>3. CASE handle_identity_response(e, ran, s, pdu.suci)
    BY <2>1, <2>3, IdentityResponseKeys
  <2>4. CASE handle_auth_response(e, ran, s, pdu.res)
    BY <2>1, <2>4, VerifyResHandled DEF handle_auth_response
  <2>5. CASE handle_security_mode_complete(e, ran, s)
    BY <2>1, <2>5, ActivateNasHandled DEF handle_security_mode_complete
  <2>6. CASE handle_deregistration_request(e, ran, s, pdu.switch_off)
    BY <2>1, <2>6, DetachHandled DEF handle_deregistration_request
  <2>7. CASE handle_registration_complete(e, s) \/ Ignore(e, s)
    BY <2>1, <2>7, IgnoreHandled DEF handle_registration_complete
  <2> QED
    BY <2>2, <2>3, <2>4, <2>5, <2>6, <2>7
<1> QED
  BY <1>1, <1>2

\* A step of the AMF makes no vector, one for a single entity, or one that is
\* thrown away.
LEMMA AmfKeySteps ==
    ASSUME CpInv, [Next]_cpVars
    PROVE  Handled \/ (\E i : Spoiled(i)) \/ (\E i, e : Vended(i, e))
<1>1. CASE UNCHANGED cpVars
  BY <1>1, HandledIdle DEF cpVars
<1>2. ASSUME NEW guti \in BOOLEAN, NEW ran \in RanId, start_registration(guti, ran)
      PROVE  Handled
  BY <1>2, StartRegistrationKeys
<1>3. ASSUME NEW e \in EntityId, NEW ran \in RanId, NEW sec \in Security,
             NEW pdu \in UplinkPdu, handle_uplink_nas(e, ran, sec, pdu)
      PROVE  Handled \/ \E i : Spoiled(i) \/ Vended(i, e)
  BY <1>3, UplinkNasKeys
<1>4. ASSUME NEW e \in EntityId, NEW dl \in DlTeid \cup {None}, handle_ics_response(e, dl)
      PROVE  Handled
  BY <1>4, BearerSetUpHandled DEF handle_ics_response
<1>5. ASSUME NEW e \in EntityId, handle_release_complete(e)
      PROVE  Handled
  BY <1>5, TeardownHandled DEF handle_release_complete
<1> QED
  BY <1>1, <1>2, <1>3, <1>4, <1>5 DEF Next

\* The keys of the AMF: an entity may be bound to a second subscriber and so
\* get a second CK while it uses the first one's NAS keys.
KeysInv == KeysIssued /\ KeysUnshared

\* Every step keeps the vectors apart and uses none of them twice, while the
\* SQN counter has not wrapped.
LEMMA AmfKeysInductive ==
    ASSUME NoSqnWrap, CpInv, KeysInv, [Next]_cpVars
    PROVE  KeysInv' /\ \A v \in Vectors : SpentOnce(v)
<1>1. CASE Handled
  BY <1>1, HandledApart, HandledSpends DEF KeysInv
<1>2. ASSUME NEW i, Spoiled(i)
      PROVE  KeysInv' /\ \A v \in Vectors : SpentOnce(v)
  <2>1. ASSUME NEW v \in Vectors PROVE SpentOnce(v)
    <3>1. Unspent(v)' => Unspent(v)
      BY <1>2, StaysSpent DEF Spoiled
    <3>2. \A e \in EntityId : ent'[e].nas # None => GoesOn(ent'[e], ent[e])
      BY <1>2 DEF Spoiled, GoesOn, CpInv, WorldInv, WorldTypeOK, Slot, NasContext
    <3> QED
      BY <3>1, <3>2 DEF SpentOnce
  <2>2. CASE EntityId = {}
    BY <2>1, <2>2 DEF KeysInv, KeysIssued, KeysUnshared
  <2>3. ASSUME NEW e \in EntityId PROVE KeysIssued' /\ KeysUnshared'
    BY <1>2, FreshVector DEF Spoiled, KeysInv
  <2> QED
    BY <2>1, <2>2, <2>3 DEF KeysInv
<1>3. ASSUME NEW i, NEW e, Vended(i, e)
      PROVE  KeysInv' /\ \A v \in Vectors : SpentOnce(v)
  BY <1>3, VendedApart, VendedSpends DEF KeysInv
<1> QED
  BY <1>1, <1>2, <1>3, AmfKeySteps

\* No two entities of the AMF ever hold vectors from one SQN, for as long as
\* the SQN counter has not wrapped, although any entity may answer with any
\* SUCI at any time (Hss::generate_auth_vector, handle_identity_response).
THEOREM AmfKeysUnshared ==
    ASSUME NoSqnWrap
    PROVE  Spec => []KeysUnshared
<1>1. Init => KeysInv
  BY KeysInit DEF Init, KeysInv
<1>2. CpInv /\ KeysInv /\ [Next]_cpVars => KeysInv'
  BY AmfKeysInductive
<1>3. KeysInv => KeysUnshared
  BY DEF KeysInv
<1> QED
  BY <1>1, <1>2, <1>3, AmfInvariant, PTL DEF Spec

\* A vector keys one NAS context of the AMF, once, for as long as the SQN
\* counter has not wrapped, also when a second IdentityResponse restarts
\* authentication under a running NAS context (handle_identity_response,
\* handle_security_mode_complete).
THEOREM AmfVectorsSpentOnce ==
    ASSUME NoSqnWrap
    PROVE  Spec => VectorsSpentOnce
<1>1. Init => KeysInv
  BY KeysInit DEF Init, KeysInv
<1>2. CpInv /\ KeysInv /\ [Next]_cpVars => KeysInv' /\ \A v \in Vectors : SpentOnce(v)
  BY AmfKeysInductive
<1>3. Spec => [][\A v \in Vectors : SpentOnce(v)]_cpVars
  BY <1>1, <1>2, AmfInvariant, PTL DEF Spec
<1> QED
  BY <1>3, PTL DEF VectorsSpentOnce, SpentOnce

-----------------------------------------------------------------------------
(* The AMF and the UPF it controls.                                        *)

\* RegistrationRequest: the new entity has no tunnel.
LEMMA StartRegistrationQuiet ==
    ASSUME CpInv, NEW guti, NEW ran, start_registration(guti, ran)
    PROVE  Quiet
<1>1. CASE Drop
  BY <1>1, DropQuiet
<1>2. CASE ~Drop
  <2> DEFINE slot == [ent[SpawnId] EXCEPT !.imsi = NoImsi, !.xres = None, !.ck = None]
             new == [slot EXCEPT !.live = TRUE]
             a == DownlinkNasTransport(SpawnId, ran, Plain("IdentityRequest"))
  <2>1. /\ spawn(slot) /\ UNCHANGED <<teid_next, teid_free>>
        /\ events' = <<>> /\ responses' = <<a>>
    BY <1>2 DEF start_registration, Returns
  <2>2. SpawnId \in EntityId /\ ent[SpawnId] = Empty
    BY <2>1, SpawnIdFresh DEF spawn, CpInv
  <2>3. ent' = [ent EXCEPT ![SpawnId] = new]
    BY <2>1 DEF spawn
  <2>4. new.tunnel = None
    BY <2>2 DEF Empty
  <2>5. a.type # "InitialContextSetupRequest"
    BY DEF DownlinkNasTransport
  <2> HIDE DEF new, a
  <2>6. /\ ent'[SpawnId] = new
        /\ \A f \in EntityId \ {SpawnId} : ent'[f] = ent[f]
    BY <2>2, <2>3 DEF CpInv, WorldInv, WorldTypeOK
  <2>7. \A f \in EntityId : (is_live(f)' /\ ent'[f].tunnel # None) =>
            is_live(f) /\ ent'[f].tunnel = ent[f].tunnel
    BY <2>4, <2>6 DEF is_live
  <2> QED
    BY <2>1, <2>5, <2>7, QuietStep
<1> QED
  BY <1>1, <1>2

\* IdentityResponse.
LEMMA IdentityResponseQuiet ==
    ASSUME CpInv, NEW e \in EntityId, NEW ran, NEW s, SlotView(e, s), NEW suci,
           handle_identity_response(e, ran, s, suci)
    PROVE  Quiet
<1> DEFINE imsi == IF suci = None THEN None ELSE resolve_suci_to_imsi(suci)
           v == NextVector(imsi)
           a == DownlinkNasTransport(e, ran, Plain("AuthenticationRequest"))
           new == [s EXCEPT !.imsi = imsi, !.xres = v, !.ck = v,
                            !.auth = "ChallengeIssued"]
<1>1. CASE Ignore(e, s)
  BY <1>1, IgnoreQuiet
<1>2. CASE /\ UNCHANGED <<ent, teid_next, teid_free>>
           /\ responses' = <<>> /\ events' = <<>>
  BY <1>2, QuietStep DEF is_live
<1>3. CASE /\ ent' = [ent EXCEPT ![e] = new] /\ UNCHANGED <<teid_next, teid_free>>
           /\ responses' = <<a>> /\ events' = <<>>
  <2>1. a.type # "InitialContextSetupRequest"
    BY DEF DownlinkNasTransport
  <2> HIDE DEF imsi, v, a
  <2>2. new.tunnel = ent[e].tunnel /\ new.live = ent[e].live
    BY DEF SlotView, Slot
  <2> HIDE DEF new
  <2> QED
    BY <1>3, <2>1, <2>2, QuietSlot
<1> QED
  BY <1>1, <1>2, <1>3 DEF handle_identity_response, Returns, set_slot

\* UplinkNasTransport, whatever it carries.
LEMMA UplinkNasKind ==
    ASSUME CpInv, NEW e \in EntityId, NEW ran, NEW sec \in Security, NEW pdu,
           handle_uplink_nas(e, ran, sec, pdu)
    PROVE  Quiet \/ \E t \in UlTeid : Opens(t, e)
<1> DEFINE s == Unwrapped(e, sec)
<1>1. CASE ~Accepted(e, sec)
  BY <1>1, DropQuiet DEF handle_uplink_nas
<1>2. CASE Accepted(e, sec)
  <2>1. SlotView(e, s)
    BY <1>2, UnwrappedView
  <2>2. \/ handle_identity_response(e, ran, s, pdu.suci)
        \/ handle_auth_response(e, ran, s, pdu.res)
        \/ handle_security_mode_complete(e, ran, s)
        \/ handle_registration_complete(e, s)
        \/ handle_deregistration_request(e, ran, s, pdu.switch_off)
        \/ Ignore(e, s)
    BY <1>2 DEF handle_uplink_nas
  <2> HIDE DEF s
  <2>3. CASE handle_identity_response(e, ran, s, pdu.suci)
    BY <2>1, <2>3, IdentityResponseQuiet
  <2>4. CASE handle_auth_response(e, ran, s, pdu.res)
    BY <2>1, <2>4, VerifyResQuiet DEF handle_auth_response
  <2>5. CASE handle_security_mode_complete(e, ran, s)
    BY <2>1, <2>5, ActivateNasKind, N3Assumption DEF handle_security_mode_complete
  <2>6. CASE handle_deregistration_request(e, ran, s, pdu.switch_off)
    BY <2>1, <2>6, DetachQuiet DEF handle_deregistration_request
  <2>7. CASE handle_registration_complete(e, s) \/ Ignore(e, s)
    BY <2>1, <2>7, IgnoreQuiet DEF handle_registration_complete
  <2> QED
    BY <2>2, <2>3, <2>4, <2>5, <2>6, <2>7
<1> QED
  BY <1>1, <1>2

\* Every call of process_ngap is of one of the four kinds.
LEMMA AmfKinds ==
    ASSUME CpInv, Next
    PROVE  \/ Quiet
           \/ \E t \in UlTeid, e \in EntityId : Opens(t, e)
           \/ \E t \in UlTeid, e \in EntityId, dl \in DlTeid : Redirects(t, e, dl)
           \/ \E t \in UlTeid, e \in EntityId : Closes(t, e)
<1>1. ASSUME NEW guti \in BOOLEAN, NEW ran \in RanId, start_registration(guti, ran)
      PROVE  Quiet
  BY <1>1, StartRegistrationQuiet
<1>2. ASSUME NEW e \in EntityId, NEW ran \in RanId, NEW sec \in Security,
             NEW pdu \in UplinkPdu, handle_uplink_nas(e, ran, sec, pdu)
      PROVE  Quiet \/ \E t \in UlTeid : Opens(t, e)
  BY <1>2, UplinkNasKind
<1>3. ASSUME NEW e \in EntityId, NEW dl \in DlTeid \cup {None}, handle_ics_response(e, dl)
      PROVE  Quiet \/ \E t \in UlTeid : Redirects(t, e, dl) /\ dl \in DlTeid
  BY <1>3, BearerSetUpKind DEF handle_ics_response, Redirects
<1>4. ASSUME NEW e \in EntityId, handle_release_complete(e)
      PROVE  Quiet \/ \E t \in UlTeid : Closes(t, e)
  BY <1>4, TeardownKind DEF handle_release_complete
<1> QED
  BY <1>1, <1>2, <1>3, <1>4 DEF Next

\* One call of process_ngap, between two messages.
LEMMA ReceiveStep ==
    ASSUME LoopInv, Receive(Next)
    PROVE  LoopInv'
<1>1. Drained /\ Next /\ UNCHANGED upfVars /\ CpInv
  BY DEF Receive, LoopInv
<1>2. CpInv'
  BY <1>1, AmfInvInductive
<1> QED
  BY <1>1, <1>2, AmfKinds, KindKeeps

\* Every step of the loop preserves the invariant.
LEMMA N3InvInductive == LoopInv /\ [N3Next]_loopVars => LoopInv'
BY ReceiveStep, ApplyEventStep, ServeCallStep, SendResponseStep, LoopStutter DEF N3Next

\* The invariant that joins the two sides holds in every state of run_amf's
\* loop.
THEOREM N3Invariant == N3Spec => []LoopInv
<1>1. LoopInit => LoopInv
  BY LoopInitInv
<1>2. LoopInv /\ [N3Next]_loopVars => LoopInv'
  BY N3InvInductive
<1> QED
  BY <1>1, <1>2, PTL DEF N3Spec

\* Between two messages the UPF has a session for exactly the TEIDs the AMF
\* has allocated, and every tunnel leads to the session of its entity, with
\* its downlink TEID (N3Event against SessionManager).
THEOREM N3LedgersAgree == N3Spec => []LedgersAgree
<1>1. LoopInv => LedgersAgree
  BY DrainedAgree DEF LedgersAgree
<1> QED
  BY <1>1, N3Invariant, PTL

\* The InitialContextSetupRequest that announces a TEID is sent once the UPF
\* routes that TEID (run_amf applies events before it sends).
THEOREM N3SessionBeforeAccept == N3Spec => SessionBeforeAccept
<1>1. LoopInv /\ [N3Next]_loopVars =>
          [\A r \in Announced : responses' = Tail(responses) =>
              process_uplink(r.ul_teid) # NoEntry]_loopVars
  <2> SUFFICES ASSUME LoopInv, N3Next, NEW r \in Announced, responses' = Tail(responses)
               PROVE  process_uplink(r.ul_teid) # NoEntry
    OBVIOUS
  <2>1. responses # <<>>
    BY TupleRange DEF Announced
  <2>2. responses' # responses
    BY <2>1, ShortTail DEF LoopInv, Answers
  <2>3. ~Receive(Next) /\ ~ApplyEvent /\ ~ServeCall
    BY <2>1, <2>2 DEF Receive, Drained, ApplyEvent, ServeCall, cpVars
  <2>4. events = <<>>
    BY <2>3 DEF N3Next, SendResponse
  <2> QED
    BY <2>4 DEF LoopInv, Answers, Queued, process_uplink
<1> QED
  BY <1>1, N3Invariant, PTL DEF N3Spec, SessionBeforeAccept

\* A record written for the TEID of a session keeps or ends its owner.
LEMMA OwnerUpdated ==
    ASSUME UpfTypeOK, NEW t \in UlTeid, NEW s \in Session \cup {NoEntry},
           sessions' = [sessions EXCEPT ![t] = s]
    PROVE  SessionOwner' = [SessionOwner EXCEPT ![t] =
                               IF s = NoEntry THEN NoEntry ELSE s.entity]
<1>1. /\ sessions'[t] = s
      /\ \A u \in UlTeid \ {t} : sessions'[u] = sessions[u]
  BY DEF UpfTypeOK
<1> DEFINE o == IF s = NoEntry THEN NoEntry ELSE s.entity
           F == [u \in UlTeid |-> IF sessions[u] = NoEntry THEN NoEntry
                                  ELSE sessions[u].entity]
           G == [u \in UlTeid |-> IF sessions'[u] = NoEntry THEN NoEntry
                                  ELSE sessions'[u].entity]
<1>2. G[t] = o
  BY <1>1
<1>3. \A u \in UlTeid \ {t} : G[u] = F[u]
  BY <1>1
<1> HIDE DEF o
<1>4. /\ F \in [UlTeid -> Entity \cup {NoEntry}]
      /\ G \in [UlTeid -> Entity \cup {NoEntry}]
  BY DEF UpfTypeOK, Session
<1>5. SessionOwner = F /\ SessionOwner' = G
  BY DEF SessionOwner
<1> HIDE DEF F, G
<1>6. G = [F EXCEPT ![t] = o]
  BY <1>2, <1>3, <1>4
<1> QED
  BY <1>5, <1>6 DEF o

\* Every step of the loop opens a free TEID, closes one, or changes no owner.
LEMMA BearersStep ==
    ASSUME LoopInv, [N3Next]_loopVars
    PROVE  [Abstract!BearersNext]_SessionOwner
<1>0. UpfTypeOK
  BY DEF LoopInv, UpfCore
<1>1. CASE sessions' = sessions
  BY <1>1 DEF SessionOwner
<1>2. CASE ApplyEvent
  <2> DEFINE t == Head(events).ul_teid
             e == Head(events).entity
  <2>1. /\ events # <<>> /\ events' = Tail(events) /\ UNCHANGED <<coreVars, responses>>
        /\ apply_upf_event(Head(events))
    BY <1>2 DEF ApplyEvent
  <2>2. CASE Head(events).type = "CreateSession"
    <3>1. create_session_with_teid(t, e, Head(events).ue_ip, 0)
      BY <2>1, <2>2 DEF apply_upf_event
    <3>2. /\ sessions[t] = NoEntry /\ t \in UlTeid /\ e \in EntityId
          /\ \E s \in Session : s.entity = e /\ sessions' = [sessions EXCEPT ![t] = s]
      BY <2>1, <2>2, <3>1, ApplyCreate
    <3> HIDE DEF t, e
    <3>3. SessionOwner' = [SessionOwner EXCEPT ![t] = e]
      BY <1>0, <3>2, OwnerUpdated, NoEntryAssumption
    <3>4. SessionOwner[t] = NoEntry
      BY <3>2 DEF SessionOwner
    <3> QED
      BY <3>2, <3>3, <3>4 DEF Abstract!BearersNext, Abstract!Open
  <2>3. CASE Head(events).type # "CreateSession"
    <3>1. sessions' = sessions
      BY <2>1, <2>3 DEF apply_upf_event, update_bearer_info, remove_session
    <3> QED
      BY <1>1, <3>1
  <2> QED
    BY <2>2, <2>3
<1>3. CASE UpdateRoutes /\ UNCHANGED cpVars
  <2> DEFINE t == call.teid
             s == [sessions[t] EXCEPT !.to = call.to]
  <2>1. /\ t \in UlTeid /\ sessions[t] \in Session
        /\ sessions' = [sessions EXCEPT ![t] = s]
    BY <1>3, ServeUpdate
  <2>2. call.to \in Endpoint
    BY <1>3, UpdateRoutesCore DEF LoopInv
  <2>3. s \in Session /\ s.entity = sessions[t].entity
    BY <2>1, <2>2 DEF Session
  <2> HIDE DEF s, t
  <2>4. SessionOwner' = [SessionOwner EXCEPT ![t] = sessions[t].entity]
    BY <1>0, <2>1, <2>3, OwnerUpdated, NoEntryAssumption
  <2>5. SessionOwner[t] = sessions[t].entity
    BY <2>1, NoEntryAssumption DEF SessionOwner
  <2> QED
    BY <2>1, <2>4, <2>5 DEF SessionOwner
<1>4. CASE UnmirrorUeRoute /\ UNCHANGED cpVars
  <2> DEFINE t == call.teid
  <2>1. t \in UlTeid /\ sessions' = [sessions EXCEPT ![t] = NoEntry]
    BY <1>4, ServeRemove
  <2> HIDE DEF t
  <2>2. SessionOwner' = [SessionOwner EXCEPT ![t] = NoEntry]
    BY <1>0, <2>1, OwnerUpdated
  <2>3. CASE SessionOwner[t] = NoEntry
    BY <2>1, <2>2, <2>3 DEF SessionOwner
  <2>4. CASE SessionOwner[t] # NoEntry
    BY <2>1, <2>2, <2>4 DEF Abstract!BearersNext, Abstract!Close
  <2> QED
    BY <2>3, <2>4
<1>5. CASE Receive(Next) \/ SendResponse \/ UNCHANGED loopVars
  BY <1>1, <1>5 DEF Receive, SendResponse, loopVars, upfVars
<1>6. CASE (MirrorTeid \/ MirrorUeRoute \/ UnmirrorTeid) /\ UNCHANGED cpVars
  BY <1>1, <1>6, ServeMirror
<1> QED
  BY <1>2, <1>3, <1>4, <1>5, <1>6 DEF N3Next, ServeCall, UpfStep

\* The session table of the UPF implements Bearers: a TEID is bound to a
\* context only while it is free (create_session_with_teid, remove_session).
THEOREM N3ImplementsBearers == N3Spec => ImplementsBearers
<1>1. LoopInit => Abstract!BearersInit
  BY DEF LoopInit, UpfInit, Abstract!BearersInit, SessionOwner
<1>2. LoopInv /\ [N3Next]_loopVars => [Abstract!BearersNext]_SessionOwner
  BY BearersStep
<1> QED
  BY <1>1, <1>2, N3Invariant, PTL DEF N3Spec, ImplementsBearers, Abstract!BearersSpec
=============================================================================
