------------------------------ MODULE MmeProofs ------------------------------
(***************************************************************************)
(* The MME keeps its stores consistent for every number of subscribers,    *)
(* entities and TEIDs, and for any order, loss or repetition of the S1AP   *)
(* messages it is sent.                                                    *)
(***************************************************************************)
EXTENDS Mme, CoreLoopProofs

\* The invariant of the MME.
MmeInv == CpInv /\ RegistryPointsHome

\* AttachRequest: the new entity takes over a free id and its IMSI's entry.
LEMMA StartAttachStep ==
    ASSUME MmeInv, NEW imsi \in Imsi \cup {NoImsi}, NEW ran,
           start_attach(imsi, ran)
    PROVE  MmeInv'
<1>1. CASE Drop
  BY <1>1, DropStep DEF Drop, MmeInv, HomesKept
<1>2. CASE ~Drop
  <2> DEFINE v == NextVector(imsi)
             found == ent[SpawnId]
             slot == [found EXCEPT !.imsi = imsi, !.xres = v, !.ck = v,
                                   !.auth = "ChallengeIssued"]
  <2>1. /\ has_subscriber(imsi) /\ generate_auth_vector(imsi)
        /\ spawn(slot) /\ register(imsi, SpawnId)
        /\ UNCHANGED <<teid_next, teid_free>>
    BY <1>2 DEF start_attach
  <2>2. imsi \in Imsi /\ sqn[imsi] \in Nat
    BY <2>1 DEF has_subscriber, MmeInv, CpInv, HssTypeOK
  <2>3. v \in Vector
    BY <2>2 DEF NextVector, Vector
  <2>4. /\ SpawnId \in EntityId /\ ~is_live(SpawnId) /\ found = Empty
        /\ found \in Slot /\ found.tunnel = None
    <3>1. free_ids # <<>> \/ next_id < MaxEntities
      BY <2>1 DEF spawn
    <3> QED
      BY <3>1, SpawnIdFresh, EmptyIsSlot DEF MmeInv, CpInv
  <2> HIDE DEF v, found
  <2>5. slot \in Slot /\ slot.tunnel = None /\ slot.imsi = imsi
    BY <2>2, <2>3, <2>4 DEF Slot, AuthState
  <2> HIDE DEF slot
  <2> DEFINE new == [slot EXCEPT !.live = TRUE]
  <2>6. /\ WorldInv'
        /\ ent' = [ent EXCEPT ![SpawnId] = new]
        /\ LiveIds' = LiveIds \cup {SpawnId}
    BY <2>1, <2>5, SpawnStep DEF MmeInv, CpInv
  <2>7. new.tunnel = None /\ new.imsi = imsi /\ new.live = TRUE
    BY <2>5 DEF Slot
  <2> HIDE DEF new
  <2>8. /\ ent'[SpawnId] = new
        /\ \A f \in EntityId \ {SpawnId} : ent'[f] = ent[f]
    BY <2>4, <2>6 DEF MmeInv, CpInv, WorldInv, WorldTypeOK
  <2>9. AllocatorInv /\ TunnelsOwn
    BY TeidPoolSplit DEF MmeInv, CpInv
  <2>10. \A f \in LiveIds' : ent'[f].tunnel # None =>
            f \in LiveIds /\ ent'[f].tunnel = ent[f].tunnel
    BY <2>4, <2>6, <2>7, <2>8 DEF LiveIds
  <2>11. TunnelsOwn'
    BY <2>1, <2>9, <2>10, TunnelsKept
  <2>12. AllocatorInv'
    BY <2>1, <2>9 DEF AllocatorInv, TeidTypeOK, Issued
  <2>13. TeidTypeOK' /\ TeidPool'
    BY <2>11, <2>12 DEF AllocatorInv, TunnelsOwn, TeidPool
  <2>14. RegistryTypeOK'
    BY <2>1, <2>2, <2>4 DEF register, MmeInv, CpInv, RegistryTypeOK
  <2>15. HssTypeOK'
    BY <2>1, <2>2, HssAssumption DEF generate_auth_vector, MmeInv, CpInv, HssTypeOK
  <2>16. RegistryPointsHome'
    BY <2>1, <2>2, <2>4, <2>7, <2>8
       DEF register, RegistryPointsHome, MmeInv, CpInv, RegistryTypeOK, is_live
  <2> QED
    BY <2>6, <2>13, <2>14, <2>15, <2>16 DEF MmeInv, CpInv
<1> QED
  BY <1>1, <1>2

\* UplinkNasTransport, whatever it carries.
LEMMA UplinkNasStep ==
    ASSUME MmeInv, NEW e \in EntityId, NEW ran, NEW sec \in Security, NEW pdu,
           handle_uplink_nas(e, ran, sec, pdu)
    PROVE  MmeInv'
<1> DEFINE s == Unwrapped(e, sec)
<1>1. CASE ~Accepted(e, sec)
  BY <1>1, DropStep DEF handle_uplink_nas, Drop, MmeInv, HomesKept
<1>2. CASE Accepted(e, sec)
  <2>1. SlotView(e, s)
    BY <1>2, UnwrappedView DEF MmeInv
  <2>2. \/ handle_auth_response(e, ran, s, pdu.res)
        \/ handle_security_mode_complete(e, ran, s)
        \/ handle_attach_complete(e, s)
        \/ handle_detach_request(e, ran, s, pdu.switch_off)
        \/ Ignore(e, s)
    BY <1>2 DEF handle_uplink_nas
  <2> HIDE DEF s
  <2>3. CASE handle_auth_response(e, ran, s, pdu.res)
    BY <2>1, <2>3, VerifyResStep DEF handle_auth_response, MmeInv, HomesKept
  <2>4. CASE handle_security_mode_complete(e, ran, s)
    BY <2>1, <2>4, ActivateNasStep DEF handle_security_mode_complete, MmeInv, HomesKept
  <2>5. CASE handle_detach_request(e, ran, s, pdu.switch_off)
    BY <2>1, <2>5, DetachStep DEF handle_detach_request, MmeInv, HomesKept
  <2>6. CASE handle_attach_complete(e, s) \/ Ignore(e, s)
    BY <2>1, <2>6, IgnoreStep DEF handle_attach_complete, MmeInv, HomesKept
  <2> QED
    BY <2>2, <2>3, <2>4, <2>5, <2>6
<1> QED
  BY <1>1, <1>2

\* Every step of the MME preserves the invariant.
LEMMA MmeInvInductive == MmeInv /\ [Next]_cpVars => MmeInv'
<1> SUFFICES ASSUME MmeInv, [Next]_cpVars PROVE MmeInv'
  OBVIOUS
<1>1. CASE UNCHANGED cpVars
  BY <1>1, DropStep DEF cpVars, coreVars, MmeInv, HomesKept
<1>2. ASSUME NEW imsi \in Imsi \cup {NoImsi}, NEW ran \in RanId, start_attach(imsi, ran)
      PROVE  MmeInv'
  BY <1>2, StartAttachStep
<1>3. ASSUME NEW e \in EntityId, NEW ran \in RanId, NEW sec \in Security,
             NEW pdu \in UplinkPdu, handle_uplink_nas(e, ran, sec, pdu)
      PROVE  MmeInv'
  BY <1>3, UplinkNasStep
<1>4. ASSUME NEW e \in EntityId, NEW dl \in DlTeid \cup {None}, handle_icsrsp(e, dl)
      PROVE  MmeInv'
  BY <1>4, BearerSetUpStep DEF handle_icsrsp, MmeInv, HomesKept
<1>5. ASSUME NEW e \in EntityId, handle_release_complete(e)
      PROVE  MmeInv'
  BY <1>5, TeardownStep DEF handle_release_complete, MmeInv, HomesKept
<1> QED
  BY <1>1, <1>2, <1>3, <1>4, <1>5 DEF Next

\* The invariant holds in every state the MME reaches (process_s1ap).
THEOREM MmeInvariant == Spec => []MmeInv
<1>1. Init => MmeInv
  BY CpInitInv DEF Init, MmeInv
<1>2. MmeInv /\ [Next]_cpVars => MmeInv'
  BY MmeInvInductive
<1> QED
  BY <1>1, <1>2, PTL DEF Spec

\* Every component of the MME's state keeps its type.
THEOREM MmeTypeCorrect == Spec => []TypeOK
<1>1. MmeInv => TypeOK
  BY DEF MmeInv, CpInv, WorldInv, TypeOK, CpTypeOK
<1> QED
  BY <1>1, MmeInvariant, PTL

\* World::spawn and World::despawn recycle ids exactly: an id is handed out
\* only while nobody uses it, and no id is lost.
THEOREM MmeEntityPool == Spec => []EntityPool
<1>1. MmeInv => EntityPool
  BY DEF MmeInv, CpInv, WorldInv
<1> QED
  BY <1>1, MmeInvariant, PTL

\* World::despawn leaves nothing of a subscriber in the slot spawn reuses.
THEOREM MmeDeadSlotsEmpty == Spec => []DeadSlotsEmpty
<1>1. MmeInv => DeadSlotsEmpty
  BY DEF MmeInv, CpInv, WorldInv
<1> QED
  BY <1>1, MmeInvariant, PTL

\* World::subscriber_count() is the number of live entities.
THEOREM MmeCountMatches == Spec => []CountMatches
<1>1. MmeInv => CountMatches
  BY DEF MmeInv, CpInv, WorldInv
<1> QED
  BY <1>1, MmeInvariant, PTL

\* No two subscribers share an uplink TEID, and TeidAllocator::alloc never
\* returns one that is in use.
THEOREM MmeTeidPool == Spec => []TeidPool
<1>1. MmeInv => TeidPool
  BY DEF MmeInv, CpInv
<1> QED
  BY <1>1, MmeInvariant, PTL

\* The IMSI index names only live entities of that IMSI (register in
\* start_attach, deregister in handle_release_complete).
THEOREM MmeRegistryPointsHome == Spec => []RegistryPointsHome
<1>1. MmeInv => RegistryPointsHome
  BY DEF MmeInv
<1> QED
  BY <1>1, MmeInvariant, PTL

-----------------------------------------------------------------------------
(* Key material.                                                           *)

\* AttachRequest: the new vector goes to the new entity.
LEMMA StartAttachKeys ==
    ASSUME MmeInv, NEW imsi \in Imsi \cup {NoImsi}, NEW ran,
           start_attach(imsi, ran)
    PROVE  Handled \/ (Vended(imsi, SpawnId) /\ ent[SpawnId].nas = None)
<1>1. CASE Drop
  BY <1>1, DropHandled DEF Drop, MmeInv
<1>2. CASE ~Drop
  <2> DEFINE v == NextVector(imsi)
             slot == [ent[SpawnId] EXCEPT !.imsi = imsi, !.xres = v, !.ck = v,
                                          !.auth = "ChallengeIssued"]
             new == [slot EXCEPT !.live = TRUE]
  <2>1. has_subscriber(imsi) /\ generate_auth_vector(imsi) /\ spawn(slot)
    BY <1>2 DEF start_attach
  <2>2. imsi \in Imsi /\ sqn[imsi] \in Nat
    BY <2>1 DEF has_subscriber, MmeInv, CpInv, HssTypeOK
  <2>3. SpawnId \in EntityId /\ ent[SpawnId] = Empty
    BY <2>1, SpawnIdFresh DEF spawn, MmeInv, CpInv
  <2>4. ent' = [ent EXCEPT ![SpawnId] = new]
    BY <2>1 DEF spawn
  <2>5. /\ new.live = TRUE /\ new.imsi = imsi /\ new.xres = v /\ new.ck = v
        /\ new.nas = None /\ Empty.nas = None
    BY <2>3 DEF Empty
  <2> HIDE DEF v, new
  <2>6. ent'[SpawnId] = new /\ \A f \in EntityId \ {SpawnId} : ent'[f] = ent[f]
    BY <2>3, <2>4 DEF MmeInv, CpInv, WorldInv, WorldTypeOK
  <2> QED
    BY <2>1, <2>2, <2>3, <2>5, <2>6 DEF Vended, v
<1> QED
  BY <1>1, <1>2

\* UplinkNasTransport makes no vector, whatever it carries.
LEMMA UplinkNasKeys ==
    ASSUME MmeInv, NEW e \in EntityId, NEW ran, NEW sec \in Security, NEW pdu,
           handle_uplink_nas(e, ran, sec, pdu)
    PROVE  Handled
<1> DEFINE s == Unwrapped(e, sec)
<1>0. CpInv
  BY DEF MmeInv
<1>1. CASE ~Accepted(e, sec)
  BY <1>0, <1>1, DropHandled DEF handle_uplink_nas, Drop
<1>2. CASE Accepted(e, sec)
  <2>1. Opened(e, s)
    BY <1>0, <1>2, UnwrappedOpened
  <2>2. \/ handle_auth_response(e, ran, s, pdu.res)
        \/ handle_security_mode_complete(e, ran, s)
        \/ handle_attach_complete(e, s)
        \/ handle_detach_request(e, ran, s, pdu.switch_off)
        \/ Ignore(e, s)
    BY <1>2 DEF handle_uplink_nas
  <2> HIDE DEF s
  <2>3. CASE handle_auth_response(e, ran, s, pdu.res)
    BY <1>0, <2>1, <2>3, VerifyResHandled DEF handle_auth_response
  <2>4. CASE handle_security_mode_complete(e, ran, s)
    BY <1>0, <2>1, <2>4, ActivateNasHandled DEF handle_security_mode_complete
  <2>5. CASE handle_detach_request(e, ran, s, pdu.switch_off)
    BY <1>0, <2>1, <2>5, DetachHandled DEF handle_detach_request
  <2>6. CASE handle_attach_complete(e, s) \/ Ignore(e, s)
    BY <1>0, <2>1, <2>6, IgnoreHandled DEF handle_attach_complete
  <2> QED
    BY <2>2, <2>3, <2>4, <2>5, <2>6
<1> QED
  BY <1>1, <1>2

\* A step of the MME makes no vector, or one for an entity it has just spawned.
LEMMA MmeKeySteps ==
    ASSUME MmeInv, [Next]_cpVars
    PROVE  Handled \/ \E imsi, e : Vended(imsi, e) /\ ent[e].nas = None
<1>0. CpInv
  BY DEF MmeInv
<1>1. CASE UNCHANGED cpVars
  BY <1>0, <1>1, HandledIdle DEF cpVars
<1>2. ASSUME NEW imsi \in Imsi \cup {NoImsi}, NEW ran \in RanId, start_attach(imsi, ran)
      PROVE  Handled \/ (Vended(imsi, SpawnId) /\ ent[SpawnId].nas = None)
  BY <1>2, StartAttachKeys
<1>3. ASSUME NEW e \in EntityId, NEW ran \in RanId, NEW sec \in Security,
             NEW pdu \in UplinkPdu, handle_uplink_nas(e, ran, sec, pdu)
      PROVE  Handled
  BY <1>3, UplinkNasKeys
<1>4. ASSUME NEW e \in EntityId, NEW dl \in DlTeid \cup {None}, handle_icsrsp(e, dl)
      PROVE  Handled
  BY <1>0, <1>4, BearerSetUpHandled DEF handle_icsrsp
<1>5. ASSUME NEW e \in EntityId, handle_release_complete(e)
      PROVE  Handled
  BY <1>0, <1>5, TeardownHandled DEF handle_release_complete
<1> QED
  BY <1>1, <1>2, <1>3, <1>4, <1>5 DEF Next

\* The MME never gives an entity key material of another subscriber: start_attach
\* writes IMSI and vector together, and a recycled slot starts empty.
THEOREM MmeKeysStayHome == Spec => []KeysStayHome
<1>1. Init => KeysStayHome
  BY KeysInit DEF Init
<1>2. MmeInv /\ KeysStayHome /\ [Next]_cpVars => KeysStayHome'
  BY MmeKeySteps, HandledStaysHome, VendedStaysHome
<1> QED
  BY <1>1, <1>2, MmeInvariant, PTL DEF Spec

\* Every vector in use was issued, and to one entity.
Apart == KeysIssued /\ KeysUnshared

\* Every step keeps the vectors apart and uses none of them twice, while the
\* SQN counter has not wrapped.
LEMMA MmeApartStep ==
    ASSUME NoSqnWrap, MmeInv, Apart, [Next]_cpVars
    PROVE  Apart' /\ \A v \in Vectors : SpentOnce(v)
<1>1. CASE Handled
  BY <1>1, HandledApart, HandledSpends DEF Apart
<1>2. ASSUME NEW imsi, NEW e, Vended(imsi, e)
      PROVE  Apart' /\ \A v \in Vectors : SpentOnce(v)
  BY <1>2, VendedApart, VendedSpends DEF Apart, MmeInv
<1> QED
  BY <1>1, <1>2, MmeKeySteps

\* No two entities of the MME ever hold material from one SQN, for as long as
\* the SQN counter has not wrapped (Hss::generate_auth_vector).
THEOREM MmeKeysUnshared ==
    ASSUME NoSqnWrap
    PROVE  Spec => []KeysUnshared
<1>1. Init => Apart
  BY KeysInit DEF Init, Apart
<1>2. MmeInv /\ Apart /\ [Next]_cpVars => Apart'
  BY MmeApartStep
<1>3. Apart => KeysUnshared
  BY DEF Apart
<1> QED
  BY <1>1, <1>2, <1>3, MmeInvariant, PTL DEF Spec

\* A vector keys one NAS context of the MME, once, for as long as the SQN
\* counter has not wrapped: SecurityModeComplete takes the CK away from the only
\* entity that holds it, and no later message brings it back
\* (handle_security_mode_complete, Hss::generate_auth_vector).
THEOREM MmeVectorsSpentOnce ==
    ASSUME NoSqnWrap
    PROVE  Spec => VectorsSpentOnce
<1>1. Init => Apart
  BY KeysInit DEF Init, Apart
<1>2. MmeInv /\ Apart /\ [Next]_cpVars => Apart' /\ \A v \in Vectors : SpentOnce(v)
  BY MmeApartStep
<1>3. Spec => [][\A v \in Vectors : SpentOnce(v)]_cpVars
  BY <1>1, <1>2, MmeInvariant, PTL DEF Spec
<1> QED
  BY <1>3, PTL DEF VectorsSpentOnce, SpentOnce
=============================================================================
