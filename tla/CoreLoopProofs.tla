--------------------------- MODULE CoreLoopProofs ---------------------------
(***************************************************************************)
(* What every handler the MME and the AMF share preserves, and that a      *)
(* control plane and its UPF stay in step, for any number of subscribers,  *)
(* entities, TEIDs and addresses.  Modules MmeProofs and AmfProofs put the *)
(* steps together.                                                         *)
(***************************************************************************)
EXTENDS CoreLoop, UpfProofs, FiniteSetTheorems


\* The part of the invariant that is about World alone.
WorldInv ==
    /\ WorldTypeOK
    /\ EntityPool
    /\ DeadSlotsEmpty
    /\ CountMatches

\* The invariant of both cores.
CpInv ==
    /\ WorldInv
    /\ RegistryTypeOK
    /\ TeidTypeOK
    /\ HssTypeOK
    /\ TeidPool

-----------------------------------------------------------------------------
(* A Vec used as a free list: pushed and popped at its end, and holding no *)
(* element twice.  World::free_ids and TeidAllocator::free are such lists. *)

\* The empty list holds nothing.
LEMMA EmptyList ==
    /\ IsInjective(<<>>)
    /\ Range(<<>>) = {}
BY DEF IsInjective, Range

\* Pushing an element the list does not hold: the list still holds nothing
\* twice, and the new element is all that it gained.
LEMMA Push ==
    ASSUME NEW S, NEW s \in Seq(S), NEW x \in S
    PROVE  /\ Append(s, x) \in Seq(S)
           /\ Range(Append(s, x)) = Range(s) \cup {x}
           /\ (IsInjective(s) /\ x \notin Range(s)) => IsInjective(Append(s, x))
<1>1. /\ Append(s, x) \in Seq(S)
      /\ Len(Append(s, x)) = Len(s) + 1
      /\ DOMAIN s = 1 .. Len(s)
      /\ DOMAIN Append(s, x) = 1 .. Len(s) + 1
      /\ \A i \in 1 .. Len(s) : Append(s, x)[i] = s[i]
      /\ Append(s, x)[Len(s) + 1] = x
  OBVIOUS
<1>2. Len(s) \in Nat
  OBVIOUS
<1>3. Range(Append(s, x)) = Range(s) \cup {x}
  BY <1>1, <1>2 DEF Range
<1>4. ASSUME IsInjective(s), x \notin Range(s)
      PROVE  IsInjective(Append(s, x))
  BY <1>1, <1>2, <1>4 DEF Range, IsInjective
<1> QED
  BY <1>1, <1>3, <1>4

\* Popping: the last element leaves, nothing else changes.
LEMMA Pop ==
    ASSUME NEW S, NEW s \in Seq(S), s # <<>>, IsInjective(s)
    PROVE  /\ Last(s) \in S
           /\ Last(s) \in Range(s)
           /\ Front(s) \in Seq(S)
           /\ IsInjective(Front(s))
           /\ Range(Front(s)) = Range(s) \ {Last(s)}
<1>1. Len(s) \in Nat \ {0} /\ DOMAIN s = 1 .. Len(s)
  OBVIOUS
<1>2. /\ Front(s) \in Seq(S)
      /\ DOMAIN Front(s) = 1 .. Len(s) - 1
      /\ \A i \in 1 .. Len(s) - 1 : Front(s)[i] = s[i]
  BY <1>1 DEF Front
<1>3. Last(s) \in S /\ Last(s) \in Range(s)
  BY <1>1 DEF Last, Range
<1>4. IsInjective(Front(s))
  BY <1>1, <1>2 DEF IsInjective
<1>5. Range(Front(s)) = Range(s) \ {Last(s)}
  BY <1>1, <1>2 DEF IsInjective, Range, Last
<1> QED
  BY <1>2, <1>3, <1>4, <1>5

-----------------------------------------------------------------------------
(* World.                                                                  *)

\* The Empty slot is a slot (World::spawn, World::despawn).
LEMMA EmptyIsSlot == Empty \in Slot /\ Empty.live = FALSE /\ Empty.tunnel = None
BY DEF Empty, Slot, AuthState

\* There are finitely many entities, so live ones can be counted.
LEMMA LiveIdsFinite == WorldTypeOK => IsFiniteSet(LiveIds)
<1>1. IsFiniteSet(EntityId)
  BY FS_Interval, WorldAssumption DEF EntityId
<1> QED
  BY <1>1, FS_Subset DEF LiveIds

\* A fresh World satisfies the invariant.
LEMMA WorldInitInv == WorldInit => WorldInv
<1> SUFFICES ASSUME WorldInit PROVE WorldInv
  OBVIOUS
<1>1. WorldTypeOK
  BY EmptyIsSlot, WorldAssumption DEF WorldInit, WorldTypeOK
<1>2. \A e \in EntityId : ~is_live(e) /\ ent[e] = Empty
  BY EmptyIsSlot DEF WorldInit, is_live
<1>3. EntityPool
  BY <1>2, EmptyList DEF WorldInit, EntityPool, EntityId
<1>4. CountMatches
  BY <1>2, FS_EmptySet DEF WorldInit, CountMatches, LiveIds
<1> QED
  BY <1>1, <1>2, <1>3, <1>4 DEF WorldInv, DeadSlotsEmpty

\* The id spawn returns is in range and not in use, and its slot is empty:
\* a recycled slot brings nothing of its last owner along.
LEMMA SpawnIdFresh ==
    ASSUME WorldInv, free_ids # <<>> \/ next_id < MaxEntities
    PROVE  SpawnId \in EntityId /\ ~is_live(SpawnId) /\ ent[SpawnId] = Empty
<1>1. CASE free_ids # <<>>
  <2>1. Last(free_ids) \in Range(free_ids)
    BY <1>1, Pop DEF WorldInv, WorldTypeOK, EntityPool
  <2> QED
    BY <1>1, <2>1 DEF WorldInv, EntityPool, DeadSlotsEmpty, SpawnId
<1>2. CASE free_ids = <<>>
  <2>1. SpawnId = next_id /\ next_id \in EntityId
    BY <1>2, WorldAssumption DEF WorldInv, WorldTypeOK, SpawnId, EntityId
  <2> QED
    BY <2>1, WorldAssumption DEF WorldInv, WorldTypeOK, EntityPool, DeadSlotsEmpty, EntityId
<1> QED
  BY <1>1, <1>2

\* spawn and the writes that follow it keep the pool exact.
LEMMA SpawnStep ==
    ASSUME WorldInv, NEW slot \in Slot, spawn(slot)
    PROVE  /\ WorldInv'
           /\ SpawnId \in EntityId /\ ~is_live(SpawnId)
           /\ ent' = [ent EXCEPT ![SpawnId] = [slot EXCEPT !.live = TRUE]]
           /\ LiveIds' = LiveIds \cup {SpawnId}
<1> DEFINE new == [slot EXCEPT !.live = TRUE]
<1>0. SpawnId \in EntityId /\ ~is_live(SpawnId)
  BY SpawnIdFresh DEF spawn
<1>1. new \in Slot /\ new.live = TRUE
  BY DEF Slot
<1>2. ent' = [ent EXCEPT ![SpawnId] = new] /\ ent' \in [EntityId -> Slot]
  BY <1>0, <1>1 DEF spawn, WorldInv, WorldTypeOK
<1> HIDE DEF new
<1>3. \A e \in EntityId : is_live(e)' <=> (is_live(e) \/ e = SpawnId)
  BY <1>0, <1>1, <1>2 DEF is_live, WorldInv, WorldTypeOK, Slot
<1>4. LiveIds' = LiveIds \cup {SpawnId}
  BY <1>0, <1>3 DEF LiveIds
<1>5. DeadSlotsEmpty'
  BY <1>0, <1>2, <1>3 DEF DeadSlotsEmpty, WorldInv, WorldTypeOK
<1>6. CountMatches'
  <2>1. SpawnId \notin LiveIds
    BY <1>0 DEF LiveIds
  <2>2. Cardinality(LiveIds \cup {SpawnId}) = Cardinality(LiveIds) + 1
    BY <2>1, FS_AddElement, LiveIdsFinite DEF WorldInv
  <2> QED
    BY <1>4, <2>2 DEF CountMatches, WorldInv, spawn
<1>7. WorldTypeOK' /\ EntityPool'
  <2>1. CASE free_ids # <<>>
    <3>1. /\ next_id' = next_id /\ free_ids' = Front(free_ids)
          /\ SpawnId = Last(free_ids)
          /\ live_count' = live_count + 1
      BY <2>1 DEF spawn, SpawnId
    <3>2. /\ free_ids' \in Seq(EntityId)
          /\ IsInjective(free_ids')
          /\ Range(free_ids') = Range(free_ids) \ {SpawnId}
          /\ SpawnId \in Range(free_ids)
      BY <2>1, <3>1, Pop DEF WorldInv, WorldTypeOK, EntityPool
    <3>3. SpawnId < next_id
      BY <3>2 DEF WorldInv, EntityPool
    <3>4. WorldTypeOK'
      BY <1>2, <3>1, <3>2 DEF WorldInv, WorldTypeOK
    <3>5. Range(free_ids') = {e \in EntityId : e < next_id' /\ ~is_live(e)'}
      BY <1>3, <3>1, <3>2 DEF WorldInv, EntityPool
    <3>6. \A e \in EntityId : e >= next_id' => ~is_live(e)'
      BY <1>3, <3>1, <3>3, <1>0 DEF WorldInv, WorldTypeOK, EntityPool, EntityId
    <3> QED
      BY <3>2, <3>4, <3>5, <3>6 DEF EntityPool
  <2>2. CASE free_ids = <<>>
    <3>1. /\ next_id' = next_id + 1 /\ free_ids' = free_ids
          /\ SpawnId = next_id /\ next_id < MaxEntities
          /\ live_count' = live_count + 1
      BY <2>2 DEF spawn, SpawnId
    <3>2. WorldTypeOK'
      BY <1>2, <3>1, WorldAssumption DEF WorldInv, WorldTypeOK
    <3>3. \A e \in EntityId : e < next_id' <=> e < next_id \/ e = SpawnId
      BY <3>1, WorldAssumption DEF WorldInv, WorldTypeOK, EntityId
    <3>4. Range(free_ids') = {e \in EntityId : e < next_id' /\ ~is_live(e)'}
      <4>1. Range(free_ids') = {e \in EntityId : e < next_id /\ ~is_live(e)}
        BY <3>1 DEF WorldInv, EntityPool
      <4>2. \A e \in EntityId : (e < next_id' /\ ~is_live(e)')
                               <=> (e < next_id /\ ~is_live(e))
        BY <1>3, <3>1, <3>3, WorldAssumption DEF WorldInv, WorldTypeOK, EntityId
      <4> QED
        BY <4>1, <4>2
    <3>5. \A e \in EntityId : e >= next_id' => ~is_live(e)'
      BY <1>3, <3>1, WorldAssumption DEF WorldInv, WorldTypeOK, EntityPool, EntityId
    <3> QED
      BY <3>1, <3>2, <3>4, <3>5 DEF EntityPool, WorldInv
  <2> QED
    BY <2>1, <2>2
<1> QED
  BY <1>0, <1>2, <1>4, <1>5, <1>6, <1>7 DEF WorldInv, new

\* despawn gives the id back once; on an id that is not live it does nothing.
LEMMA DespawnStep ==
    ASSUME WorldInv, NEW e \in EntityId, despawn(e)
    PROVE  /\ WorldInv'
           /\ LiveIds' = LiveIds \ {e}
           /\ \A f \in EntityId \ {e} : ent'[f] = ent[f]
<1>1. CASE ~is_live(e)
  BY <1>1 DEF despawn, worldVars, WorldInv, WorldTypeOK, EntityPool,
              DeadSlotsEmpty, CountMatches, LiveIds, is_live
<1>2. CASE is_live(e)
  <2>1. /\ ent' = [ent EXCEPT ![e] = Empty]
        /\ free_ids' = Append(free_ids, e)
        /\ live_count' = live_count - 1
        /\ next_id' = next_id
    BY <1>2 DEF despawn
  <2>2. ent' \in [EntityId -> Slot] /\ \A f \in EntityId \ {e} : ent'[f] = ent[f]
    BY <2>1, EmptyIsSlot DEF WorldInv, WorldTypeOK
  <2>3. \A f \in EntityId : is_live(f)' <=> (is_live(f) /\ f # e)
    BY <2>1, EmptyIsSlot DEF is_live, WorldInv, WorldTypeOK, Slot
  <2>4. LiveIds' = LiveIds \ {e}
    BY <2>3 DEF LiveIds
  <2>5. e \notin Range(free_ids) /\ e < next_id
    BY <1>2 DEF WorldInv, WorldTypeOK, EntityPool, EntityId
  <2>6. /\ free_ids' \in Seq(EntityId)
        /\ IsInjective(free_ids')
        /\ Range(free_ids') = Range(free_ids) \cup {e}
    BY <2>1, <2>5, Push DEF WorldInv, WorldTypeOK, EntityPool
  <2>7. WorldTypeOK'
    BY <2>1, <2>2, <2>6 DEF WorldInv, WorldTypeOK
  <2>8. EntityPool'
    BY <2>1, <2>3, <2>5, <2>6 DEF WorldInv, EntityPool
  <2>9. DeadSlotsEmpty'
    BY <2>1, <2>2, <2>3 DEF WorldInv, WorldTypeOK, DeadSlotsEmpty
  <2>10. CountMatches'
    <3>1. Cardinality(LiveIds \ {e}) = Cardinality(LiveIds) - 1
      BY <1>2, FS_RemoveElement, LiveIdsFinite DEF WorldInv, LiveIds
    <3> QED
      BY <2>1, <2>4, <3>1 DEF WorldInv, CountMatches
  <2> QED
    BY <2>2, <2>4, <2>7, <2>8, <2>9, <2>10 DEF WorldInv
<1> QED
  BY <1>1, <1>2

\* Writing the components of one entity: a live one stays live, a dead one
\* may only be rewritten with what it holds.
LEMMA SetSlotStep ==
    ASSUME WorldInv, NEW e \in EntityId, NEW s \in Slot,
           s.live = ent[e].live, ~is_live(e) => s = ent[e],
           ent' = [ent EXCEPT ![e] = s],
           UNCHANGED <<next_id, free_ids, live_count>>
    PROVE  /\ WorldInv'
           /\ LiveIds' = LiveIds
<1>1. ent' \in [EntityId -> Slot]
  BY DEF WorldInv, WorldTypeOK
<1>2. \A f \in EntityId : is_live(f)' <=> is_live(f)
  BY DEF is_live, WorldInv, WorldTypeOK
<1>3. LiveIds' = LiveIds
  BY <1>2 DEF LiveIds
<1>4. DeadSlotsEmpty'
  BY <1>2 DEF WorldInv, WorldTypeOK, DeadSlotsEmpty
<1> QED
  BY <1>1, <1>2, <1>3, <1>4
     DEF WorldInv, WorldTypeOK, EntityPool, CountMatches

-----------------------------------------------------------------------------
(* TeidAllocator.                                                          *)

\* The part of TeidPool that is about the allocator alone.
AllocatorInv ==
    /\ TeidTypeOK
    /\ IsInjective(teid_free)
    /\ Range(teid_free) \subseteq Issued

\* A fresh allocator satisfies it and has nothing allocated.
LEMMA TeidInitInv == TeidInit => AllocatorInv /\ Allocated = {}
<1> SUFFICES ASSUME TeidInit PROVE AllocatorInv /\ Allocated = {}
  OBVIOUS
<1>1. AllocatorInv
  BY EmptyList, TeidAssumption DEF TeidInit, AllocatorInv, TeidTypeOK
<1>2. Issued = {}
  BY TeidAssumption DEF TeidInit, Issued, Teid
<1> QED
  BY <1>1, <1>2 DEF Allocated

\* alloc returns a TEID that was not allocated, and allocates nothing else.
LEMMA AllocStep ==
    ASSUME AllocatorInv, alloc
    PROVE  /\ AllocatorInv'
           /\ AllocTeid \in Teid
           /\ AllocTeid \notin Allocated
           /\ Allocated' = Allocated \cup {AllocTeid}
<1>1. CASE teid_free # <<>>
  <2>1. /\ teid_free' = Front(teid_free) /\ teid_next' = teid_next
        /\ AllocTeid = Last(teid_free)
    BY <1>1 DEF alloc, AllocTeid
  <2>2. /\ AllocTeid \in Range(teid_free)
        /\ teid_free' \in Seq(Teid)
        /\ IsInjective(teid_free')
        /\ Range(teid_free') = Range(teid_free) \ {AllocTeid}
    BY <1>1, <2>1, Pop DEF AllocatorInv, TeidTypeOK
  <2>3. Issued' = Issued
    BY <2>1 DEF Issued
  <2> QED
    BY <2>1, <2>2, <2>3 DEF AllocatorInv, TeidTypeOK, Allocated, Issued
<1>2. CASE teid_free = <<>>
  <2>1. /\ teid_free' = teid_free /\ teid_next' = teid_next + 1
        /\ AllocTeid = teid_next /\ teid_next < MaxTeid
    BY <1>2 DEF alloc, AllocTeid
  <2>2. AllocTeid \in Teid /\ AllocTeid \notin Issued /\ teid_next' \in TeidBase .. MaxTeid
    BY <2>1, TeidAssumption DEF AllocatorInv, TeidTypeOK, Teid, Issued
  <2>3. Issued' = Issued \cup {AllocTeid}
    BY <2>1, <2>2, TeidAssumption DEF AllocatorInv, TeidTypeOK, Teid, Issued
  <2> QED
    BY <2>1, <2>2, <2>3 DEF AllocatorInv, TeidTypeOK, Allocated
<1> QED
  BY <1>1, <1>2

\* release of an allocated TEID frees it and nothing else.
LEMMA ReleaseStep ==
    ASSUME AllocatorInv, NEW t \in Allocated, release(t)
    PROVE  AllocatorInv' /\ Allocated' = Allocated \ {t}
<1>1. t \in Teid /\ t \in Issued /\ t \notin Range(teid_free)
  BY DEF Allocated, Issued
<1>2. /\ teid_free' \in Seq(Teid)
      /\ IsInjective(teid_free')
      /\ Range(teid_free') = Range(teid_free) \cup {t}
  BY <1>1, Push DEF AllocatorInv, TeidTypeOK, release
<1>3. teid_next' = teid_next /\ Issued' = Issued
  BY DEF release, Issued
<1> QED
  BY <1>1, <1>2, <1>3 DEF AllocatorInv, TeidTypeOK, Allocated

-----------------------------------------------------------------------------
(* Tunnels and the allocator together.                                     *)

\* TeidPool is the allocator's invariant plus: tunnels use allocated TEIDs,
\* one each.
TunnelsOwn ==
    \A e \in LiveIds : ent[e].tunnel # None =>
        /\ ent[e].tunnel.ul_teid \in Allocated
        /\ \A f \in LiveIds \ {e} : ent[f].tunnel # None =>
              ent[f].tunnel.ul_teid # ent[e].tunnel.ul_teid

\* The two ways to state the TEID invariant.
LEMMA TeidPoolSplit == (TeidTypeOK /\ TeidPool) <=> (AllocatorInv /\ TunnelsOwn)
BY DEF TeidPool, AllocatorInv, TunnelsOwn

\* Tunnels stay as they were, on at most the entities that were live.
LEMMA TunnelsKept ==
    ASSUME TunnelsOwn, UNCHANGED <<teid_next, teid_free>>,
           \A e \in LiveIds' : ent'[e].tunnel # None =>
                e \in LiveIds /\ ent'[e].tunnel = ent[e].tunnel
    PROVE  TunnelsOwn'
<1>1. Allocated' = Allocated
  BY DEF Allocated, Issued
<1> QED
  BY <1>1 DEF TunnelsOwn

\* An entity's tunnel is replaced by one with the TEID alloc returns.
LEMMA TunnelReplaced ==
    ASSUME AllocatorInv, TunnelsOwn, alloc, LiveIds' = LiveIds,
           NEW e \in LiveIds, ent'[e].tunnel.ul_teid = AllocTeid,
           \A f \in LiveIds \ {e} : ent'[f].tunnel = ent[f].tunnel
    PROVE  TunnelsOwn'
BY AllocStep DEF TunnelsOwn

\* An entity's tunnel keeps its uplink TEID.
LEMMA TunnelCompleted ==
    ASSUME TunnelsOwn, UNCHANGED <<teid_next, teid_free>>, LiveIds' = LiveIds,
           NEW e \in LiveIds, ent[e].tunnel # None,
           ent'[e].tunnel.ul_teid = ent[e].tunnel.ul_teid,
           \A f \in LiveIds \ {e} : ent'[f].tunnel = ent[f].tunnel
    PROVE  TunnelsOwn'
<1>1. Allocated' = Allocated
  BY DEF Allocated, Issued
<1> QED
  BY <1>1 DEF TunnelsOwn

\* An entity goes and its TEID is released.
LEMMA TunnelReleased ==
    ASSUME AllocatorInv, TunnelsOwn, NEW e \in LiveIds, ent[e].tunnel # None,
           release(ent[e].tunnel.ul_teid), LiveIds' = LiveIds \ {e},
           \A f \in LiveIds \ {e} : ent'[f].tunnel = ent[f].tunnel
    PROVE  TunnelsOwn'
BY ReleaseStep DEF TunnelsOwn

-----------------------------------------------------------------------------
(* Handlers.                                                               *)

\* What decode_protected may have changed: s is the slot of e up to the key
\* material and the authentication state, and exactly it when e is not live.
SlotView(e, s) ==
    /\ s \in Slot
    /\ s.live = ent[e].live
    /\ s.imsi = ent[e].imsi
    /\ s.tunnel = ent[e].tunnel
    /\ ~is_live(e) => s = ent[e]

\* The registry stays sound as long as nothing it depends on changes.
HomesKept == RegistryPointsHome => RegistryPointsHome'

\* An early return changes nothing (Drop).
LEMMA DropStep == CpInv /\ UNCHANGED coreVars => CpInv' /\ HomesKept
BY DEF coreVars, CpInv, WorldInv, WorldTypeOK, EntityPool, DeadSlotsEmpty,
       CountMatches, LiveIds, is_live, RegistryTypeOK, TeidTypeOK, HssTypeOK,
       TeidPool, Allocated, Issued, HomesKept, RegistryPointsHome

\* Unwrapping a protected PDU only touches the NAS context of a live entity.
LEMMA UnwrappedView ==
    ASSUME CpInv, NEW e \in EntityId, NEW sec \in Security, Accepted(e, sec)
    PROVE  SlotView(e, Unwrapped(e, sec))
<1>1. ent[e] \in Slot
  BY DEF CpInv, WorldInv, WorldTypeOK
<1>2. CASE sec = NasPlain
  BY <1>1, <1>2 DEF SlotView, Unwrapped, NasPlain
<1>3. CASE sec # NasPlain
  <2>1. PICK c \in 0 .. MaxCount - 1 : \E k : sec = NasProtected(k, c)
    BY <1>3 DEF Security
  <2>2. sec.sht = "protected" /\ sec.count = c /\ c \in Nat
    BY <2>1, ControlPlaneAssumption DEF NasProtected
  <2>3. is_live(e) /\ ent[e].nas # None
    BY <2>2 DEF Accepted, decode_protected
  <2>4. ent[e].nas \in NasContext
    BY <1>1, <2>3 DEF Slot
  <2>5. Unwrapped(e, sec) = [ent[e] EXCEPT !.nas = [ent[e].nas EXCEPT !.ul_count = c + 1]]
    BY <2>2 DEF Unwrapped
  <2>6. [ent[e].nas EXCEPT !.ul_count = c + 1] \in NasContext
    BY <2>2, <2>4 DEF NasContext
  <2>7. [ent[e] EXCEPT !.nas = [ent[e].nas EXCEPT !.ul_count = c + 1]] \in Slot
    BY <1>1, <2>6 DEF Slot
  <2> QED
    BY <1>1, <2>3, <2>5, <2>7 DEF SlotView, Slot
<1> QED
  BY <1>2, <1>3

\* A handler that rewrites key material or the authentication state of e.
LEMMA UpdateStep ==
    ASSUME CpInv, NEW e \in EntityId, NEW n, SlotView(e, n),
           ent' = [ent EXCEPT ![e] = n],
           UNCHANGED <<next_id, free_ids, live_count, registry, sqn,
                       teid_next, teid_free>>
    PROVE  CpInv' /\ HomesKept
<1>1. WorldInv' /\ LiveIds' = LiveIds
  BY SetSlotStep DEF CpInv, SlotView
<1>2. ent \in [EntityId -> Slot]
  BY DEF CpInv, WorldInv, WorldTypeOK
<1>3. \A f \in EntityId : /\ ent'[f].tunnel = ent[f].tunnel
                          /\ ent'[f].imsi = ent[f].imsi
                          /\ ent'[f].live = ent[f].live
  BY <1>2 DEF SlotView
<1>4. AllocatorInv /\ TunnelsOwn
  BY TeidPoolSplit DEF CpInv
<1>5. TunnelsOwn'
  BY <1>1, <1>3, <1>4, TunnelsKept DEF LiveIds
<1>6. AllocatorInv'
  BY <1>4 DEF AllocatorInv, TeidTypeOK, Issued
<1>7. HomesKept
  BY <1>3 DEF HomesKept, RegistryPointsHome, CpInv, RegistryTypeOK, is_live
<1>8. TeidTypeOK' /\ TeidPool'
  BY <1>5, <1>6 DEF AllocatorInv, TunnelsOwn, TeidPool
<1>9. RegistryTypeOK' /\ HssTypeOK'
  BY DEF CpInv, RegistryTypeOK, HssTypeOK
<1> QED
  BY <1>1, <1>7, <1>8, <1>9 DEF CpInv

\* AuthenticationResponse (VerifyRes).
LEMMA VerifyResStep ==
    ASSUME CpInv, NEW e \in EntityId, NEW ran, NEW s, SlotView(e, s), NEW res,
           VerifyRes(e, ran, s, res)
    PROVE  CpInv' /\ HomesKept
<1>1. CASE ~is_live(e)
  BY <1>1, DropStep DEF VerifyRes, Drop
<1>2. CASE is_live(e)
  <2>1. PICK a \in AuthState : ent' = [ent EXCEPT ![e] =
                                   [s EXCEPT !.xres = None, !.auth = a]]
    BY <1>2 DEF VerifyRes, set_slot, AuthState
  <2>2. SlotView(e, [s EXCEPT !.xres = None, !.auth = a])
    BY <1>2, <2>1 DEF SlotView, Slot
  <2> HIDE DEF SlotView
  <2> QED
    BY <1>2, <2>1, <2>2, UpdateStep DEF VerifyRes, set_slot
<1> QED
  BY <1>1, <1>2

\* Messages that are only logged (Ignore).
LEMMA IgnoreStep ==
    ASSUME CpInv, NEW e \in EntityId, NEW s, SlotView(e, s), Ignore(e, s)
    PROVE  CpInv' /\ HomesKept
BY UpdateStep DEF Ignore

\* DetachRequest, DeregistrationRequest (Detach).
LEMMA DetachStep ==
    ASSUME CpInv, NEW e \in EntityId, NEW ran, NEW s, SlotView(e, s),
           NEW accept, NEW off, Detach(e, ran, s, accept, off)
    PROVE  CpInv' /\ HomesKept
<1>1. CASE ~is_live(e)
  BY <1>1, DropStep DEF Detach, Drop
<1>2. CASE set_slot(e, s) /\ UNCHANGED <<registry, sqn, teid_next, teid_free>>
  BY <1>2, UpdateStep DEF set_slot
<1>3. CASE /\ is_live(e) /\ s.nas # None
           /\ set_slot(e, [s EXCEPT !.nas.dl_count = @ + 1])
           /\ UNCHANGED <<registry, sqn, teid_next, teid_free>>
  <2> DEFINE n == [s EXCEPT !.nas = [s.nas EXCEPT !.dl_count = s.nas.dl_count + 1]]
  <2>1. [s EXCEPT !.nas.dl_count = @ + 1] = n
    OBVIOUS
  <2>2. s.nas \in NasContext
    BY <1>3 DEF SlotView, Slot
  <2>3. [s.nas EXCEPT !.dl_count = s.nas.dl_count + 1] \in NasContext
    BY <2>2 DEF NasContext
  <2>4. SlotView(e, n)
    BY <1>3, <2>3 DEF SlotView, Slot
  <2> HIDE DEF n
  <2> QED
    BY <1>3, <2>1, <2>4, UpdateStep DEF set_slot
<1> QED
  BY <1>1, <1>2, <1>3 DEF Detach

\* SecurityModeComplete (ActivateNas): a new TEID replaces the tunnel.
LEMMA ActivateNasStep ==
    ASSUME CpInv, NEW e \in EntityId, NEW ran, NEW s, SlotView(e, s),
           NEW accept, NEW ip, ActivateNas(e, ran, s, accept, ip)
    PROVE  CpInv' /\ HomesKept
<1> DEFINE nas == [key |-> s.ck, ul_count |-> 0, dl_count |-> 1]
           secured == [s EXCEPT !.ck = None, !.nas = nas]
<1>0. [[key |-> s.ck, ul_count |-> 0, dl_count |-> 0] EXCEPT !.dl_count = 1] = nas
  OBVIOUS
<1>1. secured \in Slot /\ nas \in NasContext
  <2>1. s.ck \in Vector \cup {None}
    BY DEF SlotView, Slot
  <2>2. nas \in NasContext
    BY <2>1 DEF NasContext
  <2> HIDE DEF nas
  <2> QED
    BY <2>2 DEF SlotView, Slot
<1>2. CASE ~is_live(e)
  BY <1>2, DropStep DEF ActivateNas, Drop
<1>3. CASE is_live(e) /\ ~WithUpf
  <2>1. SlotView(e, secured)
    BY <1>1, <1>3 DEF SlotView, Slot
  <2>2. /\ ent' = [ent EXCEPT ![e] = secured]
        /\ UNCHANGED <<next_id, free_ids, live_count, registry, sqn,
                       teid_next, teid_free>>
    BY <1>0, <1>3 DEF ActivateNas, set_slot
  <2> HIDE DEF secured, SlotView
  <2> QED
    BY <2>1, <2>2, UpdateStep
<1>4. CASE is_live(e) /\ WithUpf
  <2> DEFINE new == [secured EXCEPT !.tunnel = [ul_teid |-> AllocTeid, dl_teid |-> 0]]
  <2>1. /\ alloc
        /\ ent' = [ent EXCEPT ![e] = new]
        /\ UNCHANGED <<next_id, free_ids, live_count, registry, sqn>>
    BY <1>0, <1>4 DEF ActivateNas, set_slot
  <2>2. AllocatorInv /\ TunnelsOwn
    BY TeidPoolSplit DEF CpInv
  <2>3. AllocatorInv' /\ AllocTeid \in Nat
    BY <2>1, <2>2, AllocStep, TeidAssumption DEF Teid
  <2>4. [ul_teid |-> AllocTeid, dl_teid |-> 0] \in Tunnel
    BY <2>3 DEF Tunnel
  <2>5. /\ new \in Slot /\ new.live = TRUE /\ new.imsi = ent[e].imsi
        /\ new.tunnel.ul_teid = AllocTeid
    BY <1>1, <1>4, <2>4 DEF SlotView, Slot, is_live
  <2> HIDE DEF new
  <2>6. WorldInv' /\ LiveIds' = LiveIds
    BY <1>4, <2>1, <2>5, SetSlotStep DEF CpInv, is_live
  <2>7. /\ ent'[e] = new
        /\ \A f \in EntityId \ {e} : ent'[f] = ent[f]
    BY <2>1 DEF CpInv, WorldInv, WorldTypeOK
  <2>8. TunnelsOwn'
    BY <1>4, <2>1, <2>2, <2>5, <2>6, <2>7, TunnelReplaced DEF LiveIds
  <2>9. TeidTypeOK' /\ TeidPool'
    BY <2>3, <2>8 DEF AllocatorInv, TunnelsOwn, TeidPool
  <2>10. RegistryTypeOK' /\ HssTypeOK'
    BY <2>1 DEF CpInv, RegistryTypeOK, HssTypeOK
  <2>11. HomesKept
    BY <1>4, <2>1, <2>5, <2>7 DEF HomesKept, RegistryPointsHome, CpInv, RegistryTypeOK, is_live
  <2> QED
    BY <2>6, <2>9, <2>10, <2>11 DEF CpInv
<1> QED
  BY <1>2, <1>3, <1>4, ControlPlaneAssumption

\* InitialContextSetupResponse (BearerSetUp).
LEMMA BearerSetUpStep ==
    ASSUME CpInv, NEW e \in EntityId, NEW dl \in DlTeid \cup {None},
           BearerSetUp(e, dl)
    PROVE  CpInv' /\ HomesKept
<1>1. CASE Drop
  BY <1>1, DropStep DEF Drop
<1>2. CASE /\ dl # None /\ tunnel(e) # None
           /\ set_slot(e, [ent[e] EXCEPT !.tunnel.dl_teid = dl])
           /\ UNCHANGED <<registry, sqn, teid_next, teid_free>>
  <2> DEFINE t == [ent[e].tunnel EXCEPT !.dl_teid = dl]
             new == [ent[e] EXCEPT !.tunnel = t]
  <2>1. is_live(e) /\ ent[e].tunnel # None
    BY <1>2 DEF tunnel
  <2>2. ent[e] \in Slot /\ ent[e].tunnel \in Tunnel
    BY <2>1 DEF CpInv, WorldInv, WorldTypeOK, Slot
  <2>3. t \in Tunnel /\ t.ul_teid = ent[e].tunnel.ul_teid
    BY <1>2, <2>2, ControlPlaneAssumption DEF Tunnel
  <2>4. ent' = [ent EXCEPT ![e] = new] /\ UNCHANGED <<next_id, free_ids, live_count>>
    BY <1>2 DEF set_slot
  <2> HIDE DEF t
  <2>5. /\ new \in Slot /\ new.live = ent[e].live /\ new.imsi = ent[e].imsi
        /\ new.tunnel = t
    BY <2>2, <2>3 DEF Slot
  <2> HIDE DEF new
  <2>6. WorldInv' /\ LiveIds' = LiveIds
    BY <2>1, <2>4, <2>5, SetSlotStep DEF CpInv
  <2>7. /\ ent'[e] = new
        /\ \A f \in EntityId \ {e} : ent'[f] = ent[f]
    BY <2>4 DEF CpInv, WorldInv, WorldTypeOK
  <2>8. AllocatorInv /\ TunnelsOwn
    BY TeidPoolSplit DEF CpInv
  <2>9. AllocatorInv'
    BY <1>2, <2>8 DEF AllocatorInv, TeidTypeOK, Issued
  <2>10. TunnelsOwn'
    BY <1>2, <2>1, <2>3, <2>5, <2>6, <2>7, <2>8, TunnelCompleted DEF LiveIds
  <2>11. TeidTypeOK' /\ TeidPool'
    BY <2>9, <2>10 DEF AllocatorInv, TunnelsOwn, TeidPool
  <2>12. RegistryTypeOK' /\ HssTypeOK'
    BY <1>2 DEF CpInv, RegistryTypeOK, HssTypeOK
  <2>13. HomesKept
    BY <1>2, <2>1, <2>5, <2>7 DEF HomesKept, RegistryPointsHome, CpInv, RegistryTypeOK, is_live
  <2> QED
    BY <2>6, <2>11, <2>12, <2>13 DEF CpInv
<1> QED
  BY <1>1, <1>2 DEF BearerSetUp

\* UeContextReleaseComplete (Teardown): entity, index entry and TEID go
\* together, and only once.
LEMMA TeardownStep ==
    ASSUME CpInv, NEW e \in EntityId, Teardown(e)
    PROVE  CpInv' /\ HomesKept
<1>1. /\ WorldInv' /\ LiveIds' = LiveIds \ {e}
      /\ \A f \in EntityId \ {e} : ent'[f] = ent[f]
  BY DespawnStep DEF CpInv, Teardown
<1>2. AllocatorInv /\ TunnelsOwn
  BY TeidPoolSplit DEF CpInv
<1>3. AllocatorInv' /\ TunnelsOwn'
  <2>1. CASE tunnel(e) = None
    <3>1. UNCHANGED <<teid_next, teid_free>>
      BY <2>1 DEF Teardown
    <3>2. AllocatorInv'
      BY <1>2, <3>1 DEF AllocatorInv, TeidTypeOK, Issued
    <3>3. \A f \in LiveIds' : ent'[f].tunnel # None =>
                f \in LiveIds /\ ent'[f].tunnel = ent[f].tunnel
      BY <1>1 DEF LiveIds
    <3> QED
      BY <1>2, <3>1, <3>2, <3>3, TunnelsKept
  <2>2. CASE tunnel(e) # None
    <3>1. e \in LiveIds /\ ent[e].tunnel # None /\ release(ent[e].tunnel.ul_teid)
      BY <2>2 DEF Teardown, tunnel, LiveIds
    <3>2. ent[e].tunnel.ul_teid \in Allocated
      BY <1>2, <3>1 DEF TunnelsOwn
    <3>3. AllocatorInv'
      BY <1>2, <3>1, <3>2, ReleaseStep
    <3>4. \A f \in LiveIds \ {e} : ent'[f].tunnel = ent[f].tunnel
      BY <1>1 DEF LiveIds
    <3>5. TunnelsOwn'
      BY <1>1, <1>2, <3>1, <3>4, TunnelReleased
    <3> QED
      BY <3>3, <3>5
  <2> QED
    BY <2>1, <2>2
<1>4. TeidTypeOK' /\ TeidPool'
  BY <1>3 DEF AllocatorInv, TunnelsOwn, TeidPool
<1>5. RegistryTypeOK' /\ HssTypeOK'
  BY DEF CpInv, RegistryTypeOK, HssTypeOK, Teardown, deregister
<1>6. HomesKept
  <2>1. CASE ~is_live(e)
    BY <2>1 DEF Teardown, despawn, worldVars, HomesKept, RegistryPointsHome, is_live
  <2>2. CASE is_live(e)
    BY <1>1, <2>2 DEF Teardown, deregister, HomesKept, RegistryPointsHome,
                      CpInv, RegistryTypeOK, is_live
  <2> QED
    BY <2>1, <2>2
<1> QED
  BY <1>1, <1>4, <1>5, <1>6 DEF CpInv

-----------------------------------------------------------------------------
(* Key material.                                                           *)

\* Slot s holds vector v as its challenge, its CK or the root of its NAS keys.
Holds(s, v) ==
    /\ v # None
    /\ v = s.xres \/ v = s.ck \/ (s.nas # None /\ v = s.nas.key)

\* Slot n, written over slot o, has CK only from o; its NAS context goes on, or
\* took the place of CK.
Spends(n, o) ==
    /\ n.ck # None => n.ck = o.ck
    /\ n.nas # None /\ n.nas.key # None =>
          GoesOn(n, o) \/ (n.nas.key = o.ck /\ n.ck = None)

\* Slot n, written over slot o, has no key material that o did not have for
\* the same subscriber, and uses no vector twice.
Inherits(n, o) ==
    /\ \A v : Holds(n, v) => Holds(o, v) /\ n.live = o.live /\ n.imsi = o.imsi
    /\ Spends(n, o)

\* A step that makes no vector: every slot inherits.
Handled == UNCHANGED sqn /\ \A e \in EntityId : Inherits(ent'[e], ent[e])

\* What the keys need besides the properties the runs check: every vector in
\* use was made before the SQN of its subscriber.
KeysIssued ==
    \A e \in EntityId : \A v \in VectorsOf(e) :
        v \in Vector /\ sqn[v.imsi] \in Nat /\ v.sqn < sqn[v.imsi]

\* Fewer vectors are made for a subscriber than there are sequence numbers, so
\* the SQN counter does not wrap (2^48 of them in Hss::generate_auth_vector).
NoSqnWrap == MaxSqn < SqnSpace

\* Membership in VectorsOf, by component.
LEMMA VectorsHeld ==
    ASSUME NEW e
    PROVE  \A v : v \in VectorsOf(e) <=> Holds(ent[e], v)
BY DEF VectorsOf, Holds

\* The same after a step.
LEMMA VectorsHeldNext ==
    ASSUME NEW e
    PROVE  \A v : v \in VectorsOf(e)' <=> Holds(ent'[e], v)
BY DEF VectorsOf, Holds

\* A slot inherits from itself.
LEMMA InheritsSelf == ASSUME NEW s \in Slot PROVE Inherits(s, s)
BY DEF Inherits, Spends, GoesOn, Slot, NasContext

\* An empty slot inherits from any (despawn).
LEMMA InheritsEmpty == ASSUME NEW o PROVE Inherits(Empty, o)
BY DEF Inherits, Holds, Spends, Empty

\* Nothing is written.
LEMMA HandledIdle == CpInv /\ UNCHANGED <<ent, sqn>> => Handled
BY InheritsSelf DEF Handled, CpInv, WorldInv, WorldTypeOK

\* One slot is written.
LEMMA HandledSlot ==
    ASSUME CpInv, NEW e \in EntityId, NEW n, ent' = [ent EXCEPT ![e] = n],
           UNCHANGED sqn, Inherits(n, ent[e])
    PROVE  Handled
<1>1. ent \in [EntityId -> Slot]
  BY DEF CpInv, WorldInv, WorldTypeOK
<1>2. ent'[e] = n /\ \A f \in EntityId \ {e} : ent'[f] = ent[f]
  BY <1>1
<1> QED
  BY <1>1, <1>2, InheritsSelf DEF Handled

\* The slot as decode_protected leaves it: the same keys, and an uplink COUNT
\* that did not go back.
Opened(e, s) ==
    /\ s \in Slot
    /\ s.live = ent[e].live /\ s.imsi = ent[e].imsi
    /\ s.xres = ent[e].xres /\ s.ck = ent[e].ck
    /\ s.nas = None <=> ent[e].nas = None
    /\ s.nas # None => /\ s.nas.key = ent[e].nas.key
                       /\ s.nas.ul_count >= ent[e].nas.ul_count
                       /\ s.nas.dl_count = ent[e].nas.dl_count

\* A protected PDU is accepted only with the stored key and a COUNT that was
\* not used, and the COUNT after it is kept (decode_protected, Unwrapped).
LEMMA UnwrappedOpened ==
    ASSUME CpInv, NEW e \in EntityId, NEW sec \in Security, Accepted(e, sec)
    PROVE  Opened(e, Unwrapped(e, sec))
<1>1. ent[e] \in Slot
  BY DEF CpInv, WorldInv, WorldTypeOK
<1>2. CASE sec = NasPlain
  <2>1. Unwrapped(e, sec) = ent[e]
    BY <1>2 DEF Unwrapped, NasPlain
  <2> QED
    BY <1>1, <2>1 DEF Opened, Slot, NasContext
<1>3. CASE sec # NasPlain
  <2>1. PICK c \in 0 .. MaxCount - 1 : \E k : sec = NasProtected(k, c)
    BY <1>3 DEF Security
  <2>2. sec.sht = "protected" /\ sec.count = c /\ c \in Nat
    BY <2>1, ControlPlaneAssumption DEF NasProtected
  <2>3. is_live(e) /\ ent[e].nas # None /\ c >= ent[e].nas.ul_count
    BY <2>2 DEF Accepted, decode_protected
  <2>4. ent[e].nas \in NasContext
    BY <1>1, <2>3 DEF Slot
  <2> DEFINE ctx == [ent[e].nas EXCEPT !.ul_count = c + 1]
  <2>5. Unwrapped(e, sec) = [ent[e] EXCEPT !.nas = ctx]
    BY <2>2 DEF Unwrapped
  <2>6. /\ ctx \in NasContext /\ ctx.key = ent[e].nas.key
        /\ ctx.ul_count >= ent[e].nas.ul_count /\ ctx.dl_count = ent[e].nas.dl_count
    BY <2>2, <2>3, <2>4 DEF NasContext
  <2>7. ctx # None
    BY <2>6, NoneAssumption
  <2> HIDE DEF ctx
  <2> QED
    BY <1>1, <2>3, <2>5, <2>6, <2>7 DEF Opened, Slot
<1> QED
  BY <1>2, <1>3

\* A slot that keeps CK and the NAS keys of an opened one and at most loses
\* its challenge.
LEMMA InheritsOpened ==
    ASSUME CpInv, NEW e \in EntityId, NEW s, Opened(e, s), NEW n,
           n.live = s.live, n.imsi = s.imsi, n.ck = s.ck,
           n.xres \in {s.xres, None}, (n.nas = None) <=> (s.nas = None),
           s.nas # None => /\ n.nas.key = s.nas.key
                           /\ n.nas.ul_count = s.nas.ul_count
                           /\ n.nas.dl_count \in {s.nas.dl_count, s.nas.dl_count + 1}
    PROVE  Inherits(n, ent[e])
<1> DEFINE o == ent[e]
<1>1. o \in Slot
  BY DEF CpInv, WorldInv, WorldTypeOK
<1>2. /\ s.live = o.live /\ s.imsi = o.imsi /\ s.xres = o.xres /\ s.ck = o.ck
      /\ s.nas = None <=> o.nas = None
      /\ s.nas # None => /\ s.nas.key = o.nas.key
                         /\ s.nas.ul_count >= o.nas.ul_count
                         /\ s.nas.dl_count = o.nas.dl_count
  BY DEF Opened
<1>3. o.nas # None => o.nas.ul_count \in Nat /\ o.nas.dl_count \in Nat
  BY <1>1 DEF Slot, NasContext
<1> HIDE DEF o
<1>4. \A v : Holds(n, v) => Holds(o, v)
  BY <1>2 DEF Holds
<1>5. Spends(n, o)
  BY <1>2, <1>3 DEF Spends, GoesOn
<1> QED
  BY <1>2, <1>4, <1>5 DEF Inherits, o

\* An early return makes and moves no key (Drop).
LEMMA DropHandled == CpInv /\ UNCHANGED coreVars => Handled
BY HandledIdle DEF coreVars

\* AuthenticationResponse: the challenge goes, nothing else moves.
LEMMA VerifyResHandled ==
    ASSUME CpInv, NEW e \in EntityId, NEW ran, NEW s, Opened(e, s), NEW res,
           VerifyRes(e, ran, s, res)
    PROVE  Handled
<1>1. CASE ~is_live(e)
  BY <1>1, DropHandled DEF VerifyRes, Drop
<1>2. CASE is_live(e)
  <2>1. PICK a \in AuthState : ent' = [ent EXCEPT ![e] =
                                   [s EXCEPT !.xres = None, !.auth = a]]
    BY <1>2 DEF VerifyRes, set_slot, AuthState
  <2> DEFINE n == [s EXCEPT !.xres = None, !.auth = a]
  <2>2. /\ n.live = s.live /\ n.imsi = s.imsi /\ n.ck = s.ck /\ n.xres = None
        /\ n.nas = s.nas
    BY DEF Opened, Slot
  <2> HIDE DEF n
  <2>3. Inherits(n, ent[e])
    BY <2>2, InheritsOpened
  <2>4. UNCHANGED sqn
    BY <1>2 DEF VerifyRes
  <2> QED
    BY <2>1, <2>3, <2>4, HandledSlot DEF n
<1> QED
  BY <1>1, <1>2

\* Messages that are only logged.
LEMMA IgnoreHandled ==
    ASSUME CpInv, NEW e \in EntityId, NEW s, Opened(e, s), Ignore(e, s)
    PROVE  Handled
BY InheritsOpened, HandledSlot DEF Ignore

\* DetachRequest, DeregistrationRequest: at most the downlink COUNT advances.
LEMMA DetachHandled ==
    ASSUME CpInv, NEW e \in EntityId, NEW ran, NEW s, Opened(e, s),
           NEW accept, NEW off, Detach(e, ran, s, accept, off)
    PROVE  Handled
<1>1. CASE ~is_live(e)
  BY <1>1, DropHandled DEF Detach, Drop
<1>2. CASE set_slot(e, s) /\ UNCHANGED sqn
  BY <1>2, InheritsOpened, HandledSlot DEF set_slot
<1>3. CASE /\ s.nas # None /\ UNCHANGED sqn
           /\ set_slot(e, [s EXCEPT !.nas.dl_count = @ + 1])
  <2> DEFINE ctx == [s.nas EXCEPT !.dl_count = s.nas.dl_count + 1]
             n == [s EXCEPT !.nas = ctx]
  <2>1. s.nas \in NasContext
    BY <1>3 DEF Opened, Slot
  <2>2. /\ ctx \in NasContext /\ ctx.key = s.nas.key
        /\ ctx.ul_count = s.nas.ul_count /\ ctx.dl_count = s.nas.dl_count + 1
    BY <2>1 DEF NasContext
  <2>3. ctx # None
    BY <2>2, NoneAssumption
  <2>4. ent' = [ent EXCEPT ![e] = n]
    BY <1>3 DEF set_slot
  <2> HIDE DEF ctx
  <2>5. /\ n.live = s.live /\ n.imsi = s.imsi /\ n.ck = s.ck /\ n.xres = s.xres
        /\ n.nas = ctx
    BY DEF Opened, Slot
  <2> HIDE DEF n
  <2>6. Inherits(n, ent[e])
    BY <1>3, <2>2, <2>3, <2>5, InheritsOpened
  <2> QED
    BY <1>3, <2>4, <2>6, HandledSlot
<1> QED
  BY <1>1, <1>2, <1>3 DEF Detach

\* SecurityModeComplete: the NAS keys take the place of CK.  The COUNTs start
\* again, for a key whose CK is gone from now on (Spends).
LEMMA ActivateNasHandled ==
    ASSUME CpInv, NEW e \in EntityId, NEW ran, NEW s, Opened(e, s),
           NEW accept, NEW ip, ActivateNas(e, ran, s, accept, ip)
    PROVE  Handled
<1>1. CASE ~is_live(e)
  BY <1>1, DropHandled DEF ActivateNas, Drop
<1>2. CASE is_live(e)
  <2> DEFINE ctx == [key |-> s.ck, ul_count |-> 0, dl_count |-> 1]
             secured == [s EXCEPT !.ck = None, !.nas = ctx]
  <2>0. [[key |-> s.ck, ul_count |-> 0, dl_count |-> 0] EXCEPT !.dl_count = 1] = ctx
    OBVIOUS
  <2>1. PICK t : ent' = [ent EXCEPT ![e] = [secured EXCEPT !.tunnel = t]]
    <3>1. CASE WithUpf
      BY <1>2, <2>0, <3>1 DEF ActivateNas, set_slot
    <3>2. CASE ~WithUpf
      <4>1. ent' = [ent EXCEPT ![e] = secured]
        BY <1>2, <2>0, <3>2 DEF ActivateNas, set_slot
      <4>2. secured = [secured EXCEPT !.tunnel = s.tunnel]
        BY DEF Opened, Slot
      <4> QED
        BY <4>1, <4>2
    <3> QED
      BY <3>1, <3>2
  <2> DEFINE n == [secured EXCEPT !.tunnel = t]
  <2>2. /\ n.live = s.live /\ n.imsi = s.imsi /\ n.ck = None /\ n.xres = s.xres
        /\ n.nas = ctx
    BY DEF Opened, Slot
  <2>3. ctx.key = s.ck
    OBVIOUS
  <2> HIDE DEF ctx, n
  <2>4. /\ s.live = ent[e].live /\ s.imsi = ent[e].imsi
        /\ s.xres = ent[e].xres /\ s.ck = ent[e].ck
    BY DEF Opened
  <2>5. Inherits(n, ent[e])
    BY <2>2, <2>3, <2>4 DEF Inherits, Holds, Spends
  <2>6. UNCHANGED sqn
    BY <1>2 DEF ActivateNas
  <2> QED
    BY <2>1, <2>5, <2>6, HandledSlot DEF n
<1> QED
  BY <1>1, <1>2

\* InitialContextSetupResponse touches no key.
LEMMA BearerSetUpHandled ==
    ASSUME CpInv, NEW e \in EntityId, NEW dl, BearerSetUp(e, dl)
    PROVE  Handled
<1>1. CASE Drop
  BY <1>1, DropHandled DEF Drop
<1>2. CASE set_slot(e, [ent[e] EXCEPT !.tunnel.dl_teid = dl]) /\ UNCHANGED sqn
  <2> DEFINE t == [ent[e].tunnel EXCEPT !.dl_teid = dl]
             n == [ent[e] EXCEPT !.tunnel = t]
  <2>1. ent[e] \in Slot
    BY DEF CpInv, WorldInv, WorldTypeOK
  <2>2. ent' = [ent EXCEPT ![e] = n]
    BY <1>2 DEF set_slot
  <2> HIDE DEF t
  <2>3. /\ n.live = ent[e].live /\ n.imsi = ent[e].imsi /\ n.ck = ent[e].ck
        /\ n.xres = ent[e].xres /\ n.nas = ent[e].nas
    BY <2>1 DEF Slot
  <2> HIDE DEF n
  <2>4. Opened(e, ent[e])
    BY <2>1 DEF Opened, Slot, NasContext
  <2>5. Inherits(n, ent[e])
    BY <2>3, <2>4, InheritsOpened
  <2> QED
    BY <1>2, <2>2, <2>5, HandledSlot
<1> QED
  BY <1>1, <1>2 DEF BearerSetUp

\* UeContextReleaseComplete wipes the slot.
LEMMA TeardownHandled ==
    ASSUME CpInv, NEW e \in EntityId, Teardown(e)
    PROVE  Handled
<1>1. CASE ~is_live(e)
  BY <1>1, HandledIdle DEF Teardown, despawn, worldVars
<1>2. CASE is_live(e)
  BY <1>2, InheritsEmpty, HandledSlot DEF Teardown, despawn
<1> QED
  BY <1>1, <1>2

\* Handled keeps key material with its subscriber.
LEMMA HandledStaysHome == KeysStayHome /\ Handled => KeysStayHome'
<1> SUFFICES ASSUME KeysStayHome, Handled, NEW e \in EntityId, NEW v \in VectorsOf(e)'
             PROVE  is_live(e)' /\ v.imsi = ent'[e].imsi
  BY DEF KeysStayHome
<1>1. Holds(ent'[e], v)
  BY VectorsHeldNext
<1>2. Holds(ent[e], v) /\ ent'[e].live = ent[e].live /\ ent'[e].imsi = ent[e].imsi
  BY <1>1 DEF Handled, Inherits
<1>3. v \in VectorsOf(e)
  BY <1>2, VectorsHeld
<1> QED
  BY <1>2, <1>3 DEF KeysStayHome, is_live

\* Handled keeps vectors apart.
LEMMA HandledApart ==
    KeysIssued /\ KeysUnshared /\ Handled => KeysIssued' /\ KeysUnshared'
<1> SUFFICES ASSUME KeysIssued, KeysUnshared, Handled PROVE KeysIssued' /\ KeysUnshared'
  OBVIOUS
<1>1. \A e \in EntityId : VectorsOf(e)' \subseteq VectorsOf(e)
  BY VectorsHeld, VectorsHeldNext DEF Handled, Inherits
<1>2. KeysIssued'
  BY <1>1 DEF KeysIssued, Handled
<1>3. KeysUnshared'
  BY <1>1 DEF KeysUnshared
<1> QED
  BY <1>2, <1>3

\* What VectorsSpentOnce asks of a step, for one vector.
SpentOnce(v) ==
    /\ Unspent(v)' => Unspent(v)
    /\ \A e \in EntityId : ent'[e].nas # None /\ ent'[e].nas.key = v =>
          GoesOn(ent'[e], ent[e]) \/ (Unspent(v) /\ ~Unspent(v)')

\* Handled spends a CK at most once: whoever takes it was its only holder.
LEMMA HandledSpends ==
    ASSUME KeysIssued, KeysUnshared, Handled, NEW v \in Vectors
    PROVE  SpentOnce(v)
<1>1. v # None
  BY HssAssumption, NoneAssumption DEF Vectors, Vector
<1>2. UNCHANGED sqn /\ \A e \in EntityId : Spends(ent'[e], ent[e])
  BY DEF Handled, Inherits
<1>3. Unspent(v)' => Unspent(v)
  BY <1>1, <1>2 DEF Unspent, Spends
<1>4. ASSUME NEW e \in EntityId, ent'[e].nas # None, ent'[e].nas.key = v,
             ~GoesOn(ent'[e], ent[e])
      PROVE  Unspent(v) /\ ~Unspent(v)'
  <2>1. ent[e].ck = v /\ ent'[e].ck = None
    BY <1>1, <1>2, <1>4 DEF Spends
  <2>2. v \in VectorsOf(e)
    BY <1>1, <2>1, VectorsHeld DEF Holds
  <2>3. \A f \in EntityId \ {e} : ent[f].ck # v
    BY <1>1, <2>2, VectorsHeld DEF KeysUnshared, Holds
  <2>4. \A f \in EntityId : ent'[f].ck # v
    BY <1>1, <1>2, <2>1, <2>3 DEF Spends
  <2>5. sqn[v.imsi] \in Nat /\ v.sqn < sqn[v.imsi] /\ v.sqn \in Nat
    BY <2>2 DEF KeysIssued, Vector
  <2>6. sqn[v.imsi] # None
    BY <2>5, NoneAssumption
  <2> QED
    BY <1>2, <2>1, <2>4, <2>5, <2>6 DEF Unspent
<1> QED
  BY <1>3, <1>4 DEF SpentOnce

\* Hss::generate_auth_vector returns a vector nobody holds; whoever gets it,
\* one entity only, vectors stay apart.
LEMMA FreshVector ==
    ASSUME NoSqnWrap, CpInv, KeysIssued, KeysUnshared,
           NEW i \in Imsi, sqn[i] \in Nat, generate_auth_vector(i),
           NEW e \in EntityId, \A f \in EntityId \ {e} : ent'[f] = ent[f],
           \A v : Holds(ent'[e], v) => v = NextVector(i) \/ Holds(ent[e], v)
    PROVE  /\ KeysIssued' /\ KeysUnshared'
           /\ \A f \in EntityId : NextVector(i) \notin VectorsOf(f)
<1>1. /\ sqn'[i] = sqn[i] + 1
      /\ \A j \in Imsi \ {i} : sqn'[j] = sqn[j]
  BY HssAssumption DEF NoSqnWrap, generate_auth_vector, CpInv, HssTypeOK
<1>2. \A f \in EntityId : NextVector(i) \notin VectorsOf(f)
  BY DEF KeysIssued, NextVector
<1>3. \A f \in EntityId : \A v \in VectorsOf(f)' :
          v \in VectorsOf(f) \/ (f = e /\ v = NextVector(i))
  BY VectorsHeld, VectorsHeldNext
<1>4. KeysIssued'
  <2>1. NextVector(i) \in Vector /\ NextVector(i).imsi = i /\ NextVector(i).sqn < sqn'[i]
    BY <1>1 DEF NextVector, Vector
  <2>2. \A v \in Vector : v.sqn \in Nat /\ v.imsi \in Imsi
    BY DEF Vector
  <2> QED
    BY <1>1, <1>3, <2>1, <2>2 DEF KeysIssued
<1>5. KeysUnshared'
  BY <1>2, <1>3 DEF KeysUnshared
<1> QED
  BY <1>2, <1>4, <1>5

\* A vector made for subscriber i goes to entity e as challenge and CK; the
\* NAS context stays (start_attach, handle_identity_response).
Vended(i, e) ==
    /\ i \in Imsi /\ sqn[i] \in Nat
    /\ generate_auth_vector(i)
    /\ e \in EntityId
    /\ \A f \in EntityId \ {e} : ent'[f] = ent[f]
    /\ ent'[e].live /\ ent'[e].imsi = i
    /\ ent'[e].xres = NextVector(i) /\ ent'[e].ck = NextVector(i)
    /\ ent'[e].nas = None <=> ent[e].nas = None
    /\ ent[e].nas # None => /\ ent'[e].nas.key = ent[e].nas.key
                            /\ ent'[e].nas.ul_count >= ent[e].nas.ul_count
                            /\ ent'[e].nas.dl_count >= ent[e].nas.dl_count

\* The vector is fresh, so vectors stay apart.
LEMMA VendedApart ==
    ASSUME NoSqnWrap, CpInv, KeysIssued, KeysUnshared, NEW i, NEW e, Vended(i, e)
    PROVE  KeysIssued' /\ KeysUnshared' /\ NextVector(i) \notin VectorsOf(e)
<1>1. \A v : Holds(ent'[e], v) => v = NextVector(i) \/ Holds(ent[e], v)
  BY DEF Vended, Holds
<1> QED
  BY <1>1, FreshVector DEF Vended

\* The SQN moves on past i's vector v, so a spent vector stays spent.
LEMMA StaysSpent ==
    ASSUME NoSqnWrap, CpInv, NEW i \in Imsi, sqn[i] \in Nat, generate_auth_vector(i),
           NEW v \in Vectors, \A e \in EntityId : ent'[e].ck \in {ent[e].ck, NextVector(i)}
    PROVE  Unspent(v)' => Unspent(v)
<1>1. /\ sqn'[i] = sqn[i] + 1
      /\ \A j \in Imsi \ {i} : sqn'[j] = sqn[j]
  BY HssAssumption DEF NoSqnWrap, generate_auth_vector, CpInv, HssTypeOK
<1>2. v.imsi \in Imsi /\ v.sqn \in Nat
  BY HssAssumption DEF Vectors
<1>3. SUFFICES ASSUME ~Unspent(v) PROVE ~Unspent(v)'
  OBVIOUS
<1>4. /\ sqn[v.imsi] # None /\ sqn[v.imsi] \in Nat /\ v.sqn < sqn[v.imsi]
      /\ \A e \in EntityId : ent[e].ck # v
  BY <1>2, <1>3 DEF Unspent, CpInv, HssTypeOK
<1>5. NextVector(i) # v
  BY <1>4 DEF NextVector
<1>6. \A e \in EntityId : ent'[e].ck # v
  BY <1>4, <1>5
<1>7. sqn'[v.imsi] \in Nat /\ v.sqn < sqn'[v.imsi]
  BY <1>1, <1>2, <1>4
<1>8. sqn'[v.imsi] # None
  BY <1>7, NoneAssumption
<1> QED
  BY <1>2, <1>6, <1>7, <1>8 DEF Unspent

\* A new vector is given out: no NAS context changes its key, the COUNTs go on.
LEMMA VendedSpends ==
    ASSUME NoSqnWrap, CpInv, NEW i, NEW e, Vended(i, e), NEW v \in Vectors
    PROVE  SpentOnce(v)
<1>1. ent \in [EntityId -> Slot]
  BY DEF CpInv, WorldInv, WorldTypeOK
<1>2. Unspent(v)' => Unspent(v)
  BY StaysSpent DEF Vended
<1>3. ASSUME NEW f \in EntityId, ent'[f].nas # None
      PROVE  GoesOn(ent'[f], ent[f])
  <2>1. CASE f = e
    BY <1>3, <2>1 DEF Vended, GoesOn
  <2>2. CASE f # e
    BY <1>1, <1>3, <2>2 DEF Vended, GoesOn, Slot, NasContext
  <2> QED
    BY <2>1, <2>2
<1> QED
  BY <1>2, <1>3 DEF SpentOnce

\* For an entity without NAS context the vector and the IMSI come together.
LEMMA VendedStaysHome ==
    ASSUME KeysStayHome, NEW i, NEW e, Vended(i, e), ent[e].nas = None
    PROVE  KeysStayHome'
<1> SUFFICES ASSUME NEW f \in EntityId, NEW v \in VectorsOf(f)'
             PROVE  is_live(f)' /\ v.imsi = ent'[f].imsi
  BY DEF KeysStayHome
<1>1. Holds(ent'[f], v)
  BY VectorsHeldNext
<1>2. CASE f = e
  BY <1>1, <1>2 DEF Holds, Vended, NextVector, is_live
<1>3. CASE f # e
  BY <1>1, <1>3, VectorsHeld DEF Vended, KeysStayHome, is_live
<1> QED
  BY <1>2, <1>3

\* A new core holds no keys.
LEMMA KeysInit ==
    CpInit => KeysIssued /\ KeysUnshared /\ KeysStayHome
<1> SUFFICES ASSUME CpInit PROVE KeysIssued /\ KeysUnshared /\ KeysStayHome
  OBVIOUS
<1>1. \A e \in EntityId : ent[e] = Empty
  BY DEF CpInit, WorldInit
<1>2. \A e \in EntityId : VectorsOf(e) = {}
  BY <1>1 DEF VectorsOf, Empty
<1> QED
  BY <1>1, <1>2 DEF KeysIssued, KeysUnshared, KeysStayHome

-----------------------------------------------------------------------------
(* Start.                                                                  *)

\* A new core: no entities, no index entries, no TEIDs.
LEMMA CpInitInv == CpInit => CpInv /\ RegistryPointsHome
<1> SUFFICES ASSUME CpInit PROVE CpInv /\ RegistryPointsHome
  OBVIOUS
<1>1. WorldInv
  BY WorldInitInv DEF CpInit
<1>2. LiveIds = {}
  BY EmptyIsSlot DEF CpInit, WorldInit, LiveIds, is_live
<1>3. AllocatorInv
  BY TeidInitInv DEF CpInit
<1>4. TeidTypeOK /\ TeidPool
  BY <1>2, <1>3 DEF AllocatorInv, TeidPool
<1>5. RegistryTypeOK /\ HssTypeOK /\ RegistryPointsHome
  BY DEF CpInit, RegistryInit, HssInit, RegistryTypeOK, HssTypeOK, RegistryPointsHome
<1> QED
  BY <1>1, <1>4, <1>5 DEF CpInv

-----------------------------------------------------------------------------
(* The loop of run_mme and run_amf: a control plane and the UPF it         *)
(* controls.  LoopInv joins CpInv and UpfCore across the event that is     *)
(* queued and the call that is in progress.                                *)

\* At most one event is queued, and only while the UPF is idle.
CreateEvent == [type : {"CreateSession"}, ul_teid : UlTeid, entity : EntityId,
                imsi : Imsi \cup {NoImsi}, ue_ip : UeIp]
UpdateEvent == [type : {"UpdateBearer"}, ul_teid : UlTeid, dl_teid : DlTeid]
RemoveEvent == [type : {"RemoveSession"}, ul_teid : UlTeid]

EventsOK ==
    \/ events = <<>>
    \/ /\ call = Idle
       /\ \E evt \in CreateEvent \cup UpdateEvent \cup RemoveEvent : events = <<evt>>

\* The event of this type for TEID t is next.
Queued(type, t) ==
    events # <<>> /\ Head(events).type = type /\ Head(events).ul_teid = t

\* The session of t is on its way out.
Removing(t) ==
    Queued("RemoveSession", t) \/ (call.fn = "remove" /\ call.teid = t)

\* Sessions and allocated TEIDs are the same, up to what is under way.
TeidsMatch ==
    \A t \in UlTeid :
        /\ Queued("CreateSession", t) => t \in Allocated /\ t \notin Live
        /\ Removing(t) => t \in Live /\ t \notin Allocated
        /\ (~Queued("CreateSession", t) /\ ~Removing(t))
               => (t \in Live <=> t \in Allocated)

\* A tunnel has its session, or the event that creates it is queued; its
\* downlink TEID is in the queued update, in the update in progress, or there.
Served(e, t, dl) ==
    \/ Queued("CreateSession", t) /\ Head(events).entity = e /\ dl = 0
    \/ /\ sessions[t] # NoEntry /\ sessions[t].entity = e
       /\ Queued("UpdateBearer", t) => Head(events).dl_teid = dl
       /\ (call.fn = "update" /\ call.teid = t) => call.to.dl_teid = dl
       /\ (~Queued("UpdateBearer", t) /\ ~(call.fn = "update" /\ call.teid = t))
              => sessions[t].to.dl_teid = dl

TunnelsServed ==
    \A e \in LiveIds : ent[e].tunnel # None =>
        Served(e, ent[e].tunnel.ul_teid, ent[e].tunnel.dl_teid)

\* At most two responses wait.
Short(s) == s = <<>> \/ (\E a : s = <<a>>) \/ (\E a, b : s = <<a, b>>)

\* An announced TEID is routed or about to be; no response waits for a removal.
Answers ==
    /\ Short(responses)
    /\ \A r \in Announced :
          /\ r.ul_teid \in UlTeid
          /\ Queued("CreateSession", r.ul_teid) \/ ul_map[r.ul_teid] # NoEntry
    /\ (\E t \in UlTeid : Removing(t)) => responses = <<>>

LoopInv ==
    /\ CpInv
    /\ UpfCore
    /\ EventsOK
    /\ TeidsMatch
    /\ TunnelsServed
    /\ Answers

-----------------------------------------------------------------------------
(* What one call of process_s1ap or process_ngap does to TEIDs and         *)
(* tunnels, and what it returns.                                           *)

\* No event, no announced TEID, no new tunnel.
Quiet ==
    /\ events' = <<>>
    /\ Short(responses')
    /\ \A r \in Range(responses') : r.type # "InitialContextSetupRequest"
    /\ Allocated' = Allocated
    /\ \A e \in LiveIds' : ent'[e].tunnel # None =>
          e \in LiveIds /\ ent'[e].tunnel = ent[e].tunnel

\* A fresh TEID t for the tunnel of e, announced to both sides.
Opens(t, e) ==
    /\ t \in Teid \ Allocated /\ Allocated' = Allocated \cup {t}
    /\ e \in LiveIds /\ LiveIds' = LiveIds
    /\ ent'[e].tunnel = [ul_teid |-> t, dl_teid |-> 0]
    /\ \A f \in LiveIds \ {e} : ent'[f].tunnel = ent[f].tunnel
    /\ \E imsi \in Imsi \cup {NoImsi}, ip \in UeIp :
          events' = <<CreateSession(t, e, imsi, ip)>>
    /\ \E ran, nas : responses' = <<InitialContextSetupRequest(e, ran, t, nas)>>

\* The tunnel of e, with TEID t, gets downlink TEID dl.
Redirects(t, e, dl) ==
    /\ Allocated' = Allocated
    /\ e \in LiveIds /\ LiveIds' = LiveIds
    /\ ent[e].tunnel # None /\ ent[e].tunnel.ul_teid = t
    /\ dl \in DlTeid /\ ent'[e].tunnel = [ul_teid |-> t, dl_teid |-> dl]
    /\ \A f \in LiveIds \ {e} : ent'[f].tunnel = ent[f].tunnel
    /\ events' = <<UpdateBearer(t, dl)>> /\ responses' = <<>>

\* The tunnel of e, with TEID t, goes with e.
Closes(t, e) ==
    /\ e \in LiveIds /\ LiveIds' = LiveIds \ {e}
    /\ ent[e].tunnel # None /\ ent[e].tunnel.ul_teid = t
    /\ Allocated' = Allocated \ {t}
    /\ \A f \in LiveIds \ {e} : ent'[f].tunnel = ent[f].tunnel
    /\ events' = <<RemoveSession(t)>> /\ responses' = <<>>

\* The sequences handlers return have the elements written in them.
LEMMA TupleRange ==
    /\ Range(<<>>) = {} /\ Short(<<>>)
    /\ \A a : Range(<<a>>) = {a} /\ Short(<<a>>)
    /\ \A a, b : Range(<<a, b>>) = {a, b} /\ Short(<<a, b>>)
<1>1. Range(<<>>) = {}
  BY DEF Range
<1>2. ASSUME NEW a PROVE Range(<<a>>) = {a}
  BY DEF Range
<1>3. ASSUME NEW a, NEW b PROVE Range(<<a, b>>) = {a, b}
  BY DEF Range
<1> QED
  BY <1>1, <1>2, <1>3 DEF Short

\* Handlers that leave TEIDs and tunnels alone.
LEMMA QuietStep ==
    ASSUME CpInv, UNCHANGED <<teid_next, teid_free>>, events' = <<>>,
           \/ responses' = <<>>
           \/ \E a : responses' = <<a>> /\ a.type # "InitialContextSetupRequest"
           \/ \E a, b : /\ responses' = <<a, b>>
                        /\ a.type # "InitialContextSetupRequest"
                        /\ b.type # "InitialContextSetupRequest",
           \A e \in EntityId : (is_live(e)' /\ ent'[e].tunnel # None) =>
               is_live(e) /\ ent'[e].tunnel = ent[e].tunnel
    PROVE  Quiet
<1>1. Allocated' = Allocated
  BY DEF Allocated, Issued
<1>2. /\ Short(responses')
      /\ \A r \in Range(responses') : r.type # "InitialContextSetupRequest"
  BY TupleRange
<1> QED
  BY <1>1, <1>2 DEF Quiet, LiveIds

\* The same when one slot is written with the tunnel it had.
LEMMA QuietSlot ==
    ASSUME CpInv, NEW e \in EntityId, NEW n, ent' = [ent EXCEPT ![e] = n],
           n.tunnel = ent[e].tunnel, n.live = ent[e].live,
           UNCHANGED <<teid_next, teid_free>>, events' = <<>>,
           \/ responses' = <<>>
           \/ \E a : responses' = <<a>> /\ a.type # "InitialContextSetupRequest"
           \/ \E a, b : /\ responses' = <<a, b>>
                        /\ a.type # "InitialContextSetupRequest"
                        /\ b.type # "InitialContextSetupRequest"
    PROVE  Quiet
<1>1. \A f \in EntityId : ent'[f].tunnel = ent[f].tunnel /\ ent'[f].live = ent[f].live
  BY DEF CpInv, WorldInv, WorldTypeOK
<1> QED
  BY <1>1, QuietStep DEF is_live

\* An early return.
LEMMA DropQuiet == CpInv /\ Drop => Quiet
<1> SUFFICES ASSUME CpInv, Drop PROVE Quiet
  OBVIOUS
<1>1. ent' = ent /\ UNCHANGED <<teid_next, teid_free>> /\ responses' = <<>> /\ events' = <<>>
  BY DEF Drop, coreVars, Returns
<1> QED
  BY <1>1, QuietStep DEF is_live

\* AuthenticationResponse.
LEMMA VerifyResQuiet ==
    ASSUME CpInv, NEW e \in EntityId, NEW ran, NEW s, SlotView(e, s), NEW res,
           VerifyRes(e, ran, s, res)
    PROVE  Quiet
<1>1. CASE Drop
  BY <1>1, DropQuiet
<1>2. ASSUME NEW a, NEW r, ent' = [ent EXCEPT ![e] = [s EXCEPT !.xres = None, !.auth = a]],
             UNCHANGED <<teid_next, teid_free>>, events' = <<>>,
             \/ responses' = <<>>
             \/ responses' = <<r>> /\ r.type = "DownlinkNasTransport"
      PROVE  Quiet
  <2> DEFINE n == [s EXCEPT !.xres = None, !.auth = a]
  <2>1. n.tunnel = ent[e].tunnel /\ n.live = ent[e].live
    BY DEF SlotView, Slot
  <2> HIDE DEF n
  <2> QED
    BY <1>2, <2>1, QuietSlot DEF n
<1>3. DownlinkNasTransport(e, ran, Plain("SecurityModeCommand")).type = "DownlinkNasTransport"
  BY DEF DownlinkNasTransport
<1> QED
  BY <1>1, <1>2, <1>3 DEF VerifyRes, set_slot, Returns

\* Messages that are only logged.
LEMMA IgnoreQuiet ==
    ASSUME CpInv, NEW e \in EntityId, NEW s, SlotView(e, s), Ignore(e, s)
    PROVE  Quiet
BY QuietSlot DEF Ignore, Returns, SlotView

\* DetachRequest, DeregistrationRequest: the tunnel stays until the release is confirmed.
LEMMA DetachQuiet ==
    ASSUME CpInv, NEW e \in EntityId, NEW ran, NEW s, SlotView(e, s),
           NEW accept, NEW off, Detach(e, ran, s, accept, off)
    PROVE  Quiet
<1> DEFINE cmd == UeContextReleaseCommand(e, ran)
           plain == DownlinkNasTransport(e, ran, Plain(accept))
           protected == DownlinkNasTransport(e, ran, Protected(accept, s.nas))
<1>0. /\ cmd.type = "UeContextReleaseCommand"
      /\ plain.type = "DownlinkNasTransport"
      /\ protected.type = "DownlinkNasTransport"
  BY DEF UeContextReleaseCommand, DownlinkNasTransport
<1> HIDE DEF cmd, plain, protected
<1>1. CASE Drop
  BY <1>1, DropQuiet
<1>2. CASE /\ ent' = [ent EXCEPT ![e] = s] /\ UNCHANGED <<teid_next, teid_free>>
           /\ events' = <<>> /\ (responses' = <<cmd>> \/ responses' = <<plain, cmd>>)
  BY <1>0, <1>2, QuietSlot DEF SlotView
<1>3. CASE /\ set_slot(e, [s EXCEPT !.nas.dl_count = @ + 1])
           /\ UNCHANGED <<teid_next, teid_free>>
           /\ events' = <<>> /\ responses' = <<protected, cmd>>
  <2> DEFINE n == [s EXCEPT !.nas.dl_count = @ + 1]
  <2>1. n.tunnel = ent[e].tunnel /\ n.live = ent[e].live
    BY DEF SlotView, Slot
  <2>2. ent' = [ent EXCEPT ![e] = n]
    BY <1>3 DEF set_slot
  <2> HIDE DEF n
  <2> QED
    BY <1>0, <1>3, <2>1, <2>2, QuietSlot
<1> QED
  BY <1>1, <1>2, <1>3 DEF Detach, set_slot, Returns, cmd, plain, protected

\* SecurityModeComplete: with a UPF, a fresh TEID and its two announcements.
LEMMA ActivateNasKind ==
    ASSUME CpInv, NEW e \in EntityId, NEW ran, NEW s, SlotView(e, s), NEW accept,
           NEW ip \in UeIp, ActivateNas(e, ran, s, accept, ip)
    PROVE  Quiet \/ \E t \in UlTeid : Opens(t, e)
<1> DEFINE nas == [key |-> s.ck, ul_count |-> 0, dl_count |-> 0]
           secured == [s EXCEPT !.ck = None, !.nas = [nas EXCEPT !.dl_count = 1]]
<1>1. CASE ~is_live(e)
  BY <1>1, DropQuiet DEF ActivateNas
<1>2. secured.tunnel = ent[e].tunnel /\ secured.live = ent[e].live
  BY DEF SlotView, Slot
<1>3. CASE is_live(e) /\ ~WithUpf
  <2> DEFINE a == DownlinkNasTransport(e, ran, Protected(accept, nas))
  <2>1. /\ ent' = [ent EXCEPT ![e] = secured]
        /\ UNCHANGED <<teid_next, teid_free>> /\ events' = <<>> /\ responses' = <<a>>
    BY <1>3 DEF ActivateNas, set_slot, Returns
  <2>2. a.type # "InitialContextSetupRequest"
    BY DEF DownlinkNasTransport
  <2> HIDE DEF a, secured
  <2> QED
    BY <1>2, <2>1, <2>2, QuietSlot
<1>4. CASE is_live(e) /\ WithUpf
  <2> DEFINE t == AllocTeid
             new == [secured EXCEPT !.tunnel = [ul_teid |-> t, dl_teid |-> 0]]
             msg == InitialContextSetupRequest(e, ran, t, Protected(accept, nas))
             evt == CreateSession(t, e, s.imsi, ip)
  <2>1. /\ alloc /\ ent' = [ent EXCEPT ![e] = new]
        /\ responses' = <<msg>> /\ events' = <<evt>>
    BY <1>4 DEF ActivateNas, set_slot, Returns
  <2>2. t \in Teid \ Allocated /\ Allocated' = Allocated \cup {t}
    BY <2>1, AllocStep, TeidPoolSplit DEF CpInv
  <2>3. new.live = ent[e].live /\ new.tunnel = [ul_teid |-> t, dl_teid |-> 0]
    BY <1>2 DEF SlotView, Slot
  <2> HIDE DEF new, t
  <2>4. /\ ent'[e] = new
        /\ \A f \in EntityId \ {e} : ent'[f] = ent[f]
    BY <2>1 DEF CpInv, WorldInv, WorldTypeOK
  <2>5. LiveIds' = LiveIds /\ e \in LiveIds
    BY <1>4, <2>3, <2>4 DEF LiveIds, is_live
  <2>6. s.imsi \in Imsi \cup {NoImsi} /\ t \in UlTeid
    BY <2>2, LoopAssumption DEF SlotView, Slot
  <2>7. Opens(t, e)
    BY <2>1, <2>2, <2>3, <2>4, <2>5, <2>6 DEF Opens, LiveIds
  <2> QED
    BY <2>6, <2>7
<1> QED
  BY <1>1, <1>3, <1>4, ControlPlaneAssumption

\* InitialContextSetupResponse.
LEMMA BearerSetUpKind ==
    ASSUME CpInv, NEW e \in EntityId, NEW dl \in DlTeid \cup {None},
           BearerSetUp(e, dl)
    PROVE  Quiet \/ \E t \in UlTeid : Redirects(t, e, dl)
<1>1. CASE Drop
  BY <1>1, DropQuiet
<1>2. CASE /\ dl # None /\ tunnel(e) # None
           /\ set_slot(e, [ent[e] EXCEPT !.tunnel.dl_teid = dl])
           /\ Returns(<<>>, <<UpdateBearer(tunnel(e).ul_teid, dl)>>)
           /\ UNCHANGED <<registry, sqn, teid_next, teid_free>>
  <2> DEFINE t == ent[e].tunnel.ul_teid
             tun == [ent[e].tunnel EXCEPT !.dl_teid = dl]
             new == [ent[e] EXCEPT !.tunnel = tun]
  <2>1. e \in LiveIds /\ ent[e].tunnel # None /\ tunnel(e) = ent[e].tunnel
    BY <1>2 DEF tunnel, LiveIds
  <2>2. ent[e] \in Slot /\ ent[e].tunnel \in Tunnel
    BY <2>1 DEF CpInv, WorldInv, WorldTypeOK, Slot
  <2>3. tun = [ul_teid |-> t, dl_teid |-> dl]
    BY <2>2 DEF Tunnel
  <2>4. ent' = [ent EXCEPT ![e] = new]
    BY <1>2 DEF set_slot
  <2>5. responses' = <<>> /\ events' = <<UpdateBearer(t, dl)>>
    BY <1>2, <2>1 DEF Returns
  <2> HIDE DEF tun
  <2>6. new.live = ent[e].live /\ new.tunnel = tun
    BY <2>2 DEF Slot
  <2> HIDE DEF new, t
  <2>7. /\ ent'[e] = new
        /\ \A f \in EntityId \ {e} : ent'[f] = ent[f]
    BY <2>4 DEF CpInv, WorldInv, WorldTypeOK
  <2>8. LiveIds' = LiveIds
    BY <2>6, <2>7 DEF LiveIds, is_live
  <2>9. Allocated' = Allocated
    BY <1>2 DEF Allocated, Issued
  <2>10. t \in UlTeid
    BY <2>1, LoopAssumption DEF CpInv, TeidPool, Allocated, Issued, t
  <2>11. Redirects(t, e, dl)
    BY <1>2, <2>1, <2>3, <2>5, <2>6, <2>7, <2>8, <2>9 DEF Redirects, LiveIds, t
  <2> QED
    BY <2>10, <2>11
<1> QED
  BY <1>1, <1>2 DEF BearerSetUp

\* UeContextReleaseComplete.
LEMMA TeardownKind ==
    ASSUME CpInv, NEW e \in EntityId, Teardown(e)
    PROVE  Quiet \/ \E t \in UlTeid : Closes(t, e)
<1>1. /\ LiveIds' = LiveIds \ {e}
      /\ \A f \in EntityId \ {e} : ent'[f] = ent[f]
  BY DespawnStep DEF CpInv, Teardown
<1>2. CASE tunnel(e) = None
  <2>1. UNCHANGED <<teid_next, teid_free>> /\ responses' = <<>> /\ events' = <<>>
    BY <1>2 DEF Teardown, Returns
  <2>2. \A f \in EntityId : (is_live(f)' /\ ent'[f].tunnel # None) =>
            is_live(f) /\ ent'[f].tunnel = ent[f].tunnel
    BY <1>1 DEF LiveIds
  <2> QED
    BY <2>1, <2>2, QuietStep
<1>3. CASE tunnel(e) # None
  <2> DEFINE t == ent[e].tunnel.ul_teid
  <2>1. /\ e \in LiveIds /\ ent[e].tunnel # None
        /\ release(t) /\ responses' = <<>> /\ events' = <<RemoveSession(t)>>
    BY <1>3 DEF Teardown, tunnel, LiveIds, Returns
  <2>2. t \in Allocated
    BY <2>1 DEF CpInv, TeidPool
  <2>3. Allocated' = Allocated \ {t}
    BY <2>1, <2>2, ReleaseStep, TeidPoolSplit DEF CpInv
  <2>4. t \in UlTeid
    BY <2>2, LoopAssumption DEF Allocated, Issued
  <2>5. Closes(t, e)
    BY <1>1, <2>1, <2>3 DEF Closes, LiveIds
  <2> QED
    BY <2>4, <2>5
<1> QED
  BY <1>2, <1>3

-----------------------------------------------------------------------------
(* Receive: the call of process_s1ap or process_ngap.                      *)

\* The two sides between two messages.
LEMMA DrainedAgree ==
    ASSUME LoopInv, Drained
    PROVE  /\ Live = Allocated /\ Allocated \subseteq UlTeid
           /\ \A e \in LiveIds : ent[e].tunnel # None =>
                 /\ ent[e].tunnel.ul_teid \in Allocated
                 /\ sessions[ent[e].tunnel.ul_teid] # NoEntry
                 /\ sessions[ent[e].tunnel.ul_teid].entity = e
                 /\ sessions[ent[e].tunnel.ul_teid].to.dl_teid = ent[e].tunnel.dl_teid
<1>1. call.fn = "idle" /\ events = <<>>
  BY DEF Drained, Idle
<1>2. \A type, t : ~Queued(type, t) /\ ~Removing(t)
  BY <1>1 DEF Queued, Removing
<1>3. Allocated \subseteq UlTeid
  BY LoopAssumption DEF Allocated, Issued
<1>4. Live = Allocated
  BY <1>2, <1>3 DEF LoopInv, TeidsMatch, Live
<1>5. \A e \in LiveIds : ent[e].tunnel # None => ent[e].tunnel.ul_teid \in Allocated
  BY DEF LoopInv, CpInv, TeidPool
<1> QED
  BY <1>1, <1>2, <1>3, <1>4, <1>5 DEF LoopInv, TunnelsServed, Served

\* A call that opens, redirects and closes nothing.
LEMMA QuietKeeps ==
    ASSUME LoopInv, Drained, CpInv', UNCHANGED upfVars, Quiet
    PROVE  LoopInv'
<1>1. call'.fn = "idle" /\ events' = <<>> /\ sessions' = sessions
  BY DEF Drained, Idle, Quiet, upfVars
<1>2. \A type, t : ~Queued(type, t)' /\ ~Removing(t)'
  BY <1>1 DEF Queued, Removing
<1>3. UpfCore'
  BY StutterCore DEF LoopInv
<1>4. TeidsMatch'
  BY <1>1, <1>2, DrainedAgree DEF TeidsMatch, Live, Quiet
<1>5. TunnelsServed'
  <2> SUFFICES ASSUME NEW e \in LiveIds', ent'[e].tunnel # None
               PROVE  Served(e, ent[e].tunnel.ul_teid, ent[e].tunnel.dl_teid)'
    BY DEF TunnelsServed
  <2>1. e \in LiveIds /\ ent'[e].tunnel = ent[e].tunnel
    BY DEF Quiet
  <2> QED
    BY <1>1, <1>2, <2>1, DrainedAgree DEF Served
<1>6. Answers'
  BY <1>2 DEF Answers, Announced, Quiet
<1> QED
  BY <1>1, <1>3, <1>4, <1>5, <1>6 DEF LoopInv, EventsOK

\* A fresh TEID is announced to both sides.
LEMMA OpensKeeps ==
    ASSUME LoopInv, Drained, CpInv', UNCHANGED upfVars, NEW t \in UlTeid,
           NEW e \in EntityId, Opens(t, e)
    PROVE  LoopInv'
<1>1. call' = Idle /\ call'.fn = "idle" /\ sessions' = sessions
  BY DEF Drained, Idle, upfVars
<1>2. PICK imsi \in Imsi \cup {NoImsi}, ip \in UeIp :
          events' = <<CreateSession(t, e, imsi, ip)>>
  BY DEF Opens
<1> DEFINE evt == CreateSession(t, e, imsi, ip)
<1>3. /\ evt \in CreateEvent /\ evt.type = "CreateSession" /\ evt.ul_teid = t
      /\ evt.entity = e
  BY DEF CreateSession, CreateEvent
<1> HIDE DEF evt
<1>4. Head(events') = evt /\ events' # <<>>
  BY <1>2 DEF evt
<1>5. \A type, u : Queued(type, u)' <=> type = "CreateSession" /\ u = t
  BY <1>3, <1>4 DEF Queued
<1>6. \A u : ~Removing(u)'
  BY <1>1, <1>5 DEF Removing
<1>7. UpfCore' /\ EventsOK'
  BY <1>1, <1>2, <1>3, StutterCore DEF LoopInv, EventsOK, evt
<1>8. TeidsMatch'
  BY <1>1, <1>5, <1>6, DrainedAgree DEF TeidsMatch, Live, Opens
<1>9. TunnelsServed'
  <2> SUFFICES ASSUME NEW f \in LiveIds', ent'[f].tunnel # None
               PROVE  Served(f, ent[f].tunnel.ul_teid, ent[f].tunnel.dl_teid)'
    BY DEF TunnelsServed
  <2>1. CASE f = e
    <3>1. ent'[e].tunnel.ul_teid = t /\ ent'[e].tunnel.dl_teid = 0
      BY DEF Opens
    <3> QED
      BY <1>3, <1>4, <1>5, <2>1, <3>1 DEF Served
  <2>2. CASE f # e
    <3>1. f \in LiveIds /\ ent'[f].tunnel = ent[f].tunnel
      BY <2>2 DEF Opens
    <3> QED
      BY <1>1, <1>5, <3>1, DrainedAgree DEF Served
  <2> QED
    BY <2>1, <2>2
<1>10. Answers'
  <2>1. PICK r : responses' = <<r>> /\ r.ul_teid = t
    BY DEF Opens, InitialContextSetupRequest
  <2>2. \A a \in Announced' : a.ul_teid = t
    BY <2>1, TupleRange DEF Announced
  <2>3. Short(responses')
    BY <2>1, TupleRange
  <2> QED
    BY <1>5, <1>6, <2>2, <2>3 DEF Answers
<1> QED
  BY <1>7, <1>8, <1>9, <1>10 DEF LoopInv

\* The downlink TEID is on its way to the UPF.
LEMMA RedirectsKeeps ==
    ASSUME LoopInv, Drained, CpInv', UNCHANGED upfVars, NEW t \in UlTeid,
           NEW e \in EntityId, NEW dl \in DlTeid, Redirects(t, e, dl)
    PROVE  LoopInv'
<1>1. call' = Idle /\ call'.fn = "idle" /\ sessions' = sessions
  BY DEF Drained, Idle, upfVars
<1> DEFINE evt == UpdateBearer(t, dl)
<1>2. events' = <<evt>>
  BY DEF Redirects
<1>3. /\ evt \in UpdateEvent /\ evt.type = "UpdateBearer" /\ evt.ul_teid = t
      /\ evt.dl_teid = dl
  BY DEF UpdateBearer, UpdateEvent
<1> HIDE DEF evt
<1>4. Head(events') = evt /\ events' # <<>>
  BY <1>2
<1>5. \A type, u : Queued(type, u)' <=> type = "UpdateBearer" /\ u = t
  BY <1>3, <1>4 DEF Queued
<1>6. \A u : ~Removing(u)'
  BY <1>1, <1>5 DEF Removing
<1>7. UpfCore' /\ EventsOK'
  BY <1>1, <1>2, <1>3, StutterCore DEF LoopInv, EventsOK
<1>8. TeidsMatch'
  BY <1>1, <1>5, <1>6, DrainedAgree DEF TeidsMatch, Live, Redirects
<1>9. TunnelsServed'
  <2> SUFFICES ASSUME NEW f \in LiveIds', ent'[f].tunnel # None
               PROVE  Served(f, ent[f].tunnel.ul_teid, ent[f].tunnel.dl_teid)'
    BY DEF TunnelsServed
  <2>1. CASE f = e
    <3>1. /\ ent'[e].tunnel.ul_teid = t /\ ent'[e].tunnel.dl_teid = dl
          /\ e \in LiveIds /\ ent[e].tunnel # None /\ ent[e].tunnel.ul_teid = t
      BY DEF Redirects
    <3> QED
      BY <1>1, <1>3, <1>4, <1>5, <2>1, <3>1, DrainedAgree DEF Served
  <2>2. CASE f # e
    <3>1. /\ f \in LiveIds /\ ent'[f].tunnel = ent[f].tunnel
          /\ e \in LiveIds /\ ent[e].tunnel # None /\ ent[e].tunnel.ul_teid = t
      BY <2>2 DEF Redirects
    <3>2. ent[f].tunnel.ul_teid # t
      BY <2>2, <3>1 DEF LoopInv, CpInv, TeidPool
    <3> QED
      BY <1>1, <1>5, <3>1, <3>2, DrainedAgree DEF Served
  <2> QED
    BY <2>1, <2>2
<1>10. Answers'
  BY <1>6, TupleRange DEF Answers, Announced, Redirects
<1> QED
  BY <1>7, <1>8, <1>9, <1>10 DEF LoopInv

\* The TEID is free for the core while the UPF still has its session.
LEMMA ClosesKeeps ==
    ASSUME LoopInv, Drained, CpInv', UNCHANGED upfVars, NEW t \in UlTeid,
           NEW e \in EntityId, Closes(t, e)
    PROVE  LoopInv'
<1>1. call' = Idle /\ call'.fn = "idle" /\ sessions' = sessions
  BY DEF Drained, Idle, upfVars
<1> DEFINE evt == RemoveSession(t)
<1>2. events' = <<evt>>
  BY DEF Closes
<1>3. evt \in RemoveEvent /\ evt.type = "RemoveSession" /\ evt.ul_teid = t
  BY DEF RemoveSession, RemoveEvent
<1> HIDE DEF evt
<1>4. Head(events') = evt /\ events' # <<>>
  BY <1>2
<1>5. \A type, u : Queued(type, u)' <=> type = "RemoveSession" /\ u = t
  BY <1>3, <1>4 DEF Queued
<1>6. \A u : Removing(u)' <=> u = t
  BY <1>1, <1>5 DEF Removing
<1>7. UpfCore' /\ EventsOK'
  BY <1>1, <1>2, <1>3, StutterCore DEF LoopInv, EventsOK
<1>8. TeidsMatch'
  <2>1. t \in Allocated
    BY DrainedAgree DEF Closes
  <2> QED
    BY <1>1, <1>5, <1>6, <2>1, DrainedAgree DEF TeidsMatch, Live, Closes
<1>9. TunnelsServed'
  <2> SUFFICES ASSUME NEW f \in LiveIds', ent'[f].tunnel # None
               PROVE  Served(f, ent[f].tunnel.ul_teid, ent[f].tunnel.dl_teid)'
    BY DEF TunnelsServed
  <2>1. f \in LiveIds /\ ent'[f].tunnel = ent[f].tunnel
    BY DEF Closes
  <2> QED
    BY <1>1, <1>5, <2>1, DrainedAgree DEF Served
<1>10. Answers'
  BY TupleRange DEF Answers, Announced, Closes
<1> QED
  BY <1>7, <1>8, <1>9, <1>10 DEF LoopInv

\* One call of process_s1ap or process_ngap, of whichever kind.
LEMMA KindKeeps ==
    ASSUME LoopInv, Drained, CpInv', UNCHANGED upfVars,
           \/ Quiet
           \/ \E t \in UlTeid, e \in EntityId : Opens(t, e)
           \/ \E t \in UlTeid, e \in EntityId, dl \in DlTeid : Redirects(t, e, dl)
           \/ \E t \in UlTeid, e \in EntityId : Closes(t, e)
    PROVE  LoopInv'
<1>1. CASE Quiet
  BY <1>1, QuietKeeps
<1>2. ASSUME NEW t \in UlTeid, NEW e \in EntityId, Opens(t, e) PROVE LoopInv'
  BY <1>2, OpensKeeps
<1>3. ASSUME NEW t \in UlTeid, NEW e \in EntityId, NEW dl \in DlTeid, Redirects(t, e, dl)
      PROVE  LoopInv'
  BY <1>3, RedirectsKeeps
<1>4. ASSUME NEW t \in UlTeid, NEW e \in EntityId, Closes(t, e) PROVE LoopInv'
  BY <1>4, ClosesKeeps
<1> QED
  BY <1>1, <1>2, <1>3, <1>4

-----------------------------------------------------------------------------
(* The UPF's part of the loop.                                             *)

\* What is left of LoopInv when only the UPF moves: the core and the responses
\* stay, and no event is left.
UpfPart == UpfCore /\ TeidsMatch /\ TunnelsServed /\ Answers

\* A step of the UPF leaves the rest of LoopInv alone.
LEMMA UpfMoves ==
    ASSUME LoopInv, UNCHANGED <<coreVars, responses>>, events' = <<>>
    PROVE  /\ CpInv' /\ EventsOK' /\ LiveIds' = LiveIds /\ Allocated' = Allocated
           /\ ent' = ent /\ Announced' = Announced
           /\ \A type, t : ~Queued(type, t)'
           /\ UpfPart' => LoopInv'
<1>1. CpInv'
  BY DropStep DEF LoopInv
<1>2. EventsOK' /\ \A type, t : ~Queued(type, t)'
  BY DEF EventsOK, Queued
<1>3. /\ LiveIds' = LiveIds /\ Allocated' = Allocated /\ ent' = ent
      /\ Announced' = Announced
  BY DEF coreVars, LiveIds, is_live, Allocated, Issued, Announced
<1> QED
  BY <1>1, <1>2, <1>3 DEF LoopInv, UpfPart

\* The event at the head is the only one, and its type says what is in it.
LEMMA HeadEvent ==
    ASSUME LoopInv, events # <<>>
    PROVE  /\ call = Idle /\ Tail(events) = <<>>
           /\ Head(events) \in CreateEvent \cup UpdateEvent \cup RemoveEvent
           /\ Head(events).type = "CreateSession" => Head(events) \in CreateEvent
           /\ Head(events).type = "UpdateBearer" => Head(events) \in UpdateEvent
           /\ Head(events).type = "RemoveSession" => Head(events) \in RemoveEvent
           /\ Head(events).ul_teid \in UlTeid
<1>1. PICK evt \in CreateEvent \cup UpdateEvent \cup RemoveEvent : events = <<evt>>
  BY DEF LoopInv, EventsOK
<1>2. Head(events) = evt /\ Tail(events) = <<>> /\ call = Idle
  BY <1>1 DEF LoopInv, EventsOK
<1>3. /\ evt.type = "CreateSession" => evt \in CreateEvent
      /\ evt.type = "UpdateBearer" => evt \in UpdateEvent
      /\ evt.type = "RemoveSession" => evt \in RemoveEvent
      /\ evt.ul_teid \in UlTeid
  BY <1>1 DEF CreateEvent, UpdateEvent, RemoveEvent
<1> QED
  BY <1>1, <1>2, <1>3

\* CreateSession reaches the SessionManager.
LEMMA ApplyCreate ==
    ASSUME LoopInv, events # <<>>, Head(events).type = "CreateSession",
           create_session_with_teid(Head(events).ul_teid, Head(events).entity,
                                    Head(events).ue_ip, 0),
           events' = Tail(events), UNCHANGED <<coreVars, responses>>
    PROVE  /\ LoopInv' /\ sessions[Head(events).ul_teid] = NoEntry
           /\ Head(events).ul_teid \in UlTeid /\ Head(events).entity \in EntityId
           /\ \E s \in Session :
                 /\ s.entity = Head(events).entity
                 /\ sessions' = [sessions EXCEPT ![Head(events).ul_teid] = s]
<1> DEFINE t == Head(events).ul_teid
           e == Head(events).entity
           ip == Head(events).ue_ip
           to == [dl_teid |-> 0, enb_addr |-> 0]
           s == [entity |-> e, ue_ip |-> ip, to |-> to]
           r == [ue_ip |-> ip, to |-> to]
<1>1. /\ call = Idle /\ events' = <<>> /\ t \in UlTeid
      /\ e \in EntityId /\ e \in Entity /\ ip \in UeIp /\ 0 \in EnbAddr
  BY HeadEvent, LoopAssumption DEF CreateEvent
<1>2. UpfCore'
  BY <1>1, CreateWithTeidCore DEF LoopInv
<1>3. s \in Session /\ r \in Route /\ s # NoEntry /\ r # NoEntry
  BY <1>1, NoEntryAssumption DEF Session, Route, Endpoint
<1>4. s.entity = e /\ s.to.dl_teid = 0
  OBVIOUS
<1>5. /\ sessions' = [sessions EXCEPT ![t] = s] /\ ul_map' = [ul_map EXCEPT ![t] = r]
      /\ call'.fn = "insert"
  BY DEF create_session_with_teid, InstallSession, install
<1> HIDE DEF s, r
<1>6. /\ sessions'[t] = s /\ ul_map'[t] = r
      /\ \A u \in UlTeid \ {t} : sessions'[u] = sessions[u] /\ ul_map'[u] = ul_map[u]
  BY <1>1, <1>5 DEF LoopInv, UpfCore, UpfTypeOK
<1>7. /\ \A type, u : Queued(type, u) <=> type = "CreateSession" /\ u = t
      /\ \A u : ~Removing(u)
  BY <1>1 DEF Queued, Removing, Idle
<1>8. \A u : ~Removing(u)'
  BY <1>1, <1>5, UpfMoves DEF Removing
<1>9. t \in Allocated /\ t \notin Live
  BY <1>1, <1>7 DEF LoopInv, TeidsMatch
<1> HIDE DEF t, e, ip
<1>10. TeidsMatch'
  <2>1. Live' = Live \cup {t}
    BY <1>1, <1>3, <1>6 DEF Live
  <2> QED
    BY <1>1, <1>7, <1>8, <1>9, <2>1, UpfMoves DEF LoopInv, TeidsMatch
<1>11. TunnelsServed'
  <2> SUFFICES ASSUME NEW f \in LiveIds', ent'[f].tunnel # None
               PROVE  Served(f, ent[f].tunnel.ul_teid, ent[f].tunnel.dl_teid)'
    BY DEF TunnelsServed
  <2> DEFINE u == ent[f].tunnel.ul_teid
             dl == ent[f].tunnel.dl_teid
  <2>1. f \in LiveIds /\ ent' = ent /\ u \in UlTeid /\ Served(f, u, dl)
    BY <1>1, UpfMoves, LoopAssumption
       DEF LoopInv, TunnelsServed, CpInv, TeidPool, Allocated, Issued
  <2> HIDE DEF u, dl
  <2>2. CASE Queued("CreateSession", u)
    <3>1. u = t
      BY <1>7, <2>2
    <3>2. sessions[t] = NoEntry
      BY <1>1, <1>9 DEF Live
    <3>3. e = f /\ dl = 0
      BY <2>1, <3>1, <3>2 DEF Served, e
    <3> QED
      BY <1>1, <1>3, <1>4, <1>5, <1>6, <2>1, <3>1, <3>3, UpfMoves DEF Served, u, dl
  <2>3. CASE ~Queued("CreateSession", u)
    <3>1. u # t
      BY <1>7, <2>3
    <3>2. /\ sessions[u] # NoEntry /\ sessions[u].entity = f
          /\ sessions[u].to.dl_teid = dl
      BY <1>1, <1>7, <2>1, <2>3 DEF Served, Idle
    <3> QED
      BY <1>1, <1>5, <1>6, <2>1, <3>1, <3>2, UpfMoves DEF Served, u, dl
  <2> QED
    BY <2>2, <2>3
<1>12. Answers'
  <2>1. \A a \in Announced : a.ul_teid \in UlTeid /\ ul_map'[a.ul_teid] # NoEntry
    BY <1>1, <1>3, <1>6, <1>7 DEF LoopInv, Answers
  <2> QED
    BY <1>1, <1>8, <2>1, UpfMoves DEF LoopInv, Answers
<1>13. LoopInv'
  BY <1>1, <1>2, <1>10, <1>11, <1>12, UpfMoves DEF UpfPart
<1> QED
  BY <1>1, <1>3, <1>4, <1>5, <1>9, <1>13 DEF Live, t, e

\* UpdateBearer reaches the SessionManager: its snapshot is taken.
LEMMA ApplyUpdate ==
    ASSUME LoopInv, events # <<>>, Head(events).type = "UpdateBearer",
           update_bearer_info(Head(events).ul_teid,
                              [dl_teid |-> Head(events).dl_teid, enb_addr |-> RanAddr]),
           events' = Tail(events), UNCHANGED <<coreVars, responses>>
    PROVE  LoopInv' /\ sessions' = sessions
<1> DEFINE t == Head(events).ul_teid
           to == [dl_teid |-> Head(events).dl_teid, enb_addr |-> RanAddr]
<1>1. /\ call = Idle /\ call.fn = "idle" /\ events' = <<>> /\ t \in UlTeid
      /\ Head(events).dl_teid \in BearerTeid /\ RanAddr \in EnbAddr
  BY HeadEvent, LoopAssumption DEF UpdateEvent, Idle
<1>2. to \in Endpoint /\ to.dl_teid = Head(events).dl_teid
  BY <1>1 DEF Endpoint
<1> HIDE DEF to
<1>3. UpfCore'
  BY <1>1, <1>2, UpdateCallCore DEF LoopInv, to
<1>4. sessions' = sessions /\ ul_map' = ul_map
  BY DEF update_bearer_info
<1>5. \/ call' = Idle /\ call'.fn = "idle" /\ ul_map[t] = NoEntry
      \/ call'.fn = "update" /\ call'.teid = t /\ call'.to = to
  BY DEF update_bearer_info, Idle, to
<1>6. /\ \A type, u : Queued(type, u) <=> type = "UpdateBearer" /\ u = t
      /\ \A u : ~Removing(u)
  BY <1>1 DEF Queued, Removing
<1>7. \A u : ~Removing(u)'
  BY <1>1, <1>5, UpfMoves DEF Removing
<1>8. TeidsMatch'
  BY <1>1, <1>4, <1>6, <1>7, UpfMoves DEF LoopInv, TeidsMatch, Live
<1>9. TunnelsServed'
  <2> SUFFICES ASSUME NEW f \in LiveIds', ent'[f].tunnel # None
               PROVE  Served(f, ent[f].tunnel.ul_teid, ent[f].tunnel.dl_teid)'
    BY DEF TunnelsServed
  <2> DEFINE u == ent[f].tunnel.ul_teid
             dl == ent[f].tunnel.dl_teid
  <2>1. f \in LiveIds /\ ent' = ent /\ u \in UlTeid /\ Served(f, u, dl)
    BY <1>1, UpfMoves, LoopAssumption
       DEF LoopInv, TunnelsServed, CpInv, TeidPool, Allocated, Issued
  <2> HIDE DEF u, dl
  <2>2. sessions[u] # NoEntry /\ sessions[u].entity = f
    BY <1>6, <2>1 DEF Served
  <2>3. u = t => ul_map[t] # NoEntry /\ to.dl_teid = dl
    BY <1>1, <1>2, <1>6, <2>1, <2>2, IdleRouted DEF Served, LoopInv
  <2>4. u # t => sessions[u].to.dl_teid = dl
    BY <1>1, <1>6, <2>1 DEF Served
  <2> QED
    BY <1>1, <1>4, <1>5, <2>1, <2>2, <2>3, <2>4, UpfMoves DEF Served, u, dl
<1>10. Answers'
  BY <1>1, <1>4, <1>6, <1>7, UpfMoves DEF LoopInv, Answers
<1> QED
  BY <1>1, <1>3, <1>4, <1>8, <1>9, <1>10, UpfMoves DEF UpfPart

\* RemoveSession reaches the SessionManager: the route goes first.
LEMMA ApplyRemove ==
    ASSUME LoopInv, events # <<>>, Head(events).type = "RemoveSession",
           remove_session(Head(events).ul_teid),
           events' = Tail(events), UNCHANGED <<coreVars, responses>>
    PROVE  LoopInv' /\ sessions' = sessions
<1> DEFINE t == Head(events).ul_teid
<1>1. /\ call = Idle /\ call.fn = "idle" /\ events' = <<>> /\ t \in UlTeid
  BY HeadEvent DEF Idle
<1>2. UpfCore' /\ call'.fn = "remove" /\ call'.teid = t
  BY <1>1, RemoveCallCore DEF LoopInv
<1>3. sessions' = sessions
  BY DEF remove_session
<1>4. /\ \A type, u : Queued(type, u) <=> type = "RemoveSession" /\ u = t
      /\ \A u : Removing(u) <=> u = t
  BY <1>1 DEF Queued, Removing
<1>5. \A u : Removing(u)' <=> u = t
  BY <1>1, <1>2, UpfMoves DEF Removing
<1>6. TeidsMatch'
  BY <1>1, <1>3, <1>4, <1>5, UpfMoves DEF LoopInv, TeidsMatch, Live
<1>7. TunnelsServed'
  BY <1>1, <1>2, <1>3, <1>4, UpfMoves DEF LoopInv, TunnelsServed, Served
<1>8. Answers'
  <2>1. responses = <<>> /\ Announced = {}
    BY <1>1, <1>4, TupleRange DEF LoopInv, Answers, Announced
  <2> QED
    BY <1>1, <2>1, UpfMoves, TupleRange DEF Answers
<1> QED
  BY <1>1, <1>2, <1>3, <1>6, <1>7, <1>8, UpfMoves DEF UpfPart

\* Applying the queued event, whatever it is.
LEMMA ApplyEventStep ==
    ASSUME LoopInv, ApplyEvent
    PROVE  LoopInv'
<1>1. /\ events # <<>> /\ events' = Tail(events) /\ UNCHANGED <<coreVars, responses>>
      /\ apply_upf_event(Head(events))
  BY DEF ApplyEvent
<1> QED
  BY <1>1, ApplyCreate, ApplyUpdate, ApplyRemove DEF apply_upf_event

\* A call is in progress: no event is queued.
LEMMA CallAlone ==
    ASSUME LoopInv, UpfStep, UNCHANGED cpVars
    PROVE  /\ events = <<>> /\ events' = <<>> /\ UNCHANGED <<coreVars, responses>>
           /\ \A type, t : ~Queued(type, t)
<1>1. call # Idle
  BY DEF UpfStep, UpdateRoutes, MirrorTeid, MirrorUeRoute, UnmirrorTeid,
         UnmirrorUeRoute, Idle
<1>2. events = <<>>
  BY <1>1 DEF LoopInv, EventsOK
<1> QED
  BY <1>2 DEF Queued, cpVars, coreVars

\* The critical section of update_bearer_info.
LEMMA ServeUpdate ==
    ASSUME LoopInv, UpdateRoutes, UNCHANGED cpVars
    PROVE  /\ LoopInv' /\ call.teid \in UlTeid /\ sessions[call.teid] \in Session
           /\ sessions' = [sessions EXCEPT ![call.teid] =
                              [sessions[call.teid] EXCEPT !.to = call.to]]
<1> DEFINE t == call.teid
           s == [sessions[t] EXCEPT !.to = call.to]
           r == [ue_ip |-> call.ue_ip, to |-> call.to]
<1>1. /\ events' = <<>> /\ UNCHANGED <<coreVars, responses>>
      /\ \A type, u : ~Queued(type, u)
  BY CallAlone DEF UpfStep
<1>2. /\ UpfCore' /\ t \in UlTeid /\ call.ue_ip \in UeIp /\ call.to \in Endpoint
      /\ sessions[t] # NoEntry
      /\ sessions' = [sessions EXCEPT ![t] = s] /\ ul_map' = [ul_map EXCEPT ![t] = r]
      /\ call'.fn = "insert" /\ call.fn = "update"
  BY UpdateRoutesCore DEF LoopInv, UpdateRoutes
<1>3. sessions[t] \in Session
  BY <1>2 DEF LoopInv, UpfCore, UpfTypeOK
<1>4. s \in Session /\ s.entity = sessions[t].entity /\ s.to = call.to
  BY <1>2, <1>3 DEF Session
<1>5. s # NoEntry /\ r # NoEntry
  BY <1>2, <1>4, NoEntryAssumption DEF Route
<1> HIDE DEF s, r
<1>6. /\ sessions'[t] = s /\ ul_map'[t] = r
      /\ \A u \in UlTeid \ {t} : sessions'[u] = sessions[u] /\ ul_map'[u] = ul_map[u]
  BY <1>2 DEF LoopInv, UpfCore, UpfTypeOK
<1>7. \A u : ~Removing(u) /\ ~Removing(u)'
  BY <1>1, <1>2, UpfMoves DEF Removing
<1>8. TeidsMatch'
  <2>1. Live' = Live
    BY <1>2, <1>5, <1>6 DEF Live
  <2> QED
    BY <1>1, <1>7, <2>1, UpfMoves DEF LoopInv, TeidsMatch
<1>9. TunnelsServed'
  <2> SUFFICES ASSUME NEW f \in LiveIds', ent'[f].tunnel # None
               PROVE  Served(f, ent[f].tunnel.ul_teid, ent[f].tunnel.dl_teid)'
    BY DEF TunnelsServed
  <2> DEFINE u == ent[f].tunnel.ul_teid
             dl == ent[f].tunnel.dl_teid
  <2>1. f \in LiveIds /\ ent' = ent /\ u \in UlTeid /\ Served(f, u, dl)
    BY <1>1, UpfMoves, LoopAssumption
       DEF LoopInv, TunnelsServed, CpInv, TeidPool, Allocated, Issued
  <2> HIDE DEF u, dl
  <2>2. sessions[u] # NoEntry /\ sessions[u].entity = f
    BY <1>1, <2>1 DEF Served
  <2>3. u = t => call.to.dl_teid = dl
    BY <1>1, <1>2, <2>1 DEF Served
  <2>4. u # t => sessions[u].to.dl_teid = dl
    BY <1>1, <2>1 DEF Served
  <2> HIDE DEF t
  <2>5. sessions'[u] # NoEntry /\ sessions'[u].entity = f /\ sessions'[u].to.dl_teid = dl
    BY <1>4, <1>5, <1>6, <2>1, <2>2, <2>3, <2>4
  <2> QED
    BY <1>1, <1>2, <2>1, <2>5, UpfMoves DEF Served, u, dl
<1>10. Answers'
  <2>1. \A a \in Announced : a.ul_teid \in UlTeid /\ ul_map'[a.ul_teid] # NoEntry
    BY <1>1, <1>2, <1>5, <1>6 DEF LoopInv, Answers
  <2> QED
    BY <1>1, <1>7, <2>1, UpfMoves DEF LoopInv, Answers
<1>11. LoopInv'
  BY <1>1, <1>2, <1>8, <1>9, <1>10, UpfMoves DEF UpfPart
<1> QED
  BY <1>2, <1>3, <1>11 DEF s

\* The BPF map operations of a call.
LEMMA ServeMirror ==
    ASSUME LoopInv, MirrorTeid \/ MirrorUeRoute \/ UnmirrorTeid, UNCHANGED cpVars
    PROVE  LoopInv' /\ sessions' = sessions
<1>1. /\ events' = <<>> /\ UNCHANGED <<coreVars, responses>>
      /\ \A type, u : ~Queued(type, u)
  BY CallAlone DEF UpfStep
<1>2. UpfCore'
  BY UpfStepCore DEF UpfStep, LoopInv
<1>3. sessions' = sessions /\ ul_map' = ul_map
  BY DEF MirrorTeid, MirrorUeRoute, UnmirrorTeid
<1>4. \/ call.fn = "insert" /\ call'.fn \in {"insert", "idle"}
      \/ call.fn = "remove" /\ call'.fn = "remove" /\ call'.teid = call.teid
  <2>1. CASE MirrorTeid
    <3>1. call \in InsertCall /\ call.fn = "insert" /\ call' = [call EXCEPT !.pc = "ue_ip"]
      BY <2>1, CallShape DEF LoopInv, UpfCore, MirrorTeid
    <3> QED
      BY <3>1 DEF InsertCall
  <2>2. CASE MirrorUeRoute
    BY <2>2 DEF MirrorUeRoute, Idle
  <2>3. CASE UnmirrorTeid
    <3>1. call \in RemoveCall /\ call.fn = "remove" /\ call' = [call EXCEPT !.pc = "ue_ip"]
      BY <2>3, CallShape DEF LoopInv, UpfCore, UnmirrorTeid
    <3> QED
      BY <3>1 DEF RemoveCall
  <2> QED
    BY <2>1, <2>2, <2>3
<1>5. \A u : Removing(u)' <=> Removing(u)
  BY <1>1, <1>4, UpfMoves DEF Removing
<1>6. TeidsMatch'
  BY <1>1, <1>3, <1>5, UpfMoves DEF LoopInv, TeidsMatch, Live
<1>7. TunnelsServed'
  BY <1>1, <1>3, <1>4, UpfMoves DEF LoopInv, TunnelsServed, Served
<1>8. Answers'
  BY <1>1, <1>3, <1>5, UpfMoves DEF LoopInv, Answers
<1> QED
  BY <1>1, <1>2, <1>3, <1>6, <1>7, <1>8, UpfMoves DEF UpfPart

\* The end of remove_session: the record goes, and no tunnel uses it.
LEMMA ServeRemove ==
    ASSUME LoopInv, UnmirrorUeRoute, UNCHANGED cpVars
    PROVE  /\ LoopInv' /\ call.teid \in UlTeid
           /\ sessions' = [sessions EXCEPT ![call.teid] = NoEntry]
<1> DEFINE t == call.teid
<1>1. /\ events' = <<>> /\ UNCHANGED <<coreVars, responses>>
      /\ \A type, u : ~Queued(type, u)
  BY CallAlone DEF UpfStep
<1>2. /\ UpfCore' /\ t \in UlTeid /\ sessions' = [sessions EXCEPT ![t] = NoEntry]
      /\ call.fn = "remove" /\ call'.fn = "idle"
  BY UnmirrorUeRouteCore DEF LoopInv, UnmirrorUeRoute, Idle
<1>3. /\ sessions'[t] = NoEntry
      /\ \A u \in UlTeid \ {t} : sessions'[u] = sessions[u]
  BY <1>2 DEF LoopInv, UpfCore, UpfTypeOK
<1>4. /\ \A u : Removing(u) <=> u = t
      /\ \A u : ~Removing(u)'
  BY <1>1, <1>2, UpfMoves DEF Removing
<1>5. t \notin Allocated
  BY <1>2, <1>4 DEF LoopInv, TeidsMatch
<1>6. TeidsMatch'
  <2>1. Live' = Live \ {t}
    BY <1>3 DEF Live
  <2> QED
    BY <1>1, <1>2, <1>4, <1>5, <2>1, UpfMoves DEF LoopInv, TeidsMatch
<1>7. TunnelsServed'
  <2> SUFFICES ASSUME NEW f \in LiveIds', ent'[f].tunnel # None
               PROVE  Served(f, ent[f].tunnel.ul_teid, ent[f].tunnel.dl_teid)'
    BY DEF TunnelsServed
  <2> DEFINE u == ent[f].tunnel.ul_teid
             dl == ent[f].tunnel.dl_teid
  <2>1. /\ f \in LiveIds /\ ent' = ent /\ u \in UlTeid /\ u \in Allocated
        /\ Served(f, u, dl)
    BY <1>1, UpfMoves, LoopAssumption
       DEF LoopInv, TunnelsServed, CpInv, TeidPool, Allocated, Issued
  <2> HIDE DEF u, dl
  <2>2. sessions[u] # NoEntry /\ sessions[u].entity = f /\ sessions[u].to.dl_teid = dl
    BY <1>1, <1>2, <2>1 DEF Served
  <2>3. sessions'[u] = sessions[u]
    BY <1>3, <1>5, <2>1
  <2> QED
    BY <1>1, <1>2, <2>1, <2>2, <2>3, UpfMoves DEF Served, u, dl
<1>8. Answers'
  <2>1. responses = <<>> /\ Announced = {}
    BY <1>2, <1>4, TupleRange DEF LoopInv, Answers, Announced
  <2> QED
    BY <1>1, <2>1, UpfMoves, TupleRange DEF Answers
<1>9. LoopInv'
  BY <1>1, <1>2, <1>6, <1>7, <1>8, UpfMoves DEF UpfPart
<1> QED
  BY <1>2, <1>9

\* Each step of a call.
LEMMA ServeCallStep ==
    ASSUME LoopInv, ServeCall
    PROVE  LoopInv'
BY ServeUpdate, ServeMirror, ServeRemove DEF ServeCall, UpfStep

\* Of at most two waiting responses, the first one leaves.
LEMMA ShortTail ==
    ASSUME NEW s, Short(s), s # <<>>
    PROVE  /\ Short(Tail(s)) /\ Tail(s) # s
           /\ Range(Tail(s)) \subseteq Range(s)
<1>1. ASSUME NEW a, s = <<a>>
      PROVE  Short(Tail(s)) /\ Tail(s) # s /\ Range(Tail(s)) \subseteq Range(s)
  <2>1. Tail(s) = <<>>
    BY <1>1
  <2> QED
    BY <1>1, <2>1, TupleRange
<1>2. ASSUME NEW a, NEW b, s = <<a, b>>
      PROVE  Short(Tail(s)) /\ Tail(s) # s /\ Range(Tail(s)) \subseteq Range(s)
  <2>1. Tail(s) = <<b>>
    BY <1>2
  <2>2. Tail(s) # s
    BY <1>2, <2>1
  <2> QED
    BY <1>2, <2>1, <2>2, TupleRange
<1> QED
  BY <1>1, <1>2 DEF Short

\* A response leaves once all events are applied.
LEMMA SendResponseStep ==
    ASSUME LoopInv, SendResponse
    PROVE  LoopInv'
<1>1. /\ events = <<>> /\ events' = <<>> /\ responses # <<>> /\ responses' = Tail(responses)
      /\ UNCHANGED coreVars /\ UNCHANGED upfVars
  BY DEF SendResponse
<1>2. CpInv'
  BY <1>1, DropStep DEF LoopInv
<1>3. UpfCore'
  BY <1>1, StutterCore DEF LoopInv
<1>4. /\ call' = call /\ sessions' = sessions /\ ul_map' = ul_map
      /\ LiveIds' = LiveIds /\ Allocated' = Allocated /\ ent' = ent /\ Live' = Live
  BY <1>1 DEF upfVars, coreVars, LiveIds, is_live, Allocated, Issued, Live
<1>5. /\ \A type, t : Queued(type, t)' <=> Queued(type, t)
      /\ \A t : Removing(t)' <=> Removing(t)
  BY <1>1, <1>4 DEF Queued, Removing
<1>6. EventsOK' /\ TeidsMatch'
  BY <1>1, <1>4, <1>5 DEF LoopInv, EventsOK, TeidsMatch
<1>7. TunnelsServed'
  BY <1>1, <1>4, <1>5 DEF LoopInv, TunnelsServed, Served
<1>8. Answers'
  <2>1. Short(responses') /\ Announced' \subseteq Announced
    BY <1>1, ShortTail DEF LoopInv, Answers, Announced
  <2>2. \A t \in UlTeid : ~Removing(t)
    BY <1>1 DEF LoopInv, Answers
  <2> QED
    BY <1>4, <1>5, <2>1, <2>2 DEF LoopInv, Answers
<1> QED
  BY <1>2, <1>3, <1>6, <1>7, <1>8 DEF LoopInv

\* Nothing happens.
LEMMA LoopStutter ==
    ASSUME LoopInv, UNCHANGED loopVars
    PROVE  LoopInv'
<1>1. UNCHANGED coreVars /\ UNCHANGED upfVars /\ events' = events /\ responses' = responses
  BY DEF loopVars, cpVars, coreVars
<1>2. CpInv' /\ UpfCore'
  BY <1>1, DropStep, StutterCore DEF LoopInv
<1>3. /\ call' = call /\ sessions' = sessions /\ ul_map' = ul_map
      /\ LiveIds' = LiveIds /\ Allocated' = Allocated /\ ent' = ent /\ Live' = Live
      /\ Announced' = Announced
  BY <1>1 DEF upfVars, coreVars, LiveIds, is_live, Allocated, Issued, Live, Announced
<1>4. /\ \A type, t : Queued(type, t)' <=> Queued(type, t)
      /\ \A t : Removing(t)' <=> Removing(t)
  BY <1>1, <1>3 DEF Queued, Removing
<1>5. EventsOK' /\ TeidsMatch'
  BY <1>1, <1>3, <1>4 DEF LoopInv, EventsOK, TeidsMatch
<1>6. TunnelsServed'
  BY <1>1, <1>3, <1>4 DEF LoopInv, TunnelsServed, Served
<1>7. Answers'
  BY <1>1, <1>3, <1>4 DEF LoopInv, Answers
<1> QED
  BY <1>2, <1>5, <1>6, <1>7 DEF LoopInv

\* Both sides start empty.
LEMMA LoopInitInv == LoopInit => LoopInv
<1> SUFFICES ASSUME LoopInit PROVE LoopInv
  OBVIOUS
<1>1. CpInv /\ UpfCore
  BY CpInitInv, UpfInitCore DEF LoopInit
<1>2. events = <<>> /\ responses = <<>> /\ call.fn = "idle" /\ Allocated = {}
  BY TeidInitInv DEF LoopInit, CpInit, UpfInit, Idle
<1>3. Live = {}
  BY DEF LoopInit, UpfInit, Live
<1>4. \A e \in LiveIds : ent[e].tunnel = None
  BY EmptyIsSlot DEF LoopInit, CpInit, WorldInit, LiveIds
<1>5. \A type, t : ~Queued(type, t) /\ ~Removing(t)
  BY <1>2 DEF Queued, Removing
<1>6. EventsOK /\ TeidsMatch /\ TunnelsServed
  BY <1>2, <1>3, <1>4, <1>5 DEF EventsOK, TeidsMatch, TunnelsServed
<1>7. Answers
  BY <1>2, TupleRange DEF Answers, Announced
<1> QED
  BY <1>1, <1>6, <1>7 DEF LoopInv
=============================================================================
