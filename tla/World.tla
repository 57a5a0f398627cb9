------------------------------- MODULE World -------------------------------
(***************************************************************************)
(* midn_ecs::World: the subscriber store of the MME and of the AMF.        *)
(*                                                                         *)
(* The code keeps one dense Vec per component, indexed by the entity id.   *)
(* Here a slot is one record and `ent' maps every id to its slot.  An id   *)
(* that was never handed out has the Empty slot, which is what the code's  *)
(* bounds check in is_live makes of it.  A World is driven by one protocol *)
(* only, so the LTE and the 5G variants of the security components         *)
(* (security / security5g, nas_security / nas_security5g) share one field. *)
(*                                                                         *)
(* Data abstraction: an AKA vector is named by the subscriber and the      *)
(* sequence number it was made from (what the fresh RAND adds is not told  *)
(* apart); a zeroised field is None.  The RAN id kept in the identity component is *)
(* never read back by the code and is left out.                            *)
(***************************************************************************)
EXTENDS Integers, FiniteSets, SequencesExt

CONSTANTS
    Imsi,         \* the IMSIs that may appear in messages
    NoImsi,       \* the IMSI 0 of IdentityComponent::empty()
    None,         \* Rust's None, and a zeroised key or challenge
    MaxEntities   \* bound on the number of ids the counter hands out

ASSUME WorldAssumption ==
    /\ MaxEntities \in Nat
    /\ NoImsi \notin Imsi

VARIABLES
    next_id,      \* next id never handed out
    free_ids,     \* stack of despawned ids (Vec<u32>, popped at the end)
    live_count,   \* subscriber_count()
    ent           \* id -> slot

worldVars == <<next_id, free_ids, live_count, ent>>

EntityId == 0 .. MaxEntities - 1

\* An authentication vector: everything generate_auth_vector derives from the
\* key of `imsi' and the sequence number `sqn'.
Vector == [imsi : Imsi, sqn : Nat]

\* NasSecurityContext: the vector its keys descend from (None: keys derived
\* from zeroised CK/IK/AK) and the two COUNTs.
NasContext == [key : Vector \cup {None}, ul_count : Nat, dl_count : Nat]

\* TunnelComponent; dl_teid 0 (with address 0.0.0.0) is the placeholder.
Tunnel == [ul_teid : Nat, dl_teid : Nat]

AuthState == {"Unauthenticated", "ChallengeIssued", "Authenticated", "Failed"}

Slot == [live   : BOOLEAN,
         imsi   : Imsi \cup {NoImsi},
         auth   : AuthState,
         xres   : Vector \cup {None},      \* pending_rand, pending_xres
         ck     : Vector \cup {None},      \* ck, ik, ak
         nas    : NasContext \cup {None},
         tunnel : Tunnel \cup {None}]

ASSUME NoneAssumption ==
    /\ None \notin EntityId /\ None \notin Nat
    /\ None \notin Vector
    /\ None \notin NasContext
    /\ None \notin Tunnel

\* A slot after despawn, or freshly pushed by spawn.
Empty == [live |-> FALSE, imsi |-> NoImsi, auth |-> "Unauthenticated",
          xres |-> None, ck |-> None, nas |-> None, tunnel |-> None]

WorldInit ==
    /\ next_id = 0
    /\ free_ids = <<>>
    /\ live_count = 0
    /\ ent = [e \in EntityId |-> Empty]

is_live(e) == ent[e].live

\* The tunnel component of a live entity.
tunnel(e) == IF is_live(e) THEN ent[e].tunnel ELSE None

LiveIds == {e \in EntityId : is_live(e)}

\* The id that spawn() will return.
SpawnId == IF free_ids # <<>> THEN Last(free_ids) ELSE next_id

\* spawn() followed by the insert_* / set_* calls of the caller, which turn
\* the slot found under SpawnId into `slot'.  A recycled slot is not written
\* by spawn itself: it has whatever despawn left in it.
spawn(slot) ==
    /\ \/ /\ free_ids # <<>>
          /\ free_ids' = Front(free_ids)
          /\ UNCHANGED next_id
       \/ /\ free_ids = <<>>
          /\ next_id < MaxEntities
          /\ next_id' = next_id + 1
          /\ UNCHANGED free_ids
    /\ live_count' = live_count + 1
    /\ ent' = [ent EXCEPT ![SpawnId] = [slot EXCEPT !.live = TRUE]]

\* Mutant of despawn: no early return, so an id can be given back twice.
DespawnTwice(e) ==
    /\ ent' = [ent EXCEPT ![e] = Empty]
    /\ free_ids' = Append(free_ids, e)
    /\ live_count' = live_count - 1
    /\ UNCHANGED next_id

\* Mutant of despawn: the components are left for the next owner.
DespawnUnwiped(e) ==
    \/ /\ ~is_live(e)
       /\ UNCHANGED worldVars
    \/ /\ is_live(e)
       /\ ent' = [ent EXCEPT ![e].live = FALSE]
       /\ free_ids' = Append(free_ids, e)
       /\ live_count' = live_count - 1
       /\ UNCHANGED next_id

\* despawn(id): returns early on an id that is not live.
despawn(e) ==
    \/ /\ ~is_live(e)
       /\ UNCHANGED worldVars
    \/ /\ is_live(e)
       /\ ent' = [ent EXCEPT ![e] = Empty]
       /\ free_ids' = Append(free_ids, e)
       /\ live_count' = live_count - 1
       /\ UNCHANGED next_id

\* The setters: all of them write the slot of a live entity and nothing else.
set_slot(e, slot) ==
    /\ ent' = [ent EXCEPT ![e] = slot]
    /\ UNCHANGED <<next_id, free_ids, live_count>>

-----------------------------------------------------------------------------

WorldTypeOK ==
    /\ next_id \in 0 .. MaxEntities
    /\ free_ids \in Seq(EntityId)
    /\ live_count \in Int
    /\ ent \in [EntityId -> Slot]

\* Entity ids are recycled exactly: the free stack holds every id that was
\* handed out and is no longer live, once, so spawn never returns an id that
\* another subscriber still uses (World::spawn, World::despawn).
EntityPool ==
    /\ IsInjective(free_ids)
    /\ Range(free_ids) = {e \in EntityId : e < next_id /\ ~is_live(e)}
    /\ \A e \in EntityId : e >= next_id => ~is_live(e)

\* A slot that is not live holds nothing of the subscriber that had it:
\* spawn relies on it, because it does not reset a recycled slot.
DeadSlotsEmpty == \A e \in EntityId : ~is_live(e) => ent[e] = Empty

\* subscriber_count() is the number of live entities, and so never underflows.
CountMatches == live_count = Cardinality(LiveIds)
=============================================================================
