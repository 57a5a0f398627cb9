-------------------------------- MODULE Upf --------------------------------
(***************************************************************************)
(* midn_userplane: the SessionManager, the RoutingTable it shares with the *)
(* GtpForwarder behind a mutex, and the two BPF maps it mirrors sessions   *)
(* into, with the decisions the forwarder and the XDP programs take.       *)
(*                                                                         *)
(* SessionManager methods take &mut self, so one call is in progress at a  *)
(* time (`call').  The forwarder tasks and the XDP programs run beside it: *)
(* they may read between two critical sections of the mutex and between    *)
(* two BPF map operations, and those are the steps of a call here.  What   *)
(* they decide is a function of the tables (process_uplink,                *)
(* encapsulate_downlink, process, process_dl), so an invariant about those *)
(* functions is a statement about every packet at every moment.            *)
(***************************************************************************)
EXTENDS Integers, FiniteSets, SequencesExt

CONSTANTS
    InitialUlTeid,   \* INITIAL_UL_TEID, 0x10000
    TeidSpace,       \* number of u32 values, 2^32 in the code
    UeIp,            \* UE addresses
    Entity,          \* entity ids of the sessions' owners
    BearerTeid,      \* downlink TEIDs
    EnbAddr,         \* RAN node addresses
    NoEntry,         \* Rust's None, a missing map entry
    Allocators       \* who may allocate UL TEIDs: "internal", "control_plane"

ASSUME UpfAssumption ==
    /\ InitialUlTeid \in Nat \ {0}
    /\ TeidSpace \in Nat
    /\ InitialUlTeid < TeidSpace
    /\ BearerTeid \subseteq Nat \ {0}
    /\ Allocators \subseteq {"internal", "control_plane"}

VARIABLES
    allocator,                        \* who allocates, fixed for the lifetime
    next_ul_teid, free_ul_teids,      \* the internal allocator
    ul_map, dl_map,                   \* RoutingTable, under the mutex
    sessions,                         \* UL TEID -> UserPlaneSession
    bpf,                              \* BOOLEAN: a BpfHandle is set
    map_error,                        \* BOOLEAN: a map operation has failed
    teid_to_route, ue_ip_to_route,    \* the BPF maps
    call                              \* the method call in progress

allocVars == <<allocator, next_ul_teid, free_ul_teids>>
mapVars == <<map_error, teid_to_route, ue_ip_to_route>>
upfVars == <<allocVars, ul_map, dl_map, sessions, bpf, mapVars, call>>

UlTeid == InitialUlTeid .. TeidSpace - 1

\* Where downlink packets go.  TEID 0 marks the placeholder.
Endpoint == [dl_teid : BearerTeid \cup {0}, enb_addr : EnbAddr]
Route == [ue_ip : UeIp, to : Endpoint]
Session == [entity : Entity, ue_ip : UeIp, to : Endpoint]

ASSUME NoEntryAssumption ==
    /\ NoEntry \notin UeIp
    /\ NoEntry \notin Endpoint
    /\ NoEntry \notin Route
    /\ NoEntry \notin Session

Idle == [fn |-> "idle"]

UpfInit ==
    /\ allocator \in Allocators
    /\ next_ul_teid = InitialUlTeid
    /\ free_ul_teids = <<>>
    /\ ul_map = [t \in UlTeid |-> NoEntry]
    /\ dl_map = [ip \in UeIp |-> NoEntry]
    /\ sessions = [t \in UlTeid |-> NoEntry]
    /\ bpf = FALSE
    /\ map_error = FALSE
    /\ teid_to_route = [t \in UlTeid |-> NoEntry]
    /\ ue_ip_to_route = [ip \in UeIp |-> NoEntry]
    /\ call = Idle

-----------------------------------------------------------------------------
(* RoutingTable.  remove takes the UE IP entry along whoever owns it.      *)

install(teid, route) ==
    /\ ul_map' = [ul_map EXCEPT ![teid] = route]
    /\ dl_map' = [dl_map EXCEPT ![route.ue_ip] = route]

\* Mutant of remove: the downlink entry stays.
RemoveUplinkOnly(teid) ==
    /\ ul_map' = [ul_map EXCEPT ![teid] = NoEntry]
    /\ UNCHANGED dl_map

remove(teid) ==
    /\ ul_map' = [ul_map EXCEPT ![teid] = NoEntry]
    /\ dl_map' = IF ul_map[teid] = NoEntry THEN dl_map
                 ELSE [dl_map EXCEPT ![ul_map[teid].ue_ip] = NoEntry]

\* remove and install in one critical section.
replace(teid, route) ==
    LET removed == IF ul_map[teid] = NoEntry THEN dl_map
                   ELSE [dl_map EXCEPT ![ul_map[teid].ue_ip] = NoEntry]
    IN
    /\ ul_map' = [ul_map EXCEPT ![teid] = route]
    /\ dl_map' = [removed EXCEPT ![route.ue_ip] = route]

-----------------------------------------------------------------------------
(* BpfHandle: one map operation.  Without a handle it is skipped, and an   *)
(* error is only logged.  NoEntry as the new value stands for remove_*.    *)

insert_teid(teid, to) ==
    \/ /\ teid_to_route' = IF bpf THEN [teid_to_route EXCEPT ![teid] = to]
                           ELSE teid_to_route
       /\ UNCHANGED map_error
    \/ /\ bpf
       /\ map_error' = TRUE
       /\ UNCHANGED teid_to_route

insert_ue_route(ip, to) ==
    \/ /\ ue_ip_to_route' = IF bpf THEN [ue_ip_to_route EXCEPT ![ip] = to]
                            ELSE ue_ip_to_route
       /\ UNCHANGED map_error
    \/ /\ bpf
       /\ map_error' = TRUE
       /\ UNCHANGED ue_ip_to_route

-----------------------------------------------------------------------------
(* SessionManager: the first critical section of each call.                *)

\* The TEID alloc_ul_teid returns, and its state change.
AllocUlTeid == IF free_ul_teids # <<>> THEN Last(free_ul_teids) ELSE next_ul_teid

\* Mutants of alloc_ul_teid: a counter that wraps to 0, a list not popped.
AllocUnclamped ==
    \/ /\ free_ul_teids # <<>>
       /\ free_ul_teids' = Front(free_ul_teids)
       /\ UNCHANGED next_ul_teid
    \/ /\ free_ul_teids = <<>>
       /\ next_ul_teid' = (next_ul_teid + 1) % TeidSpace
       /\ UNCHANGED free_ul_teids

AllocUlPeek ==
    \/ /\ free_ul_teids # <<>>
       /\ UNCHANGED <<free_ul_teids, next_ul_teid>>
    \/ /\ free_ul_teids = <<>>
       /\ next_ul_teid' = Max({(next_ul_teid + 1) % TeidSpace, InitialUlTeid})
       /\ UNCHANGED free_ul_teids

alloc_ul_teid ==
    \/ /\ free_ul_teids # <<>>
       /\ free_ul_teids' = Front(free_ul_teids)
       /\ UNCHANGED next_ul_teid
    \/ /\ free_ul_teids = <<>>
       /\ next_ul_teid' = LET n == (next_ul_teid + 1) % TeidSpace IN
                          IF n < InitialUlTeid THEN InitialUlTeid ELSE n
       /\ UNCHANGED free_ul_teids

InstallSession(teid, e, ip, to) ==
    /\ install(teid, [ue_ip |-> ip, to |-> to])
    /\ sessions' = [sessions EXCEPT ![teid] = [entity |-> e, ue_ip |-> ip, to |-> to]]

\* Not mirrored into the BPF maps.
create_session(e, ip, to) ==
    /\ call = Idle
    /\ alloc_ul_teid
    /\ InstallSession(AllocUlTeid, e, ip, to)
    /\ UNCHANGED <<allocator, bpf, mapVars, call>>

create_session_with_teid(teid, e, ip, enb) ==
    LET to == [dl_teid |-> 0, enb_addr |-> enb] IN
    /\ call = Idle
    /\ InstallSession(teid, e, ip, to)
    /\ call' = [fn |-> "insert", pc |-> "teid", teid |-> teid, ue_ip |-> ip, to |-> to]
    /\ UNCHANGED <<allocVars, bpf, mapVars>>

\* The snapshot of the current entry; without one the call returns false.
update_bearer_info(teid, to) ==
    /\ call = Idle
    /\ call' = IF ul_map[teid] = NoEntry THEN Idle
               ELSE [fn |-> "update", teid |-> teid,
                     ue_ip |-> ul_map[teid].ue_ip, to |-> to]
    /\ UNCHANGED <<allocVars, ul_map, dl_map, sessions, bpf, mapVars>>

\* Keeps the RAN address of the entry.
update_dl_teid(teid, dl) ==
    \/ /\ ul_map[teid] = NoEntry
       /\ call = Idle
       /\ UNCHANGED upfVars
    \/ /\ ul_map[teid] # NoEntry
       /\ update_bearer_info(teid, [ul_map[teid].to EXCEPT !.dl_teid = dl])

remove_session(teid) ==
    /\ call = Idle
    /\ remove(teid)
    /\ call' = [fn |-> "remove", pc |-> "teid", teid |-> teid,
                ue_ip |-> IF sessions[teid] = NoEntry THEN NoEntry
                          ELSE sessions[teid].ue_ip]
    /\ UNCHANGED <<allocVars, sessions, bpf, mapVars>>

\* From here on sessions are mirrored; those that exist are not.
set_bpf_handle ==
    /\ call = Idle
    /\ bpf' = TRUE
    /\ UNCHANGED <<allocVars, ul_map, dl_map, sessions, mapVars, call>>

-----------------------------------------------------------------------------
(* The later steps of a call.                                              *)

\* Mutant of UpdateRoutes: the session record keeps the placeholder.
UpdateRoutesOnly ==
    /\ call.fn = "update"
    /\ replace(call.teid, [ue_ip |-> call.ue_ip, to |-> call.to])
    /\ call' = [fn |-> "insert", pc |-> "teid", teid |-> call.teid,
                ue_ip |-> call.ue_ip, to |-> call.to]
    /\ UNCHANGED <<allocVars, sessions, bpf, mapVars>>

UpdateRoutes ==
    /\ call.fn = "update"
    /\ replace(call.teid, [ue_ip |-> call.ue_ip, to |-> call.to])
    /\ sessions' = IF sessions[call.teid] = NoEntry THEN sessions
                   ELSE [sessions EXCEPT ![call.teid].to = call.to]
    /\ call' = [fn |-> "insert", pc |-> "teid", teid |-> call.teid,
                ue_ip |-> call.ue_ip, to |-> call.to]
    /\ UNCHANGED <<allocVars, bpf, mapVars>>

MirrorTeid ==
    /\ call.fn = "insert"
    /\ call.pc = "teid"
    /\ insert_teid(call.teid, call.to)
    /\ call' = [call EXCEPT !.pc = "ue_ip"]
    /\ UNCHANGED <<allocVars, ul_map, dl_map, sessions, bpf, ue_ip_to_route>>

MirrorUeRoute ==
    /\ call.fn = "insert"
    /\ call.pc = "ue_ip"
    /\ insert_ue_route(call.ue_ip, call.to)
    /\ call' = Idle
    /\ UNCHANGED <<allocVars, ul_map, dl_map, sessions, bpf, teid_to_route>>

UnmirrorTeid ==
    /\ call.fn = "remove"
    /\ call.pc = "teid"
    /\ insert_teid(call.teid, NoEntry)
    /\ call' = [call EXCEPT !.pc = "ue_ip"]
    /\ UNCHANGED <<allocVars, ul_map, dl_map, sessions, bpf, ue_ip_to_route>>

\* Mutant of UnmirrorUeRoute: the downlink BPF entry stays.
UnmirrorTeidOnly ==
    /\ call.fn = "remove"
    /\ call.pc = "ue_ip"
    /\ sessions' = [sessions EXCEPT ![call.teid] = NoEntry]
    /\ call' = Idle
    /\ UNCHANGED <<allocVars, ul_map, dl_map, bpf, mapVars>>

\* The record goes last; its TEID is recycled if there was one.
UnmirrorUeRoute ==
    /\ call.fn = "remove"
    /\ call.pc = "ue_ip"
    /\ IF call.ue_ip = NoEntry THEN UNCHANGED <<map_error, ue_ip_to_route>>
       ELSE insert_ue_route(call.ue_ip, NoEntry)
    /\ sessions' = [sessions EXCEPT ![call.teid] = NoEntry]
    /\ free_ul_teids' = IF sessions[call.teid] = NoEntry THEN free_ul_teids
                        ELSE Append(free_ul_teids, call.teid)
    /\ call' = Idle
    /\ UNCHANGED <<allocator, next_ul_teid, ul_map, dl_map, bpf, teid_to_route>>

UpfStep ==
    UpdateRoutes \/ MirrorTeid \/ MirrorUeRoute \/ UnmirrorTeid \/ UnmirrorUeRoute

-----------------------------------------------------------------------------
(* The data path.                                                          *)

\* GtpForwarder: the route a G-PDU is forwarded with, or NoEntry: dropped.
process_uplink(teid) == ul_map[teid]

\* GtpForwarder: where a downlink packet is sent, or NoEntry: dropped.
encapsulate_downlink(ip) == IF dl_map[ip] = NoEntry THEN NoEntry ELSE dl_map[ip].to

\* gtp_xdp::process looks only whether the TEID is present.
process(teid) == IF teid_to_route[teid] = NoEntry THEN "XDP_PASS" ELSE "XDP_TX"

\* gtp_dl_xdp::process_dl passes unknown addresses and placeholders.
process_dl(ip) ==
    IF ue_ip_to_route[ip] = NoEntry \/ ue_ip_to_route[ip].dl_teid = 0
    THEN "XDP_PASS" ELSE "XDP_REDIRECT"

-----------------------------------------------------------------------------
(* The environment of a UPF on its own.  A control plane never names a UL  *)
(* TEID that is in use (TeidPool of module ControlPlane), UE addresses are *)
(* distinct, and there are fewer sessions than TEIDs when one is created.  *)

Live == {t \in UlTeid : sessions[t] # NoEntry}

UpfNext ==
    \/ \E e \in Entity, ip \in UeIp :
          /\ Live # UlTeid
          /\ \A t \in Live : sessions[t].ue_ip # ip
          /\ \/ /\ allocator = "internal"
                /\ \E to \in Endpoint : create_session(e, ip, to)
             \/ /\ allocator = "control_plane"
                /\ \E t \in UlTeid \ Live, enb \in EnbAddr :
                      create_session_with_teid(t, e, ip, enb)
    \/ \E t \in UlTeid :
          \/ \E to \in Endpoint : update_bearer_info(t, to)
          \/ \E dl \in BearerTeid : update_dl_teid(t, dl)
          \/ remove_session(t)
    \/ set_bpf_handle
    \/ UpfStep

UpfSpec == UpfInit /\ [][UpfNext]_upfVars

-----------------------------------------------------------------------------
(* Properties.                                                             *)

UpfTypeOK ==
    /\ allocator \in Allocators
    /\ next_ul_teid \in UlTeid
    /\ free_ul_teids \in Seq(UlTeid)
    /\ ul_map \in [UlTeid -> Route \cup {NoEntry}]
    /\ dl_map \in [UeIp -> Route \cup {NoEntry}]
    /\ sessions \in [UlTeid -> Session \cup {NoEntry}]
    /\ bpf \in BOOLEAN
    /\ map_error \in BOOLEAN
    /\ teid_to_route \in [UlTeid -> Endpoint \cup {NoEntry}]
    /\ ue_ip_to_route \in [UeIp -> Endpoint \cup {NoEntry}]
    /\ call.fn \in {"idle", "insert", "update", "remove"}

\* The forwarder never observes a partial update: at every moment the mutex
\* is free, the uplink and the downlink table hold the same routes, so a
\* subscriber reachable in one direction is reachable in the other and at
\* the same endpoint (update_bearer_info, install, remove; with distinct UE
\* addresses).
RoutesPair ==
    /\ \A t \in UlTeid : ul_map[t] # NoEntry => dl_map[ul_map[t].ue_ip] = ul_map[t]
    /\ \A ip \in UeIp : dl_map[ip] # NoEntry =>
          /\ dl_map[ip].ue_ip = ip
          /\ \E t \in UlTeid : ul_map[t] = dl_map[ip]

\* Between calls the session records and the routing table describe the same
\* sessions with the same endpoints (install, update_bearer_info,
\* remove_session).
SessionsRouted ==
    call = Idle =>
        \A t \in UlTeid :
            /\ ul_map[t] = NoEntry <=> sessions[t] = NoEntry
            /\ t \in Live => /\ ul_map[t].ue_ip = sessions[t].ue_ip
                            /\ ul_map[t].to = sessions[t].to

\* Between calls the kernel fast path decides nothing the user-space path
\* would not: a redirected downlink packet goes to the endpoint the forwarder
\* would choose, and an uplink packet is transmitted only for a session the
\* forwarder knows, also when the BPF handle arrived after some sessions
\* were made (SessionManager against gtp_xdp and gtp_dl_xdp, as long as no
\* map operation has failed).
FastPathAgrees ==
    (call = Idle /\ ~map_error) =>
        /\ \A ip \in UeIp : process_dl(ip) = "XDP_REDIRECT" =>
              encapsulate_downlink(ip) = ue_ip_to_route[ip]
        /\ \A t \in UlTeid : process(t) = "XDP_TX" => process_uplink(t) # NoEntry

\* A new session never takes the TEID of another: the internal allocator
\* finds one that is free for as long as there is one, although its counter
\* wraps and its free list is shared with removals (alloc_ul_teid,
\* remove_session).
FreshTeid ==
    [][\A t \in UlTeid : (call = Idle /\ sessions'[t] # sessions[t])
                            => sessions[t] = NoEntry]_upfVars

\* "The UL XDP program sees the TEID and XDP_PASSes" while the entry is the
\* placeholder of create_session_with_teid.
PlaceholderPasses ==
    \A t \in UlTeid : (teid_to_route[t] # NoEntry /\ teid_to_route[t].dl_teid = 0)
                        => process(t) = "XDP_PASS"
=============================================================================
