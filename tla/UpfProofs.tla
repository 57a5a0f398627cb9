------------------------------ MODULE UpfProofs ------------------------------
(***************************************************************************)
(* The UPF for every number of TEIDs, addresses and endpoints: what its    *)
(* tables say of each other between any two critical sections, whatever    *)
(* the order of calls and whenever the BPF handle arrives.                 *)
(*                                                                         *)
(* UpfCore needs nothing from the caller and is used by CoreLoopProofs;    *)
(* the rest of UpfInv rests on the environment of UpfNext (distinct UE     *)
(* addresses, TEIDs not named twice).                                      *)
(***************************************************************************)
EXTENDS Upf, TLAPS

-----------------------------------------------------------------------------
(* The invariant.                                                          *)

\* The calls in progress.
InsertCall == [fn : {"insert"}, pc : {"teid", "ue_ip"}, teid : UlTeid,
               ue_ip : UeIp, to : Endpoint]
UpdateCall == [fn : {"update"}, teid : UlTeid, ue_ip : UeIp, to : Endpoint]
RemoveCall == [fn : {"remove"}, pc : {"teid", "ue_ip"}, teid : UlTeid,
               ue_ip : UeIp \cup {NoEntry}]

CallOK == call \in {Idle} \cup InsertCall \cup UpdateCall \cup RemoveCall

\* A TEID is routed as its session record says; only a removal in progress
\* leaves a record without a route.
Recorded ==
    \A t \in UlTeid :
        /\ ul_map[t] # NoEntry => /\ sessions[t] # NoEntry
                                  /\ sessions[t].ue_ip = ul_map[t].ue_ip
                                  /\ sessions[t].to = ul_map[t].to
        /\ (sessions[t] # NoEntry /\ ul_map[t] = NoEntry)
               => call.fn = "remove" /\ call.teid = t

\* What the call in progress read under the mutex is still so.
CallFits ==
    /\ call.fn = "insert" =>
          ul_map[call.teid] = [ue_ip |-> call.ue_ip, to |-> call.to]
    /\ call.fn = "update" =>
          ul_map[call.teid] # NoEntry /\ ul_map[call.teid].ue_ip = call.ue_ip
    /\ call.fn = "remove" =>
          /\ ul_map[call.teid] = NoEntry
          /\ sessions[call.teid] = NoEntry => call.ue_ip = NoEntry
          /\ sessions[call.teid] # NoEntry => call.ue_ip = sessions[call.teid].ue_ip

UpfCore == UpfTypeOK /\ CallOK /\ Recorded /\ CallFits

\* No two sessions have one UE address (the callers' obligation).
AddressesApart ==
    \A t, u \in Live : t # u => sessions[t].ue_ip # sessions[u].ue_ip

\* A BPF entry is backed by a route, up to the call in progress.
Backed ==
    /\ \A t \in UlTeid : teid_to_route[t] # NoEntry =>
          \/ ul_map[t] # NoEntry
          \/ call.fn = "remove" /\ call.pc = "teid" /\ call.teid = t
    /\ \A ip \in UeIp : ue_ip_to_route[ip] # NoEntry =>
          \/ dl_map[ip] # NoEntry /\ dl_map[ip].to = ue_ip_to_route[ip]
          \/ call.fn \in {"insert", "remove"} /\ call.ue_ip = ip

\* Without a handle nothing was mirrored.
Unmirrored ==
    ~bpf => /\ \A t \in UlTeid : teid_to_route[t] = NoEntry
            /\ \A ip \in UeIp : ue_ip_to_route[ip] = NoEntry

\* The internal allocator: free and used TEIDs are apart and together are all
\* TEIDs below the counter, or, once it has wrapped, all TEIDs.
UlPool ==
    allocator = "internal" =>
        /\ IsInjective(free_ul_teids)
        /\ Range(free_ul_teids) \cap Live = {}
        /\ \/ Range(free_ul_teids) \cup Live = InitialUlTeid .. next_ul_teid - 1
           \/ Range(free_ul_teids) \cup Live = UlTeid

UpfInv ==
    /\ UpfCore
    /\ RoutesPair
    /\ AddressesApart
    /\ ~map_error => Backed
    /\ Unmirrored
    /\ UlPool

-----------------------------------------------------------------------------
(* Facts about the pieces.                                                 *)

\* free_ul_teids starts empty.
LEMMA NoTeidListed ==
    /\ IsInjective(<<>>)
    /\ Range(<<>>) = {}
BY DEF IsInjective, Range

\* remove_session gives a TEID back to the end of free_ul_teids: if it was not
\* there, the list still holds no TEID twice.
LEMMA TeidPushed ==
    ASSUME NEW s \in Seq(UlTeid), NEW x \in UlTeid
    PROVE  /\ Append(s, x) \in Seq(UlTeid)
           /\ Range(Append(s, x)) = Range(s) \cup {x}
           /\ (IsInjective(s) /\ x \notin Range(s)) => IsInjective(Append(s, x))
<1>1. /\ Append(s, x) \in Seq(UlTeid)
      /\ Len(Append(s, x)) = Len(s) + 1
      /\ DOMAIN s = 1 .. Len(s)
      /\ DOMAIN Append(s, x) = 1 .. Len(s) + 1
      /\ \A i \in 1 .. Len(s) : Append(s, x)[i] = s[i]
      /\ Append(s, x)[Len(s) + 1] = x
  OBVIOUS
<1>2. Len(s) \in Nat
  OBVIOUS
<1>3. Range(Append(s, x)) = Range(s) \cup {x}
  BY <1>1, <1>2 DEF Range
<1>4. ASSUME IsInjective(s), x \notin Range(s)
      PROVE  IsInjective(Append(s, x))
  BY <1>1, <1>2, <1>4 DEF Range, IsInjective
<1> QED
  BY <1>1, <1>3, <1>4

\* alloc_ul_teid takes the last TEID; nothing else leaves the list.
LEMMA TeidPopped ==
    ASSUME NEW s \in Seq(UlTeid), s # <<>>, IsInjective(s)
    PROVE  /\ Last(s) \in UlTeid
           /\ Last(s) \in Range(s)
           /\ Front(s) \in Seq(UlTeid)
           /\ IsInjective(Front(s))
           /\ Range(Front(s)) = Range(s) \ {Last(s)}
<1>1. Len(s) \in Nat \ {0} /\ DOMAIN s = 1 .. Len(s)
  OBVIOUS
<1>2. /\ Front(s) \in Seq(UlTeid)
      /\ DOMAIN Front(s) = 1 .. Len(s) - 1
      /\ \A i \in 1 .. Len(s) - 1 : Front(s)[i] = s[i]
  BY <1>1 DEF Front
<1>3. Last(s) \in UlTeid /\ Last(s) \in Range(s)
  BY <1>1 DEF Last, Range
<1>4. IsInjective(Front(s))
  BY <1>1, <1>2 DEF IsInjective
<1>5. Range(Front(s)) = Range(s) \ {Last(s)}
  BY <1>1, <1>2 DEF IsInjective, Range, Last
<1> QED
  BY <1>2, <1>3, <1>4, <1>5

\* The function of a call determines its arguments.
LEMMA CallShape ==
    ASSUME CallOK
    PROVE  /\ call.fn \in {"idle", "insert", "update", "remove"}
           /\ call.fn = "idle" <=> call = Idle
           /\ call.fn = "insert" => call \in InsertCall
           /\ call.fn = "update" => call \in UpdateCall
           /\ call.fn = "remove" => call \in RemoveCall
BY DEF CallOK, Idle, InsertCall, UpdateCall, RemoveCall

\* The calls that start: their records are calls.
LEMMA NewCall ==
    ASSUME NEW t \in UlTeid, NEW ip, NEW to
    PROVE  /\ (ip \in UeIp /\ to \in Endpoint) =>
                [fn |-> "insert", pc |-> "teid", teid |-> t, ue_ip |-> ip, to |-> to]
                   \in InsertCall
           /\ (ip \in UeIp /\ to \in Endpoint) =>
                [fn |-> "update", teid |-> t, ue_ip |-> ip, to |-> to] \in UpdateCall
           /\ (ip \in UeIp \cup {NoEntry}) =>
                [fn |-> "remove", pc |-> "teid", teid |-> t, ue_ip |-> ip] \in RemoveCall
BY DEF InsertCall, UpdateCall, RemoveCall

\* A BPF map operation keeps the map's type (insert_teid, remove_teid).
LEMMA InsertTeidType ==
    ASSUME UpfTypeOK, NEW t \in UlTeid, NEW to \in Endpoint \cup {NoEntry},
           insert_teid(t, to)
    PROVE  /\ teid_to_route' \in [UlTeid -> Endpoint \cup {NoEntry}]
           /\ map_error' \in BOOLEAN
           /\ map_error => map_error'
           /\ \A u \in UlTeid \ {t} : teid_to_route'[u] = teid_to_route[u]
           /\ ~map_error' => teid_to_route'[t] = IF bpf THEN to ELSE teid_to_route[t]
           /\ ~bpf => teid_to_route' = teid_to_route
BY DEF UpfTypeOK, insert_teid

\* The same for the downlink map (insert_ue_route, remove_ue_route).
LEMMA InsertUeRouteType ==
    ASSUME UpfTypeOK, NEW ip \in UeIp, NEW to \in Endpoint \cup {NoEntry},
           insert_ue_route(ip, to)
    PROVE  /\ ue_ip_to_route' \in [UeIp -> Endpoint \cup {NoEntry}]
           /\ map_error' \in BOOLEAN
           /\ map_error => map_error'
           /\ \A i \in UeIp \ {ip} : ue_ip_to_route'[i] = ue_ip_to_route[i]
           /\ ~map_error' => ue_ip_to_route'[ip] = IF bpf THEN to ELSE ue_ip_to_route[ip]
           /\ ~bpf => ue_ip_to_route' = ue_ip_to_route
BY DEF UpfTypeOK, insert_ue_route

\* A number below the modulus is its own remainder.
LEMMA SmallModulo ==
    ASSUME NEW a \in Nat, NEW b \in Nat, a < b
    PROVE  a % b = a
OBVIOUS

\* The counter stays in range when it wraps (alloc_ul_teid).
LEMMA AllocUlType ==
    ASSUME UpfTypeOK, alloc_ul_teid
    PROVE  /\ AllocUlTeid \in UlTeid
           /\ next_ul_teid' \in UlTeid
           /\ free_ul_teids' \in Seq(UlTeid)
<1>1. CASE free_ul_teids # <<>>
  <2>1. Len(free_ul_teids) \in Nat \ {0} /\ free_ul_teids \in Seq(UlTeid)
    BY <1>1 DEF UpfTypeOK
  <2>2. Last(free_ul_teids) \in UlTeid /\ Front(free_ul_teids) \in Seq(UlTeid)
    BY <2>1 DEF Last, Front
  <2> QED
    BY <1>1, <2>2 DEF alloc_ul_teid, AllocUlTeid, UpfTypeOK
<1>2. CASE free_ul_teids = <<>>
  <2> DEFINE n == (next_ul_teid + 1) % TeidSpace
  <2>0. TeidSpace \in Nat \ {0} /\ InitialUlTeid \in Nat
    BY UpfAssumption
  <2>1. next_ul_teid \in UlTeid
    BY DEF UpfTypeOK
  <2>2. n \in 0 .. TeidSpace - 1
    BY <2>0, <2>1 DEF UlTeid
  <2>3. next_ul_teid' = IF n < InitialUlTeid THEN InitialUlTeid ELSE n
    BY <1>2 DEF alloc_ul_teid
  <2> HIDE DEF n
  <2>4. next_ul_teid' \in UlTeid
    <3>1. CASE n < InitialUlTeid
      BY <2>0, <2>3, <3>1, UpfAssumption DEF UlTeid
    <3>2. CASE ~(n < InitialUlTeid)
      BY <2>0, <2>2, <2>3, <3>2 DEF UlTeid
    <3> QED
      BY <3>1, <3>2
  <2> QED
    BY <1>2, <2>1, <2>4 DEF alloc_ul_teid, AllocUlTeid, UpfTypeOK
<1> QED
  BY <1>1, <1>2

-----------------------------------------------------------------------------
(* UpfCore.                                                                *)

\* A session and its route are written in one critical section (install).
LEMMA InstallCore ==
    ASSUME UpfCore, call = Idle, NEW t \in UlTeid, NEW e \in Entity,
           NEW ip \in UeIp, NEW to \in Endpoint, InstallSession(t, e, ip, to),
           \/ call' = Idle
           \/ call' = [fn |-> "insert", pc |-> "teid", teid |-> t, ue_ip |-> ip,
                       to |-> to],
           next_ul_teid' \in UlTeid, free_ul_teids' \in Seq(UlTeid),
           UNCHANGED <<allocator, bpf, mapVars>>
    PROVE  /\ UpfCore'
           /\ sessions' = [sessions EXCEPT ![t] = [entity |-> e, ue_ip |-> ip, to |-> to]]
           /\ ul_map' = [ul_map EXCEPT ![t] = [ue_ip |-> ip, to |-> to]]
           /\ dl_map' = [dl_map EXCEPT ![ip] = [ue_ip |-> ip, to |-> to]]
<1> DEFINE r == [ue_ip |-> ip, to |-> to]
           s == [entity |-> e, ue_ip |-> ip, to |-> to]
<1>1. r \in Route /\ s \in Session /\ r # NoEntry /\ s # NoEntry
  BY NoEntryAssumption DEF Route, Session
<1>2. r.ue_ip = ip /\ r.to = to /\ s.ue_ip = ip /\ s.to = to
  OBVIOUS
<1>3. /\ sessions' = [sessions EXCEPT ![t] = s]
      /\ ul_map' = [ul_map EXCEPT ![t] = r]
      /\ dl_map' = [dl_map EXCEPT ![ip] = r]
  BY DEF InstallSession, install
<1> HIDE DEF r, s
<1>4. CallOK' /\ call'.fn \in {"idle", "insert"}
  <2>1. CASE call' = Idle
    BY <2>1 DEF CallOK, Idle
  <2>2. CASE call' # Idle
    <3>1. call' \in InsertCall
      BY <2>2, NewCall
    <3> QED
      BY <3>1 DEF CallOK, InsertCall
  <2> QED
    BY <2>1, <2>2
<1>5. UpfTypeOK'
  BY <1>1, <1>3, <1>4 DEF UpfCore, UpfTypeOK, mapVars
<1>6. /\ sessions'[t] = s /\ ul_map'[t] = r
      /\ \A u \in UlTeid \ {t} : sessions'[u] = sessions[u] /\ ul_map'[u] = ul_map[u]
  BY <1>3 DEF UpfCore, UpfTypeOK
<1>7. Recorded'
  <2>1. \A u \in UlTeid : ul_map[u] # NoEntry <=> sessions[u] # NoEntry
    BY DEF UpfCore, Recorded, Idle
  <2> QED
    BY <1>1, <1>2, <1>6, <2>1 DEF UpfCore, Recorded
<1>8. CallFits'
  BY <1>6 DEF CallFits, Idle, r
<1> QED
  BY <1>3, <1>4, <1>5, <1>7, <1>8 DEF UpfCore, r, s

\* create_session, with a TEID of the internal allocator.
LEMMA CreateCore ==
    ASSUME UpfCore, NEW e \in Entity, NEW ip \in UeIp, NEW to \in Endpoint,
           create_session(e, ip, to)
    PROVE  UpfCore'
BY InstallCore, AllocUlType DEF create_session, UpfCore

\* create_session_with_teid, with a TEID the control plane chose.
LEMMA CreateWithTeidCore ==
    ASSUME UpfCore, NEW t \in UlTeid, NEW e \in Entity, NEW ip \in UeIp,
           NEW enb \in EnbAddr, create_session_with_teid(t, e, ip, enb)
    PROVE  UpfCore'
<1> DEFINE to == [dl_teid |-> 0, enb_addr |-> enb]
<1>1. to \in Endpoint
  BY DEF Endpoint
<1>2. /\ call = Idle /\ InstallSession(t, e, ip, to)
      /\ call' = [fn |-> "insert", pc |-> "teid", teid |-> t, ue_ip |-> ip, to |-> to]
      /\ UNCHANGED <<allocVars, bpf, mapVars>>
  BY DEF create_session_with_teid
<1> HIDE DEF to
<1>3. next_ul_teid' \in UlTeid /\ free_ul_teids' \in Seq(UlTeid)
  BY <1>2 DEF allocVars, UpfCore, UpfTypeOK
<1> QED
  BY <1>1, <1>2, <1>3, InstallCore DEF allocVars

\* The snapshot of update_bearer_info.
LEMMA UpdateCallCore ==
    ASSUME UpfCore, NEW t \in UlTeid, NEW to \in Endpoint,
           update_bearer_info(t, to)
    PROVE  UpfCore'
<1>1. UNCHANGED <<allocVars, ul_map, dl_map, sessions, bpf, mapVars>> /\ call = Idle
  BY DEF update_bearer_info
<1>2. CASE ul_map[t] = NoEntry
  <2>1. call' = call
    BY <1>2 DEF update_bearer_info
  <2> QED
    BY <1>1, <2>1 DEF UpfCore, UpfTypeOK, CallOK, Recorded, CallFits, allocVars, mapVars
<1>3. CASE ul_map[t] # NoEntry
  <2>1. ul_map[t] \in Route /\ ul_map[t].ue_ip \in UeIp
    BY <1>3 DEF UpfCore, UpfTypeOK, Route
  <2>2. call' = [fn |-> "update", teid |-> t, ue_ip |-> ul_map[t].ue_ip, to |-> to]
    BY <1>3 DEF update_bearer_info
  <2>3. CallOK' /\ call'.fn = "update" /\ call'.teid = t /\ call'.ue_ip = ul_map[t].ue_ip
    BY <2>1, <2>2, NewCall DEF CallOK
  <2>4. Recorded'
    BY <1>1, <2>3 DEF UpfCore, Recorded, Idle
  <2>5. CallFits'
    BY <1>1, <1>3, <2>3 DEF CallFits
  <2> QED
    BY <1>1, <2>3, <2>4, <2>5 DEF UpfCore, UpfTypeOK, allocVars, mapVars
<1> QED
  BY <1>2, <1>3

\* update_dl_teid, which reads the endpoint it changes.
LEMMA UpdateDlCore ==
    ASSUME UpfCore, NEW t \in UlTeid, NEW dl \in BearerTeid, update_dl_teid(t, dl)
    PROVE  UpfCore' /\ sessions' = sessions /\ (ul_map[t] # NoEntry =>
              [ul_map[t].to EXCEPT !.dl_teid = dl] \in Endpoint)
<1>1. CASE ul_map[t] = NoEntry
  <2>1. UNCHANGED upfVars
    BY <1>1 DEF update_dl_teid
  <2> QED
    BY <1>1, <2>1 DEF upfVars, UpfCore, UpfTypeOK, CallOK, Recorded, CallFits, allocVars, mapVars
<1>2. CASE ul_map[t] # NoEntry
  <2>1. [ul_map[t].to EXCEPT !.dl_teid = dl] \in Endpoint
    <3>1. ul_map[t].to \in Endpoint
      BY <1>2 DEF UpfCore, UpfTypeOK, Route
    <3> QED
      BY <3>1 DEF Endpoint
  <2>2. update_bearer_info(t, [ul_map[t].to EXCEPT !.dl_teid = dl])
    BY <1>2 DEF update_dl_teid
  <2> QED
    BY <2>1, <2>2, UpdateCallCore DEF update_bearer_info
<1> QED
  BY <1>1, <1>2

\* The first critical section of remove_session.
LEMMA RemoveCallCore ==
    ASSUME UpfCore, NEW t \in UlTeid, remove_session(t)
    PROVE  /\ UpfCore' /\ call'.fn = "remove" /\ call'.pc = "teid" /\ call'.teid = t
           /\ ul_map' = [ul_map EXCEPT ![t] = NoEntry]
<1> DEFINE ip == IF sessions[t] = NoEntry THEN NoEntry ELSE sessions[t].ue_ip
<1>1. /\ call = Idle /\ UNCHANGED <<allocVars, sessions, bpf, mapVars>>
      /\ ul_map' = [ul_map EXCEPT ![t] = NoEntry]
      /\ call' = [fn |-> "remove", pc |-> "teid", teid |-> t, ue_ip |-> ip]
  BY DEF remove_session, remove
<1>2. ip \in UeIp \cup {NoEntry}
  BY DEF UpfCore, UpfTypeOK, Session
<1>3. /\ CallOK' /\ call'.fn = "remove" /\ call'.pc = "teid" /\ call'.teid = t
      /\ call'.ue_ip = ip
  BY <1>1, <1>2, NewCall DEF CallOK
<1>4. dl_map' \in [UeIp -> Route \cup {NoEntry}]
  BY DEF remove_session, remove, UpfCore, UpfTypeOK
<1>5. /\ ul_map'[t] = NoEntry
      /\ \A u \in UlTeid \ {t} : ul_map'[u] = ul_map[u]
  BY <1>1 DEF UpfCore, UpfTypeOK
<1>6. UpfTypeOK'
  BY <1>1, <1>3, <1>4 DEF UpfCore, UpfTypeOK, allocVars, mapVars
<1>7. Recorded'
  BY <1>1, <1>3, <1>5 DEF UpfCore, Recorded, Idle
<1>8. CallFits'
  BY <1>1, <1>3, <1>5 DEF CallFits
<1> QED
  BY <1>1, <1>3, <1>6, <1>7, <1>8 DEF UpfCore

\* The critical section of update_bearer_info that writes both tables and the
\* session record.
LEMMA UpdateRoutesCore ==
    ASSUME UpfCore, UpdateRoutes
    PROVE  /\ UpfCore'
           /\ call.teid \in UlTeid /\ call.to \in Endpoint
           /\ call.ue_ip \in UeIp /\ ul_map[call.teid] # NoEntry
           /\ ul_map[call.teid].ue_ip = call.ue_ip
           /\ sessions[call.teid] # NoEntry
           /\ sessions' = [sessions EXCEPT ![call.teid] =
                              [sessions[call.teid] EXCEPT !.to = call.to]]
           /\ ul_map' = [ul_map EXCEPT ![call.teid] =
                            [ue_ip |-> call.ue_ip, to |-> call.to]]
           /\ dl_map' = [dl_map EXCEPT ![call.ue_ip] =
                            [ue_ip |-> call.ue_ip, to |-> call.to]]
           /\ call'.fn = "insert" /\ call'.teid = call.teid /\ call'.ue_ip = call.ue_ip
           /\ call'.to = call.to
<1> DEFINE t == call.teid
           r == [ue_ip |-> call.ue_ip, to |-> call.to]
           s == [sessions[t] EXCEPT !.to = call.to]
<1>1. t \in UlTeid /\ call.ue_ip \in UeIp /\ call.to \in Endpoint
  BY CallShape DEF UpfCore, UpdateRoutes, UpdateCall
<1>2. /\ ul_map[t] # NoEntry /\ ul_map[t].ue_ip = call.ue_ip
      /\ sessions[t] # NoEntry /\ sessions[t].ue_ip = call.ue_ip
      /\ sessions[t] \in Session
  BY <1>1 DEF UpfCore, UpfTypeOK, Recorded, CallFits, UpdateRoutes
<1>3. r \in Route /\ r # NoEntry /\ r.ue_ip = call.ue_ip /\ r.to = call.to
  BY <1>1, NoEntryAssumption DEF Route
<1>4. s \in Session /\ s # NoEntry /\ s.ue_ip = call.ue_ip /\ s.to = call.to
  BY <1>1, <1>2, NoEntryAssumption DEF Session
<1>5. /\ ul_map' = [ul_map EXCEPT ![t] = r]
      /\ sessions' = [sessions EXCEPT ![t] = s]
      /\ UNCHANGED <<allocVars, bpf, mapVars>>
      /\ call' = [fn |-> "insert", pc |-> "teid", teid |-> t,
                  ue_ip |-> call.ue_ip, to |-> call.to]
  BY <1>2 DEF UpdateRoutes, replace
<1>6. dl_map' = [dl_map EXCEPT ![call.ue_ip] = r]
  <2>1. dl_map' = [[dl_map EXCEPT ![call.ue_ip] = NoEntry] EXCEPT ![call.ue_ip] = r]
    BY <1>2 DEF UpdateRoutes, replace
  <2> HIDE DEF r
  <2> QED
    BY <1>1, <2>1 DEF UpfCore, UpfTypeOK
<1>7. /\ call' \in InsertCall
      /\ call'.fn = "insert" /\ call'.teid = t /\ call'.ue_ip = call.ue_ip
      /\ call'.to = call.to
  BY <1>1, <1>5, NewCall
<1> HIDE DEF s
<1>8. /\ ul_map'[t] = r /\ sessions'[t] = s
      /\ \A u \in UlTeid \ {t} : sessions'[u] = sessions[u] /\ ul_map'[u] = ul_map[u]
  BY <1>1, <1>5 DEF UpfCore, UpfTypeOK
<1>9. CallFits'
  BY <1>7, <1>8 DEF CallFits
<1> HIDE DEF r
<1>10. Recorded'
  <2>1. \A u \in UlTeid : sessions[u] # NoEntry => ul_map[u] # NoEntry
    BY DEF UpfCore, Recorded, UpdateRoutes
  <2> QED
    BY <1>1, <1>3, <1>4, <1>8, <2>1 DEF UpfCore, Recorded
<1>11. UpfTypeOK' /\ CallOK'
  BY <1>3, <1>4, <1>5, <1>6, <1>7 DEF UpfCore, UpfTypeOK, CallOK, allocVars, mapVars
<1> QED
  BY <1>1, <1>2, <1>5, <1>6, <1>7, <1>9, <1>10, <1>11 DEF UpfCore, r, s

\* A map operation, after which the call goes on to its last step.
LEMMA MirrorCore ==
    ASSUME UpfCore, UNCHANGED <<allocVars, ul_map, dl_map, sessions, bpf, ue_ip_to_route>>,
           call \in InsertCall \cup RemoveCall,
           call' = [call EXCEPT !.pc = "ue_ip"],
           map_error' \in BOOLEAN,
           teid_to_route' \in [UlTeid -> Endpoint \cup {NoEntry}]
    PROVE  /\ UpfCore' /\ call'.fn = call.fn /\ call'.teid = call.teid
           /\ call'.ue_ip = call.ue_ip /\ call'.pc = "ue_ip"
<1>1. CASE call \in InsertCall
  <2>1. /\ call' \in InsertCall /\ call.fn = "insert" /\ call'.fn = "insert"
        /\ call'.teid = call.teid /\ call'.ue_ip = call.ue_ip /\ call'.to = call.to
        /\ call'.pc = "ue_ip"
    BY <1>1 DEF InsertCall
  <2>2. Recorded' /\ CallFits'
    BY <2>1 DEF UpfCore, Recorded, CallFits
  <2> QED
    BY <2>1, <2>2 DEF UpfCore, UpfTypeOK, CallOK, allocVars
<1>2. CASE call \in RemoveCall
  <2>1. /\ call' \in RemoveCall /\ call.fn = "remove" /\ call'.fn = "remove"
        /\ call'.teid = call.teid /\ call'.ue_ip = call.ue_ip /\ call'.pc = "ue_ip"
    BY <1>2 DEF RemoveCall
  <2>2. Recorded' /\ CallFits'
    BY <2>1 DEF UpfCore, Recorded, CallFits
  <2> QED
    BY <2>1, <2>2 DEF UpfCore, UpfTypeOK, CallOK, allocVars
<1> QED
  BY <1>1, <1>2

\* The first map operation of an insert and of a removal.
LEMMA MirrorTeidCore ==
    ASSUME UpfCore, MirrorTeid \/ UnmirrorTeid
    PROVE  UpfCore'
<1>1. /\ call \in InsertCall \cup RemoveCall /\ call.teid \in UlTeid
      /\ call.fn = "insert" => call.to \in Endpoint
  BY CallShape DEF UpfCore, MirrorTeid, UnmirrorTeid, InsertCall, RemoveCall
<1>2. PICK to \in Endpoint \cup {NoEntry} : insert_teid(call.teid, to)
  BY <1>1 DEF MirrorTeid, UnmirrorTeid
<1> QED
  BY <1>1, <1>2, InsertTeidType, MirrorCore DEF UpfCore, MirrorTeid, UnmirrorTeid

\* The last map operation of an insert.
LEMMA MirrorUeRouteCore ==
    ASSUME UpfCore, MirrorUeRoute
    PROVE  UpfCore'
<1>1. call \in InsertCall /\ call.fn = "insert" /\ call.ue_ip \in UeIp /\ call.to \in Endpoint
  BY CallShape DEF UpfCore, MirrorUeRoute, InsertCall
<1>2. /\ ue_ip_to_route' \in [UeIp -> Endpoint \cup {NoEntry}]
      /\ map_error' \in BOOLEAN
  BY <1>1, InsertUeRouteType DEF UpfCore, MirrorUeRoute
<1>3. /\ UNCHANGED <<allocVars, ul_map, dl_map, sessions, bpf, teid_to_route>>
      /\ call' = Idle /\ call'.fn = "idle"
  BY DEF MirrorUeRoute, Idle
<1>4. Recorded' /\ CallFits' /\ CallOK'
  BY <1>1, <1>3 DEF UpfCore, Recorded, CallFits, CallOK
<1> QED
  BY <1>2, <1>3, <1>4 DEF UpfCore, UpfTypeOK, allocVars

\* The end of remove_session: the record goes, its TEID is recycled.
LEMMA UnmirrorUeRouteCore ==
    ASSUME UpfCore, UnmirrorUeRoute
    PROVE  /\ UpfCore'
           /\ call.teid \in UlTeid
           /\ sessions' = [sessions EXCEPT ![call.teid] = NoEntry]
<1>1. /\ call \in RemoveCall /\ call.fn = "remove" /\ call.teid \in UlTeid
      /\ call.ue_ip \in UeIp \cup {NoEntry}
  BY CallShape DEF UpfCore, UnmirrorUeRoute, RemoveCall
<1>2. /\ ue_ip_to_route' \in [UeIp -> Endpoint \cup {NoEntry}]
      /\ map_error' \in BOOLEAN
  <2>1. CASE call.ue_ip = NoEntry
    BY <2>1 DEF UpfCore, UpfTypeOK, UnmirrorUeRoute
  <2>2. CASE call.ue_ip # NoEntry
    BY <1>1, <2>2, InsertUeRouteType DEF UpfCore, UnmirrorUeRoute
  <2> QED
    BY <2>1, <2>2
<1>3. /\ UNCHANGED <<allocator, next_ul_teid, ul_map, dl_map, bpf, teid_to_route>>
      /\ sessions' = [sessions EXCEPT ![call.teid] = NoEntry]
      /\ call' = Idle /\ call'.fn = "idle"
  BY DEF UnmirrorUeRoute, Idle
<1>4. free_ul_teids' \in Seq(UlTeid)
  BY <1>1, TeidPushed DEF UnmirrorUeRoute, UpfCore, UpfTypeOK
<1>5. /\ sessions'[call.teid] = NoEntry
      /\ \A u \in UlTeid \ {call.teid} : sessions'[u] = sessions[u]
  BY <1>1, <1>3 DEF UpfCore, UpfTypeOK
<1>6. Recorded' /\ CallFits' /\ CallOK'
  BY <1>1, <1>3, <1>5 DEF UpfCore, Recorded, CallFits, CallOK
<1>7. sessions' \in [UlTeid -> Session \cup {NoEntry}]
  BY <1>3 DEF UpfCore, UpfTypeOK
<1> QED
  BY <1>1, <1>2, <1>3, <1>4, <1>6, <1>7 DEF UpfCore, UpfTypeOK

\* The BPF handle may arrive between any two calls (set_bpf_handle).
LEMMA SetBpfCore == UpfCore /\ set_bpf_handle => UpfCore'
BY DEF UpfCore, UpfTypeOK, CallOK, Recorded, CallFits, set_bpf_handle,
       allocVars, mapVars

\* Nothing happens.
LEMMA StutterCore == UpfCore /\ UNCHANGED upfVars => UpfCore'
BY DEF UpfCore, UpfTypeOK, CallOK, Recorded, CallFits, upfVars, allocVars, mapVars

\* The later steps of a call, whoever made it.
LEMMA UpfStepCore == UpfCore /\ UpfStep => UpfCore'
BY UpdateRoutesCore, MirrorTeidCore, MirrorUeRouteCore, UnmirrorUeRouteCore DEF UpfStep

\* A new UPF satisfies UpfCore.
LEMMA UpfInitCore == UpfInit => UpfCore
<1> SUFFICES ASSUME UpfInit PROVE UpfCore
  OBVIOUS
<1>1. UpfTypeOK
  <2>1. InitialUlTeid \in UlTeid
    BY UpfAssumption DEF UlTeid
  <2>2. bpf \in BOOLEAN /\ map_error \in BOOLEAN
    BY DEF UpfInit
  <2>3. call.fn = "idle"
    BY DEF UpfInit, Idle
  <2>4. /\ ul_map \in [UlTeid -> Route \cup {NoEntry}]
        /\ dl_map \in [UeIp -> Route \cup {NoEntry}]
        /\ sessions \in [UlTeid -> Session \cup {NoEntry}]
        /\ teid_to_route \in [UlTeid -> Endpoint \cup {NoEntry}]
        /\ ue_ip_to_route \in [UeIp -> Endpoint \cup {NoEntry}]
    BY DEF UpfInit
  <2>5. /\ allocator \in Allocators /\ next_ul_teid \in UlTeid
        /\ free_ul_teids \in Seq(UlTeid)
    BY <2>1 DEF UpfInit
  <2> QED
    BY <2>2, <2>3, <2>4, <2>5 DEF UpfTypeOK
<1> QED
  BY <1>1 DEF UpfInit, UpfCore, CallOK, Recorded, CallFits, Idle

-----------------------------------------------------------------------------
(* The invariant of a UPF on its own, action by action.                    *)

\* Between calls a TEID has a route exactly when it has a session.
LEMMA IdleRouted ==
    ASSUME UpfCore, call = Idle
    PROVE  /\ \A t \in UlTeid : ul_map[t] # NoEntry <=> sessions[t] # NoEntry
           /\ call.fn = "idle"
BY DEF UpfCore, Recorded, Idle

\* No session has address ip: neither has a route nor a BPF entry it.
LEMMA UnusedAddress ==
    ASSUME UpfInv, call = Idle, NEW ip \in UeIp,
           \A u \in Live : sessions[u].ue_ip # ip
    PROVE  /\ \A u \in UlTeid : ul_map[u] # NoEntry => ul_map[u].ue_ip # ip
           /\ dl_map[ip] = NoEntry
           /\ ~map_error => ue_ip_to_route[ip] = NoEntry
<1>1. \A u \in UlTeid : ul_map[u] # NoEntry => ul_map[u].ue_ip # ip
  BY DEF UpfInv, UpfCore, Recorded, Live
<1>2. dl_map[ip] = NoEntry
  BY <1>1 DEF UpfInv, RoutesPair
<1> QED
  BY <1>1, <1>2 DEF UpfInv, Backed, Idle

\* A new session on a free TEID and a free address.
LEMMA InstallRest ==
    ASSUME UpfInv, call = Idle, NEW t \in UlTeid \ Live, NEW e \in Entity,
           NEW ip \in UeIp, NEW to \in Endpoint,
           \A u \in Live : sessions[u].ue_ip # ip,
           sessions' = [sessions EXCEPT ![t] = [entity |-> e, ue_ip |-> ip, to |-> to]],
           ul_map' = [ul_map EXCEPT ![t] = [ue_ip |-> ip, to |-> to]],
           dl_map' = [dl_map EXCEPT ![ip] = [ue_ip |-> ip, to |-> to]],
           call'.fn \in {"idle", "insert"}, UNCHANGED <<bpf, mapVars>>
    PROVE  /\ RoutesPair' /\ AddressesApart' /\ (~map_error => Backed)' /\ Unmirrored'
           /\ Live' = Live \cup {t}
<1> DEFINE r == [ue_ip |-> ip, to |-> to]
           s == [entity |-> e, ue_ip |-> ip, to |-> to]
<1>1. r # NoEntry /\ s # NoEntry /\ r.ue_ip = ip /\ s.ue_ip = ip
  BY NoEntryAssumption DEF Route, Session
<1> HIDE DEF r, s
<1>2. /\ sessions'[t] = s /\ ul_map'[t] = r /\ dl_map'[ip] = r
      /\ \A u \in UlTeid \ {t} : sessions'[u] = sessions[u] /\ ul_map'[u] = ul_map[u]
      /\ \A j \in UeIp \ {ip} : dl_map'[j] = dl_map[j]
  BY DEF UpfInv, UpfCore, UpfTypeOK, r, s
<1>3. /\ \A u \in UlTeid : ul_map[u] # NoEntry => ul_map[u].ue_ip # ip
      /\ ~map_error => ue_ip_to_route[ip] = NoEntry
  BY UnusedAddress
<1>4. ul_map[t] = NoEntry
  BY IdleRouted DEF UpfInv, Live
<1>5. \A u \in UlTeid : ul_map[u] # NoEntry => ul_map[u].ue_ip \in UeIp
  BY DEF UpfInv, UpfCore, UpfTypeOK, Route
<1>6. RoutesPair'
  <2>1. ASSUME NEW u \in UlTeid, ul_map'[u] # NoEntry
        PROVE  dl_map'[ul_map'[u].ue_ip] = ul_map'[u]
    <3>1. CASE u = t
      BY <1>1, <1>2, <3>1
    <3>2. CASE u # t
      BY <1>2, <1>3, <1>5, <2>1, <3>2 DEF UpfInv, RoutesPair
    <3> QED
      BY <3>1, <3>2
  <2>2. ASSUME NEW j \in UeIp, dl_map'[j] # NoEntry
        PROVE  dl_map'[j].ue_ip = j /\ \E u \in UlTeid : ul_map'[u] = dl_map'[j]
    <3>1. CASE j = ip
      BY <1>1, <1>2, <3>1
    <3>2. CASE j # ip
      <4>1. PICK u \in UlTeid : ul_map[u] = dl_map[j]
        BY <1>2, <2>2, <3>2 DEF UpfInv, RoutesPair
      <4>2. u # t
        BY <1>2, <1>4, <2>2, <3>2, <4>1
      <4> QED
        BY <1>2, <2>2, <3>2, <4>1, <4>2 DEF UpfInv, RoutesPair
    <3> QED
      BY <3>1, <3>2
  <2> QED
    BY <2>1, <2>2 DEF RoutesPair
<1>7. Live' = Live \cup {t}
  BY <1>1, <1>2 DEF Live
<1>8. AddressesApart'
  BY <1>1, <1>2, <1>7 DEF UpfInv, AddressesApart, Live
<1>9. (~map_error => Backed)'
  BY <1>2, <1>3, <1>1 DEF UpfInv, Backed, mapVars, Idle
<1>10. Unmirrored'
  BY DEF UpfInv, Unmirrored, mapVars
<1> QED
  BY <1>6, <1>7, <1>8, <1>9, <1>10

\* alloc_ul_teid finds a TEID no session has, as long as there is one.
LEMMA AllocFresh ==
    ASSUME UpfInv, allocator = "internal", Live # UlTeid, alloc_ul_teid,
           allocator' = allocator, Live' = Live \cup {AllocUlTeid}
    PROVE  AllocUlTeid \notin Live /\ UlPool'
<1>0. free_ul_teids \in Seq(UlTeid) /\ next_ul_teid \in UlTeid
  BY DEF UpfInv, UpfCore, UpfTypeOK
<1>1. CASE free_ul_teids # <<>>
  <2>1. /\ AllocUlTeid = Last(free_ul_teids) /\ free_ul_teids' = Front(free_ul_teids)
        /\ next_ul_teid' = next_ul_teid
    BY <1>1 DEF alloc_ul_teid, AllocUlTeid
  <2>2. /\ AllocUlTeid \in Range(free_ul_teids)
        /\ IsInjective(free_ul_teids')
        /\ Range(free_ul_teids') = Range(free_ul_teids) \ {AllocUlTeid}
    BY <1>0, <1>1, <2>1, TeidPopped DEF UpfInv, UlPool
  <2>3. AllocUlTeid \notin Live
    BY <2>2 DEF UpfInv, UlPool
  <2>4. Range(free_ul_teids') \cup Live' = Range(free_ul_teids) \cup Live
    BY <2>2
  <2>5. Range(free_ul_teids') \cap Live' = {}
    BY <2>2 DEF UpfInv, UlPool
  <2> QED
    BY <2>1, <2>2, <2>3, <2>4, <2>5 DEF UpfInv, UlPool
<1>2. CASE free_ul_teids = <<>>
  <2>1. AllocUlTeid = next_ul_teid /\ free_ul_teids' = free_ul_teids
    BY <1>2 DEF alloc_ul_teid, AllocUlTeid
  <2>2. Range(free_ul_teids) = {}
    BY <1>2, NoTeidListed
  <2>3. Live = InitialUlTeid .. next_ul_teid - 1
    BY <2>2 DEF UpfInv, UlPool
  <2>4. AllocUlTeid \notin Live
    BY <1>0, <2>1, <2>3, UpfAssumption DEF UlTeid
  <2>5. Live' = InitialUlTeid .. next_ul_teid
    BY <1>0, <2>1, <2>3, UpfAssumption DEF UlTeid
  <2>6. Live' = InitialUlTeid .. next_ul_teid' - 1 \/ Live' = UlTeid
    <3>1. CASE next_ul_teid = TeidSpace - 1
      BY <2>5, <3>1 DEF UlTeid
    <3>2. CASE next_ul_teid # TeidSpace - 1
      <4>1. (next_ul_teid + 1) % TeidSpace = next_ul_teid + 1
        <5>1. /\ next_ul_teid + 1 \in Nat /\ TeidSpace \in Nat
              /\ next_ul_teid + 1 < TeidSpace
          BY <1>0, <3>2, UpfAssumption DEF UlTeid
        <5> QED
          BY <5>1, SmallModulo
      <4>2. next_ul_teid' = next_ul_teid + 1
        BY <1>0, <1>2, <4>1, UpfAssumption DEF alloc_ul_teid, UlTeid
      <4> QED
        BY <1>0, <2>5, <4>2, UpfAssumption DEF UlTeid
    <3> QED
      BY <3>1, <3>2
  <2>7. IsInjective(free_ul_teids') /\ Range(free_ul_teids') = {}
    BY <1>2, <2>1, NoTeidListed
  <2> QED
    BY <2>4, <2>6, <2>7 DEF UlPool
<1> QED
  BY <1>1, <1>2

\* create_session: the TEID is fresh, so is the address.
LEMMA CreateStep ==
    ASSUME UpfInv, allocator = "internal", Live # UlTeid,
           NEW e \in Entity, NEW ip \in UeIp, NEW to \in Endpoint,
           \A t \in Live : sessions[t].ue_ip # ip, create_session(e, ip, to)
    PROVE  /\ UpfInv'
           /\ sessions[AllocUlTeid] = NoEntry
           /\ \A u \in UlTeid \ {AllocUlTeid} : sessions'[u] = sessions[u]
<1> DEFINE t == AllocUlTeid
<1>1. /\ call = Idle /\ call' = Idle /\ alloc_ul_teid /\ InstallSession(t, e, ip, to)
      /\ UNCHANGED <<allocator, bpf, mapVars>>
  BY DEF create_session
<1>2. t \in UlTeid /\ next_ul_teid' \in UlTeid /\ free_ul_teids' \in Seq(UlTeid)
  BY <1>1, AllocUlType DEF UpfInv, UpfCore
<1> HIDE DEF t
<1>3. /\ UpfCore'
      /\ sessions' = [sessions EXCEPT ![t] = [entity |-> e, ue_ip |-> ip, to |-> to]]
      /\ ul_map' = [ul_map EXCEPT ![t] = [ue_ip |-> ip, to |-> to]]
      /\ dl_map' = [dl_map EXCEPT ![ip] = [ue_ip |-> ip, to |-> to]]
  BY <1>1, <1>2, InstallCore DEF UpfInv
<1>4. /\ [entity |-> e, ue_ip |-> ip, to |-> to] # NoEntry
      /\ sessions \in [UlTeid -> Session \cup {NoEntry}]
  BY NoEntryAssumption DEF Session, UpfInv, UpfCore, UpfTypeOK
<1>5. Live' = Live \cup {t} /\ \A u \in UlTeid \ {t} : sessions'[u] = sessions[u]
  BY <1>2, <1>3, <1>4 DEF Live
<1>6. t \notin Live /\ UlPool'
  BY <1>1, <1>5, AllocFresh DEF t
<1>7. call'.fn = "idle"
  BY <1>1 DEF Idle
<1>8. RoutesPair' /\ AddressesApart' /\ (~map_error => Backed)' /\ Unmirrored'
  BY <1>1, <1>2, <1>3, <1>6, <1>7, InstallRest
<1> QED
  BY <1>2, <1>3, <1>5, <1>6, <1>8 DEF UpfInv, Live, t

\* create_session_with_teid: the control plane chose the TEID.
LEMMA CreateWithTeidStep ==
    ASSUME UpfInv, allocator = "control_plane", NEW t \in UlTeid \ Live,
           NEW e \in Entity, NEW ip \in UeIp, NEW enb \in EnbAddr,
           \A u \in Live : sessions[u].ue_ip # ip,
           create_session_with_teid(t, e, ip, enb)
    PROVE  /\ UpfInv'
           /\ \A u \in UlTeid \ {t} : sessions'[u] = sessions[u]
<1> DEFINE to == [dl_teid |-> 0, enb_addr |-> enb]
<1>1. to \in Endpoint
  BY DEF Endpoint
<1>2. /\ call = Idle /\ InstallSession(t, e, ip, to)
      /\ call' = [fn |-> "insert", pc |-> "teid", teid |-> t, ue_ip |-> ip, to |-> to]
      /\ UNCHANGED <<allocVars, bpf, mapVars>>
  BY DEF create_session_with_teid
<1>3. UpfCore'
  BY CreateWithTeidCore DEF UpfInv
<1> HIDE DEF to
<1>4. /\ sessions' = [sessions EXCEPT ![t] = [entity |-> e, ue_ip |-> ip, to |-> to]]
      /\ ul_map' = [ul_map EXCEPT ![t] = [ue_ip |-> ip, to |-> to]]
      /\ dl_map' = [dl_map EXCEPT ![ip] = [ue_ip |-> ip, to |-> to]]
  BY <1>2 DEF InstallSession, install
<1>5. call'.fn = "insert"
  BY <1>2
<1>6. RoutesPair' /\ AddressesApart' /\ (~map_error => Backed)' /\ Unmirrored'
  BY <1>1, <1>2, <1>4, <1>5, InstallRest
<1>7. UlPool'
  BY <1>2 DEF UlPool, allocVars
<1>8. \A u \in UlTeid \ {t} : sessions'[u] = sessions[u]
  BY <1>4 DEF UpfInv, UpfCore, UpfTypeOK
<1> QED
  BY <1>3, <1>6, <1>7, <1>8 DEF UpfInv

\* A call starts that has read but written nothing.
LEMMA CallStartStep ==
    ASSUME UpfInv, UpfCore', call = Idle,
           UNCHANGED <<allocVars, ul_map, dl_map, sessions, bpf, mapVars>>
    PROVE  UpfInv'
<1>1. Live' = Live
  BY DEF Live
<1>2. RoutesPair' /\ AddressesApart' /\ Unmirrored' /\ UlPool'
  BY <1>1 DEF UpfInv, RoutesPair, AddressesApart, Unmirrored, UlPool, allocVars, mapVars
<1>3. (~map_error => Backed)'
  BY DEF UpfInv, Backed, mapVars, Idle
<1> QED
  BY <1>2, <1>3 DEF UpfInv

\* remove_session takes both routes out in one critical section.
LEMMA RemoveStep ==
    ASSUME UpfInv, NEW t \in UlTeid, remove_session(t)
    PROVE  UpfInv'
<1>1. /\ UpfCore' /\ call'.fn = "remove" /\ call'.pc = "teid" /\ call'.teid = t
      /\ ul_map' = [ul_map EXCEPT ![t] = NoEntry]
  BY RemoveCallCore DEF UpfInv
<1>2. /\ call = Idle /\ UNCHANGED <<allocVars, sessions, bpf, mapVars>>
      /\ dl_map' = IF ul_map[t] = NoEntry THEN dl_map
                   ELSE [dl_map EXCEPT ![ul_map[t].ue_ip] = NoEntry]
  BY DEF remove_session, remove
<1>3. Live' = Live
  BY <1>2 DEF Live
<1>4. AddressesApart' /\ Unmirrored' /\ UlPool'
  BY <1>2, <1>3 DEF UpfInv, AddressesApart, Unmirrored, UlPool, allocVars, mapVars
<1>5. /\ ul_map'[t] = NoEntry
      /\ \A u \in UlTeid \ {t} : ul_map'[u] = ul_map[u]
  BY <1>1 DEF UpfInv, UpfCore, UpfTypeOK
<1>6. CASE ul_map[t] = NoEntry
  <2>1. ul_map' = ul_map /\ dl_map' = dl_map
    BY <1>1, <1>2, <1>6 DEF UpfInv, UpfCore, UpfTypeOK
  <2>2. RoutesPair'
    BY <2>1 DEF UpfInv, RoutesPair
  <2>3. (~map_error => Backed)'
    BY <1>2, <2>1 DEF UpfInv, Backed, mapVars, Idle
  <2> QED
    BY <1>1, <1>4, <2>2, <2>3 DEF UpfInv
<1>7. CASE ul_map[t] # NoEntry
  <2> DEFINE ip == ul_map[t].ue_ip
  <2>1. ip \in UeIp
    BY <1>7 DEF UpfInv, UpfCore, UpfTypeOK, Route
  <2>2. dl_map'[ip] = NoEntry /\ \A j \in UeIp \ {ip} : dl_map'[j] = dl_map[j]
    BY <1>2, <1>7, <2>1 DEF UpfInv, UpfCore, UpfTypeOK
  <2>3. \A u \in UlTeid \ {t} : ul_map[u] # NoEntry =>
            ul_map[u].ue_ip # ip /\ ul_map[u].ue_ip \in UeIp
    BY <1>7 DEF UpfInv, UpfCore, UpfTypeOK, Route, Recorded, AddressesApart, Live
  <2>4. sessions[t] # NoEntry /\ call'.ue_ip = ip
    <3>1. sessions[t] # NoEntry /\ sessions[t].ue_ip = ip
      BY <1>7 DEF UpfInv, UpfCore, Recorded
    <3> QED
      BY <3>1 DEF remove_session
  <2>5. RoutesPair'
    <3>1. ASSUME NEW u \in UlTeid, ul_map'[u] # NoEntry
          PROVE  dl_map'[ul_map'[u].ue_ip] = ul_map'[u]
      BY <1>5, <2>2, <2>3, <3>1 DEF UpfInv, RoutesPair
    <3>2. ASSUME NEW j \in UeIp, dl_map'[j] # NoEntry
          PROVE  dl_map'[j].ue_ip = j /\ \E u \in UlTeid : ul_map'[u] = dl_map'[j]
      <4>1. j # ip /\ dl_map'[j] = dl_map[j] /\ dl_map[j].ue_ip = j
        BY <2>2, <3>2 DEF UpfInv, RoutesPair
      <4>2. PICK u \in UlTeid : ul_map[u] = dl_map[j]
        BY <3>2, <4>1 DEF UpfInv, RoutesPair
      <4>3. u # t
        BY <4>1, <4>2
      <4> QED
        BY <1>5, <4>1, <4>2, <4>3
    <3> QED
      BY <3>1, <3>2 DEF RoutesPair
  <2>6. (~map_error => Backed)'
    BY <1>1, <1>2, <1>5, <2>2, <2>4 DEF UpfInv, Backed, mapVars, Idle
  <2> QED
    BY <1>1, <1>4, <2>5, <2>6 DEF UpfInv
<1> QED
  BY <1>6, <1>7

\* update_bearer_info replaces both routes and the record at once.
LEMMA UpdateRoutesStep ==
    ASSUME UpfInv, UpdateRoutes
    PROVE  UpfInv'
<1> DEFINE t == call.teid
           ip == call.ue_ip
           r == [ue_ip |-> call.ue_ip, to |-> call.to]
           s == [sessions[t] EXCEPT !.to = call.to]
<1>1. /\ UpfCore' /\ t \in UlTeid /\ ip \in UeIp /\ call.to \in Endpoint
      /\ ul_map[t] # NoEntry /\ ul_map[t].ue_ip = ip /\ sessions[t] # NoEntry
      /\ sessions' = [sessions EXCEPT ![t] = s]
      /\ ul_map' = [ul_map EXCEPT ![t] = r]
      /\ dl_map' = [dl_map EXCEPT ![ip] = r]
      /\ call'.fn = "insert" /\ call'.ue_ip = ip
  BY UpdateRoutesCore DEF UpfInv
<1>2. UNCHANGED <<allocVars, bpf, mapVars>> /\ call.fn = "update"
  BY DEF UpdateRoutes
<1>3. r # NoEntry /\ r.ue_ip = ip
  BY <1>1, NoEntryAssumption DEF Route
<1>4. s # NoEntry /\ s.ue_ip = sessions[t].ue_ip
  <2>1. sessions[t] \in Session
    BY <1>1 DEF UpfInv, UpfCore, UpfTypeOK
  <2> QED
    BY <1>1, <2>1, NoEntryAssumption DEF Session
<1> HIDE DEF r, s, t, ip
<1>5. /\ sessions'[t] = s /\ ul_map'[t] = r /\ dl_map'[ip] = r
      /\ \A u \in UlTeid \ {t} : sessions'[u] = sessions[u] /\ ul_map'[u] = ul_map[u]
      /\ \A j \in UeIp \ {ip} : dl_map'[j] = dl_map[j]
  BY <1>1 DEF UpfInv, UpfCore, UpfTypeOK
<1>6. Live' = Live
  BY <1>1, <1>4, <1>5 DEF Live
<1>7. AddressesApart'
  BY <1>1, <1>4, <1>5, <1>6 DEF UpfInv, AddressesApart, Live
<1>8. \A u \in UlTeid \ {t} : ul_map[u] # NoEntry =>
          ul_map[u].ue_ip # ip /\ ul_map[u].ue_ip \in UeIp
  BY <1>1 DEF UpfInv, UpfCore, UpfTypeOK, Route, Recorded, AddressesApart, Live
<1>9. RoutesPair'
  <2>1. ASSUME NEW u \in UlTeid, ul_map'[u] # NoEntry
        PROVE  dl_map'[ul_map'[u].ue_ip] = ul_map'[u]
    BY <1>3, <1>5, <1>8, <2>1 DEF UpfInv, RoutesPair
  <2>2. ASSUME NEW j \in UeIp, dl_map'[j] # NoEntry
        PROVE  dl_map'[j].ue_ip = j /\ \E u \in UlTeid : ul_map'[u] = dl_map'[j]
    <3>1. CASE j = ip
      BY <1>1, <1>3, <1>5, <3>1
    <3>2. CASE j # ip
      <4>1. dl_map'[j] = dl_map[j] /\ dl_map[j].ue_ip = j
        BY <1>5, <2>2, <3>2 DEF UpfInv, RoutesPair
      <4>2. PICK u \in UlTeid : ul_map[u] = dl_map[j]
        BY <2>2, <4>1 DEF UpfInv, RoutesPair
      <4>3. u # t
        BY <1>1, <3>2, <4>1, <4>2
      <4> QED
        BY <1>5, <4>1, <4>2, <4>3
    <3> QED
      BY <3>1, <3>2
  <2> QED
    BY <2>1, <2>2 DEF RoutesPair
<1>10. Unmirrored' /\ UlPool'
  BY <1>2, <1>6 DEF UpfInv, Unmirrored, UlPool, allocVars, mapVars
<1>11. (~map_error => Backed)'
  BY <1>1, <1>2, <1>3, <1>5 DEF UpfInv, Backed, mapVars
<1> QED
  BY <1>1, <1>7, <1>9, <1>10, <1>11 DEF UpfInv

\* A BPF map operation changes none of the tables.
LEMMA TablesKept ==
    ASSUME UpfInv, UNCHANGED <<allocVars, ul_map, dl_map, sessions, bpf>>
    PROVE  RoutesPair' /\ AddressesApart' /\ UlPool'
<1>1. Live' = Live
  BY DEF Live
<1> QED
  BY <1>1 DEF UpfInv, RoutesPair, AddressesApart, UlPool, allocVars

\* The TEID map of an insert.
LEMMA MirrorTeidStep ==
    ASSUME UpfInv, MirrorTeid
    PROVE  UpfInv'
<1>1. /\ call \in InsertCall /\ call.teid \in UlTeid /\ call.to \in Endpoint
      /\ call.fn = "insert" /\ ul_map[call.teid] = [ue_ip |-> call.ue_ip, to |-> call.to]
      /\ call.ue_ip \in UeIp
  BY CallShape DEF UpfInv, UpfCore, CallFits, MirrorTeid, InsertCall
<1>2. ul_map[call.teid] # NoEntry
  BY <1>1, NoEntryAssumption DEF Route
<1>3. /\ UpfCore' /\ call'.fn = "insert" /\ call'.ue_ip = call.ue_ip
      /\ UNCHANGED <<allocVars, ul_map, dl_map, sessions, bpf, ue_ip_to_route>>
  BY <1>1, MirrorTeidCore DEF UpfInv, MirrorTeid, InsertCall
<1>4. /\ map_error => map_error'
      /\ \A u \in UlTeid \ {call.teid} : teid_to_route'[u] = teid_to_route[u]
      /\ ~bpf => teid_to_route' = teid_to_route
  BY <1>1, InsertTeidType DEF UpfInv, UpfCore, MirrorTeid
<1>5. (~map_error => Backed)'
  BY <1>1, <1>2, <1>3, <1>4 DEF UpfInv, Backed
<1>6. Unmirrored'
  BY <1>3, <1>4 DEF UpfInv, Unmirrored
<1> QED
  BY <1>3, <1>5, <1>6, TablesKept DEF UpfInv

\* The address map of an insert: what is written is what the table says.
LEMMA MirrorUeRouteStep ==
    ASSUME UpfInv, MirrorUeRoute
    PROVE  UpfInv'
<1>1. /\ call.teid \in UlTeid /\ call.ue_ip \in UeIp /\ call.to \in Endpoint
      /\ call.fn = "insert" /\ ul_map[call.teid] = [ue_ip |-> call.ue_ip, to |-> call.to]
  BY CallShape DEF UpfInv, UpfCore, CallFits, MirrorUeRoute, InsertCall
<1>2. /\ dl_map[call.ue_ip] # NoEntry /\ dl_map[call.ue_ip].to = call.to
  <2>1. ul_map[call.teid] # NoEntry /\ ul_map[call.teid].ue_ip = call.ue_ip
    BY <1>1, NoEntryAssumption DEF Route
  <2> QED
    BY <1>1, <2>1 DEF UpfInv, RoutesPair
<1>3. /\ UpfCore' /\ call'.fn = "idle"
      /\ UNCHANGED <<allocVars, ul_map, dl_map, sessions, bpf, teid_to_route>>
  BY MirrorUeRouteCore DEF UpfInv, MirrorUeRoute, Idle
<1>4. /\ map_error => map_error'
      /\ \A j \in UeIp \ {call.ue_ip} : ue_ip_to_route'[j] = ue_ip_to_route[j]
      /\ ~map_error' => ue_ip_to_route'[call.ue_ip] =
                            IF bpf THEN call.to ELSE ue_ip_to_route[call.ue_ip]
      /\ ~bpf => ue_ip_to_route' = ue_ip_to_route
  BY <1>1, InsertUeRouteType DEF UpfInv, UpfCore, MirrorUeRoute
<1>5. (~map_error => Backed)'
  <2> SUFFICES ASSUME ~map_error' PROVE Backed'
    OBVIOUS
  <2>1. Backed
    BY <1>4 DEF UpfInv
  <2>2. ~bpf => ue_ip_to_route[call.ue_ip] = NoEntry
    BY <1>1 DEF UpfInv, Unmirrored
  <2> QED
    BY <1>1, <1>2, <1>3, <1>4, <2>1, <2>2 DEF Backed
<1>6. Unmirrored'
  BY <1>3, <1>4 DEF UpfInv, Unmirrored
<1> QED
  BY <1>3, <1>5, <1>6, TablesKept DEF UpfInv

\* The TEID map of a removal.
LEMMA UnmirrorTeidStep ==
    ASSUME UpfInv, UnmirrorTeid
    PROVE  UpfInv'
<1>1. call \in RemoveCall /\ call.teid \in UlTeid /\ call.fn = "remove"
  BY CallShape DEF UpfInv, UpfCore, UnmirrorTeid, RemoveCall
<1>2. /\ UpfCore' /\ call'.fn = "remove" /\ call'.ue_ip = call.ue_ip
      /\ UNCHANGED <<allocVars, ul_map, dl_map, sessions, bpf, ue_ip_to_route>>
  BY <1>1, MirrorTeidCore DEF UpfInv, UnmirrorTeid, RemoveCall
<1>3. /\ map_error => map_error'
      /\ \A u \in UlTeid \ {call.teid} : teid_to_route'[u] = teid_to_route[u]
      /\ ~map_error' => teid_to_route'[call.teid] =
                            IF bpf THEN NoEntry ELSE teid_to_route[call.teid]
      /\ ~bpf => teid_to_route' = teid_to_route
  BY <1>1, InsertTeidType DEF UpfInv, UpfCore, UnmirrorTeid
<1>4. (~map_error => Backed)'
  <2> SUFFICES ASSUME ~map_error' PROVE Backed'
    OBVIOUS
  <2>1. Backed
    BY <1>3 DEF UpfInv
  <2>2. teid_to_route'[call.teid] = NoEntry
    BY <1>1, <1>3 DEF UpfInv, Unmirrored
  <2> QED
    BY <1>1, <1>2, <1>3, <2>1, <2>2 DEF Backed
<1>5. Unmirrored'
  BY <1>2, <1>3 DEF UpfInv, Unmirrored
<1> QED
  BY <1>2, <1>4, <1>5, TablesKept DEF UpfInv

\* The end of remove_session: the address map, the record, the free list.
LEMMA UnmirrorUeRouteStep ==
    ASSUME UpfInv, UnmirrorUeRoute
    PROVE  UpfInv'
<1> DEFINE t == call.teid
<1>1. /\ t \in UlTeid /\ call.fn = "remove" /\ call.pc = "ue_ip"
      /\ call.ue_ip \in UeIp \cup {NoEntry} /\ ul_map[t] = NoEntry
  BY CallShape DEF UpfInv, UpfCore, CallFits, UnmirrorUeRoute, RemoveCall
<1>2. /\ UpfCore' /\ sessions' = [sessions EXCEPT ![t] = NoEntry]
      /\ call'.fn = "idle"
      /\ UNCHANGED <<allocator, next_ul_teid, ul_map, dl_map, bpf, teid_to_route>>
      /\ free_ul_teids' = IF sessions[t] = NoEntry THEN free_ul_teids
                          ELSE Append(free_ul_teids, t)
  BY UnmirrorUeRouteCore DEF UpfInv, UnmirrorUeRoute, Idle
<1>3. /\ map_error => map_error'
      /\ \A j \in UeIp : j # call.ue_ip => ue_ip_to_route'[j] = ue_ip_to_route[j]
      /\ (~map_error' /\ call.ue_ip # NoEntry) =>
             ue_ip_to_route'[call.ue_ip] =
                 IF bpf THEN NoEntry ELSE ue_ip_to_route[call.ue_ip]
      /\ ~bpf => ue_ip_to_route' = ue_ip_to_route
  <2>1. CASE call.ue_ip = NoEntry
    BY <2>1 DEF UnmirrorUeRoute
  <2>2. CASE call.ue_ip # NoEntry
    BY <1>1, <2>2, InsertUeRouteType DEF UpfInv, UpfCore, UnmirrorUeRoute
  <2> QED
    BY <2>1, <2>2
<1> HIDE DEF t
<1>4. /\ sessions'[t] = NoEntry
      /\ \A u \in UlTeid \ {t} : sessions'[u] = sessions[u]
  BY <1>1, <1>2 DEF UpfInv, UpfCore, UpfTypeOK
<1>5. Live' = Live \ {t}
  BY <1>4 DEF Live
<1>6. RoutesPair' /\ AddressesApart'
  BY <1>2, <1>4, <1>5 DEF UpfInv, RoutesPair, AddressesApart, Live
<1>7. (~map_error => Backed)'
  <2> SUFFICES ASSUME ~map_error' PROVE Backed'
    OBVIOUS
  <2>1. Backed
    BY <1>3 DEF UpfInv
  <2>2. call.ue_ip \in UeIp => ue_ip_to_route'[call.ue_ip] = NoEntry
    BY <1>1, <1>3, NoEntryAssumption DEF UpfInv, Unmirrored
  <2> QED
    BY <1>1, <1>2, <1>3, <2>1, <2>2 DEF Backed
<1>8. Unmirrored'
  BY <1>2, <1>3 DEF UpfInv, Unmirrored
<1>9. UlPool'
  <2> SUFFICES ASSUME allocator = "internal" PROVE UlPool'
    BY <1>2 DEF UlPool
  <2>1. CASE sessions[t] = NoEntry
    <3>1. Live' = Live /\ free_ul_teids' = free_ul_teids
      BY <1>2, <1>5, <2>1 DEF Live
    <3> QED
      BY <1>2, <3>1 DEF UpfInv, UlPool
  <2>2. CASE sessions[t] # NoEntry
    <3>1. t \in Live /\ t \notin Range(free_ul_teids)
      BY <1>1, <2>2 DEF UpfInv, UlPool, Live
    <3>2. IsInjective(free_ul_teids') /\ Range(free_ul_teids') = Range(free_ul_teids) \cup {t}
      BY <1>1, <1>2, <2>2, <3>1, TeidPushed DEF UpfInv, UpfCore, UpfTypeOK, UlPool
    <3>3. Range(free_ul_teids') \cup Live' = Range(free_ul_teids) \cup Live
      BY <1>5, <3>1, <3>2
    <3>4. Range(free_ul_teids') \cap Live' = {}
      BY <1>5, <3>2 DEF UpfInv, UlPool
    <3> QED
      BY <1>2, <3>2, <3>3, <3>4 DEF UpfInv, UlPool
  <2> QED
    BY <2>1, <2>2
<1> QED
  BY <1>2, <1>6, <1>7, <1>8, <1>9 DEF UpfInv

\* The BPF handle arrives: nothing was mirrored before, and nothing is.
LEMMA SetBpfStep ==
    ASSUME UpfInv, set_bpf_handle
    PROVE  UpfInv'
<1>1. UpfCore'
  BY SetBpfCore DEF UpfInv
<1>2. /\ bpf' = TRUE /\ call' = call
      /\ UNCHANGED <<allocVars, ul_map, dl_map, sessions, mapVars>>
  BY DEF set_bpf_handle
<1>3. Live' = Live
  BY <1>2 DEF Live
<1> QED
  BY <1>1, <1>2, <1>3 DEF UpfInv, RoutesPair, AddressesApart, Backed, Unmirrored,
                          UlPool, allocVars, mapVars

-----------------------------------------------------------------------------
(* Theorems.                                                               *)

\* A new UPF: empty tables, nothing allocated.
LEMMA UpfInitInv == UpfInit => UpfInv
<1> SUFFICES ASSUME UpfInit PROVE UpfInv
  OBVIOUS
<1>1. UpfCore
  BY UpfInitCore
<1>2. Live = {}
  BY DEF UpfInit, Live
<1>3. UlPool
  <2>1. IsInjective(free_ul_teids) /\ Range(free_ul_teids) = {}
    BY NoTeidListed DEF UpfInit
  <2>2. InitialUlTeid .. next_ul_teid - 1 = {}
    BY UpfAssumption DEF UpfInit
  <2> QED
    BY <1>2, <2>1, <2>2 DEF UlPool
<1>4. RoutesPair /\ AddressesApart
  BY <1>2 DEF UpfInit, RoutesPair, AddressesApart
<1>5. Backed /\ Unmirrored
  BY DEF UpfInit, Backed, Unmirrored
<1> QED
  BY <1>1, <1>3, <1>4, <1>5 DEF UpfInv

\* A step of UpfNext, as one of the operations with what the environment
\* guarantees about its arguments.
LEMMA UpfNextCases ==
    ASSUME UpfNext
    PROVE  \/ \E e \in Entity, ip \in UeIp, to \in Endpoint :
                 /\ allocator = "internal" /\ Live # UlTeid
                 /\ \A t \in Live : sessions[t].ue_ip # ip
                 /\ create_session(e, ip, to)
           \/ \E e \in Entity, ip \in UeIp, t \in UlTeid \ Live, enb \in EnbAddr :
                 /\ allocator = "control_plane"
                 /\ \A u \in Live : sessions[u].ue_ip # ip
                 /\ create_session_with_teid(t, e, ip, enb)
           \/ \E t \in UlTeid, to \in Endpoint : update_bearer_info(t, to)
           \/ \E t \in UlTeid, dl \in BearerTeid : update_dl_teid(t, dl)
           \/ \E t \in UlTeid : remove_session(t)
           \/ set_bpf_handle
           \/ UpfStep
BY DEF UpfNext

\* Every step preserves the invariant, and starts or changes a session between
\* calls only on a TEID that has none.
LEMMA UpfInvInductive ==
    ASSUME UpfInv, [UpfNext]_upfVars
    PROVE  /\ UpfInv'
           /\ \A u \in UlTeid : (call = Idle /\ sessions'[u] # sessions[u])
                                   => sessions[u] = NoEntry
<1> DEFINE Fresh == \A u \in UlTeid : (call = Idle /\ sessions'[u] # sessions[u])
                                          => sessions[u] = NoEntry
<1>1. CASE UNCHANGED upfVars
  <2>1. UpfCore'
    BY <1>1, StutterCore DEF UpfInv
  <2>2. Live' = Live
    BY <1>1 DEF Live, upfVars
  <2> QED
    BY <1>1, <2>1, <2>2
       DEF UpfInv, RoutesPair, AddressesApart, Backed, Unmirrored, UlPool,
           upfVars, allocVars, mapVars
<1>2. ASSUME NEW e \in Entity, NEW ip \in UeIp, NEW to \in Endpoint,
             allocator = "internal", Live # UlTeid,
             \A t \in Live : sessions[t].ue_ip # ip, create_session(e, ip, to)
      PROVE  UpfInv' /\ Fresh
  BY <1>2, CreateStep
<1>3. ASSUME NEW e \in Entity, NEW ip \in UeIp, NEW t \in UlTeid \ Live,
             NEW enb \in EnbAddr, allocator = "control_plane",
             \A u \in Live : sessions[u].ue_ip # ip,
             create_session_with_teid(t, e, ip, enb)
      PROVE  UpfInv' /\ Fresh
  BY <1>3, CreateWithTeidStep DEF Live
<1>4. ASSUME NEW t \in UlTeid, NEW to \in Endpoint, update_bearer_info(t, to)
      PROVE  UpfInv' /\ Fresh
  <2>1. /\ call = Idle /\ sessions' = sessions
        /\ UNCHANGED <<allocVars, ul_map, dl_map, sessions, bpf, mapVars>>
    BY <1>4 DEF update_bearer_info
  <2>2. UpfCore'
    BY <1>4, UpdateCallCore DEF UpfInv
  <2> QED
    BY <2>1, <2>2, CallStartStep
<1>5. ASSUME NEW t \in UlTeid, NEW dl \in BearerTeid, update_dl_teid(t, dl)
      PROVE  UpfInv' /\ Fresh
  <2>1. /\ call = Idle
        /\ UNCHANGED <<allocVars, ul_map, dl_map, sessions, bpf, mapVars>>
    BY <1>5 DEF update_dl_teid, update_bearer_info, upfVars
  <2>2. UpfCore'
    BY <1>5, UpdateDlCore DEF UpfInv
  <2> QED
    BY <2>1, <2>2, CallStartStep
<1>6. ASSUME NEW t \in UlTeid, remove_session(t) PROVE UpfInv' /\ Fresh
  BY <1>6, RemoveStep DEF remove_session
<1>7. CASE set_bpf_handle
  BY <1>7, SetBpfStep DEF set_bpf_handle
<1>8. CASE UpfStep
  <2>1. call # Idle
    BY <1>8 DEF UpfStep, UpdateRoutes, MirrorTeid, MirrorUeRoute, UnmirrorTeid,
                UnmirrorUeRoute, Idle
  <2>2. UpfInv'
    BY <1>8, UpdateRoutesStep, MirrorTeidStep, MirrorUeRouteStep,
       UnmirrorTeidStep, UnmirrorUeRouteStep DEF UpfStep
  <2> QED
    BY <2>1, <2>2
<1> HIDE DEF Fresh
<1>9. UpfInv' /\ Fresh
  BY <1>1, <1>2, <1>3, <1>4, <1>5, <1>6, <1>7, <1>8, UpfNextCases DEF Fresh
<1> QED
  BY <1>9 DEF Fresh

\* The invariant holds in every state a UPF reaches (SessionManager).
THEOREM UpfInvariant == UpfSpec => []UpfInv
<1>1. UpfInit => UpfInv
  BY UpfInitInv
<1>2. UpfInv /\ [UpfNext]_upfVars => UpfInv'
  BY UpfInvInductive
<1> QED
  BY <1>1, <1>2, PTL DEF UpfSpec

\* Tables, maps and the allocator keep their types; the TEID counter stays in
\* range also when it wraps (alloc_ul_teid).
THEOREM UpfTypeCorrect == UpfSpec => []UpfTypeOK
<1>1. UpfInv => UpfTypeOK
  BY DEF UpfInv, UpfCore
<1> QED
  BY <1>1, UpfInvariant, PTL

\* Whenever the mutex is free the forwarder finds the same routes in both
\* directions (install, remove, update_bearer_info).
THEOREM UpfRoutesPair == UpfSpec => []RoutesPair
<1>1. UpfInv => RoutesPair
  BY DEF UpfInv
<1> QED
  BY <1>1, UpfInvariant, PTL

\* Between calls records and routes describe the same sessions.
THEOREM UpfSessionsRouted == UpfSpec => []SessionsRouted
<1>1. UpfInv => SessionsRouted
  <2> SUFFICES ASSUME UpfInv, call = Idle, NEW t \in UlTeid
               PROVE  /\ ul_map[t] = NoEntry <=> sessions[t] = NoEntry
                      /\ t \in Live => /\ ul_map[t].ue_ip = sessions[t].ue_ip
                                      /\ ul_map[t].to = sessions[t].to
    BY DEF SessionsRouted
  <2>1. ul_map[t] = NoEntry <=> sessions[t] = NoEntry
    BY IdleRouted DEF UpfInv
  <2> QED
    BY <2>1 DEF UpfInv, UpfCore, Recorded, Live
<1> QED
  BY <1>1, UpfInvariant, PTL

\* Between calls, and while no map operation has failed, the XDP programs
\* decide nothing the forwarder would not, whenever the handle arrived.
THEOREM UpfFastPathAgrees == UpfSpec => []FastPathAgrees
<1>1. UpfInv => FastPathAgrees
  <2> SUFFICES ASSUME UpfInv, call = Idle, ~map_error PROVE FastPathAgrees
    BY DEF FastPathAgrees
  <2>1. \A t \in UlTeid : teid_to_route[t] # NoEntry => ul_map[t] # NoEntry
    BY DEF UpfInv, Backed, Idle
  <2>2. \A ip \in UeIp : ue_ip_to_route[ip] # NoEntry =>
            dl_map[ip] # NoEntry /\ dl_map[ip].to = ue_ip_to_route[ip]
    BY DEF UpfInv, Backed, Idle
  <2> QED
    BY <2>1, <2>2 DEF FastPathAgrees, process_dl, encapsulate_downlink, process,
                      process_uplink
<1> QED
  BY <1>1, UpfInvariant, PTL

\* A session starts only on a TEID that no session has: the internal allocator
\* never hands out one in use, although its counter wraps (alloc_ul_teid).
THEOREM UpfFreshTeid == UpfSpec => FreshTeid
<1>1. UpfInv /\ [UpfNext]_upfVars =>
          \A t \in UlTeid : (call = Idle /\ sessions'[t] # sessions[t])
                                => sessions[t] = NoEntry
  BY UpfInvInductive
<1> QED
  BY <1>1, UpfInvariant, PTL DEF UpfSpec, FreshTeid
=============================================================================
