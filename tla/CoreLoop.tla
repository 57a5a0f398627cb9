------------------------------ MODULE CoreLoop ------------------------------
(***************************************************************************)
(* A control plane together with the UPF it controls, joined the way       *)
(* midn_sim::run_amf and mme_sim::run_mme join them: one task receives a   *)
(* message, calls process_ngap or process_s1ap, applies every returned     *)
(* event to the SessionManager, then sends every response, then receives   *)
(* the next message.                                                       *)
(*                                                                         *)
(* `events' and `responses' hold what is left to apply and to send.        *)
(***************************************************************************)
EXTENDS ControlPlane, Upf

loopVars == <<cpVars, upfVars>>

\* The RAN node's address in endpoints; 0.0.0.0 is the placeholder.
RanAddr == 1

\* The UPF takes every TEID, entity and bearer the control plane may name: they
\* are the same u32 and IPv4 values on both sides.
ASSUME LoopAssumption ==
    /\ Teid \subseteq UlTeid
    /\ EntityId \subseteq Entity
    /\ DlTeid \subseteq BearerTeid
    /\ {0, RanAddr} \subseteq EnbAddr
    /\ NoEntry \notin EntityId

LoopInit == CpInit /\ UpfInit

\* Between two messages.
Drained == events = <<>> /\ responses = <<>> /\ call = Idle

\* One iteration's call of the control plane, by one of its steps.
Receive(step) == Drained /\ step /\ UNCHANGED upfVars

\* The SessionManager call this starts runs to its end (UpfStep) before the
\* loop goes on.
apply_upf_event(evt) ==
    \/ /\ evt.type = "CreateSession"
       /\ create_session_with_teid(evt.ul_teid, evt.entity, evt.ue_ip, 0)
    \/ /\ evt.type = "UpdateBearer"
       /\ update_bearer_info(evt.ul_teid,
                             [dl_teid |-> evt.dl_teid, enb_addr |-> RanAddr])
    \/ /\ evt.type = "RemoveSession"
       /\ remove_session(evt.ul_teid)

ApplyEvent ==
    /\ events # <<>>
    /\ apply_upf_event(Head(events))
    /\ events' = Tail(events)
    /\ UNCHANGED <<coreVars, responses>>

ServeCall == UpfStep /\ UNCHANGED cpVars

\* Mutant of SendResponse: responses leave before the events are applied.
SendEarly ==
    /\ responses # <<>>
    /\ responses' = Tail(responses)
    /\ UNCHANGED <<coreVars, events, upfVars>>

\* link.send of the next response, once all events are applied.
SendResponse ==
    /\ events = <<>>
    /\ call = Idle
    /\ responses # <<>>
    /\ responses' = Tail(responses)
    /\ UNCHANGED <<coreVars, events, upfVars>>
-----------------------------------------------------------------------------
(* Properties.                                                             *)

\* The responses that announce a TEID.
Announced == {r \in Range(responses) : r.type = "InitialContextSetupRequest"}

\* The two sides agree on what is in use: between two messages the UPF has a
\* session for exactly the TEIDs the core has allocated, and every tunnel of a
\* live entity leads to the session of that entity, with the same downlink
\* TEID, whatever was repeated, late or meant for a recycled id (UpfEvent and
\* N3Event against SessionManager; handle_icsrsp, handle_release_complete).
LedgersAgree ==
    Drained =>
        /\ Live = Allocated
        /\ \A e \in LiveIds : ent[e].tunnel # None =>
              LET t == ent[e].tunnel.ul_teid IN
              /\ sessions[t].entity = e
              /\ sessions[t].to.dl_teid = ent[e].tunnel.dl_teid
=============================================================================
