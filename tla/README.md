# Verification of midn

midn is a small LTE/5G mobile core in Rust: an MME and an AMF over a shared
entity store, an HSS, a user plane with an optional XDP fast path, and two
simulation programs that drive them. This directory holds TLA+ models of its
core, of the two simulations, of the link and of the codecs, the TLC instances
that check them, and TLAPS proofs.

## Inventory

| Component | State it keeps | Operations | Talks to |
|---|---|---|---|
| ECS `World` (`midn-ecs`) | id counter, free stack, live count, one slot of components per id | `spawn`, `despawn`, setters | called by MME, AMF |
| `ImsiRegistry` | IMSI to entity id | `register`, `deregister` | called by MME, AMF |
| `Hss` (`midn-core`) | SQN per subscriber | `provision`, `generate_auth_vector` | called by MME, AMF |
| `TeidAllocator` | counter, free list | `alloc`, `release` | owned by MME, AMF |
| `Mme` | the four above | `process_s1ap` and its handlers | S1AP messages in and out, `UpfEvent`s out |
| `Amf` | the four above | `process_ngap` and its handlers | NGAP messages in and out, `N3Event`s out |
| NAS security context | key, UL and DL COUNT | protect, unprotect | kept in a slot of `World` |
| `SessionManager` (`midn-userplane`) | sessions, own TEID allocator, BPF handle | `create_session*`, `update_*`, `remove_session`, `set_bpf_handle` | writes the routing table and the BPF maps |
| `RoutingTable` | UL TEID to route, UE IP to route | `install`, `remove`, lookups | shared behind a mutex |
| `GtpForwarder` | two tasks on one UDP socket | `process_uplink`, `encapsulate_downlink` | reads the routing table |
| BPF maps, XDP programs | `TEID_TO_ROUTE`, `UE_IP_TO_ROUTE` | `process`, `process_dl` | read what `SessionManager` mirrors |
| `midn-sim` | UE tasks, dispatcher, AMF loop | `run_amf`, `run_gnb`, `run_one_ue` | SCTP link, GTP-U datagrams, channels |
| `mme-sim` | one UE with its eNodeB, MME loop | `run_mme`, `run_ue`, `user_plane_round_trip` | SCTP link, GTP-U datagrams |
| `SctpLink` (`midn-transport`) | a driver task per side, two channels, the association, `stream_ready` | connect, accept, `send`, `recv`; `drive` selects over datagrams, timer and sends, then `pump`s | drives `rtc-sctp` over UDP |
| S1AP and NGAP codecs over `per.rs` | none | encode, decode | between the link and the handlers |
| EPS and 5GS NAS codecs, their elements and protected envelopes | none | encode, decode | between the S1AP/NGAP payload and the handlers |
| GTP-U header and parser | none | `new_gpdu`, `parse`, the XDP programs' own header handling | forwarder, XDP, both simulations |
| Key derivation, Milenage, TUAK, their FFI | none | pure functions | called by HSS, MME, AMF, UEs |

What is hard here:

* **Recycling.** Entity ids and TEIDs are reused last-in first-out, a slot is
  not reset when it is handed out, and messages name entities by id, so a late
  or repeated message can meet another subscriber.
* **Permissive handlers.** `SecurityModeComplete`, `IdentityResponse` and
  `UeContextReleaseComplete` are accepted in any state and any number of times.
* **Three tables for one fact.** A bearer is in the control plane's tunnel, in
  the session manager and in two BPF maps; they change in several steps while
  forwarder tasks and XDP programs read them.
* **Order.** A TEID may be announced only after it is routed.
* **Tasks and loss.** UE tasks, dispatcher, AMF loop and forwarder interleave;
  GTP-U datagrams are lost and delayed; a retry races the bearer update.
* **A link made of timers.** `send` waits for a driver task that selects over
  three sources and may exit while a command is in its channel; one event may
  stand for several messages; either end may leave or the association may fail
  between any two steps.
* **Eight bits of COUNT.** Only the low octet travels, the receiver guesses the
  rest, and the guess decides whether a repeated or reordered message is taken.

What makes each component correct: `World` and `TeidAllocator` never hand out
what is in use and lose nothing they were given back; the registry never names a
dead or foreign entity; key material stays with its subscriber and a vector
keys one NAS context, once; the routing table never shows one direction without
the other; the fast path never contradicts the slow one; the AMF and the UPF
agree on what is in use; an announced TEID works; a run ends; a finished detach
leaves nothing behind while the link holds; the link is a reliable ordered channel that answers every
`connect` and `send`; no NAS message is accepted twice and no
receiver is driven past its sender; a message decodes to what
was encoded, and a cut-off one to nothing that was not there. `PROJECT.json`
lists the hazards one by one, each at its line, with the properties aimed at it.

## Modules

| Module | Models |
|---|---|
| `World`, `ImsiRegistry`, `TeidAllocator`, `Hss` | the four stores, one operator per method |
| `ControlPlane` | state of `Mme`/`Amf` and the handlers both spell out alike |
| `Mme` | `process_s1ap`: `start_attach` and dispatch |
| `Amf` | `process_ngap`: `start_registration`, `handle_identity_response` and dispatch |
| `Upf` | `SessionManager`, `RoutingTable`, BPF maps, forwarding decisions |
| `Bearers` | abstract: a TEID belongs to one context at a time |
| `CoreLoop` | a control plane and `Upf` joined as `run_amf` and `run_mme` join them |
| `N3` | `Amf` in `CoreLoop`, with an open RAN side |
| `RoundTrip` | `user_plane_round_trip`, the forwarder tasks, the echo task and a lossy GTP-U network, around `CoreLoop` |
| `Sim5g` | `midn-sim`: `N3` in `RoundTrip` with UE tasks and the gNB dispatcher |
| `SimLte` | `mme-sim`: `Mme` in `RoundTrip` with `run_ue`, over a link that may fail |
| `SctpLink` | two applications, two `drive` loops, two associations and a network that loses, reorders and duplicates |
| `Channel` | abstract: a reliable, ordered channel each way |
| `NasSecurity` | the two ends of one NAS security context: COUNTs, `reconstruct_count`, MAC |
| `Per`, `Layouts`, `PduCodec` | ALIGNED PER reader and writer; what the S1AP and NGAP codecs put into each message; container and PDU |
| `NasIe`, `NasCodec` | the NAS information elements; the messages and protected envelopes of EPS and 5GS |
| `GtpCodec` | GTP-U header, `GtpuParser`, and how the uplink XDP program finds the inner packet |
| `Codecs` | one message of any of these encoded and decoded |
| `MCMme`, `MCAmf`, `MCUpf`, `MCN3`, `MCSim5g`, `MCSimLte`, `MCSctpLink`, `MCNasSecurity`, `MCCodec` | views, symmetries and inputs for TLC |
| `UpfProofs`, `CoreLoopProofs`, `MmeProofs`, `AmfProofs`, `Sim5gProofs`, `SimLteProofs`, `SctpLinkProofs`, `NasSecurityProofs` | proofs |

**Steps.** `process_s1ap` and `process_ngap` take `&mut self` and await nothing
in between, so one call is one step. The RAN side of `Mme` and `Amf` is open: any
message for any entity id at any time. `responses` and `events` hold what the
last call returned.

`SessionManager` calls are split where another thread can look: at the end of a
critical section of the routing mutex and after each BPF map operation. `call`
is the call in progress. The forwarder and the XDP programs only read, so what
they would do with a packet is an operator over the tables and an invariant
over it speaks of every packet at every moment. A BPF operation may fail, which
the code only logs; `map_error` records that one did.

In `CoreLoop` the loop of `run_amf` and `run_mme` is explicit: receive one message
when nothing is left of the last (`Drained`), apply each event, then send each
response. `Sim5g` and `SimLte` add the actors around it; messages are queues,
datagrams are sets from which any element may be taken or lost. In `SimLte` the
association may fail at any moment, with any part of what was in flight delivered;
a side may learn of it from `recv` or from a `send`, or never. In `Sim5g` it holds
until `run_gnb` has joined its tasks and drops it; from then on nothing is
retransmitted, the AMF gets a prefix of what was under way (`UnderWayLost`), and
`run_both` stops it some time later, wherever it is.

In `SctpLink` one iteration of the `drive` loop is one step, because nothing the
driver shares changes inside it, with one exception: a `send` is answered before
the pump that transmits it, and the application may run, and drop the link, in
between. `rtc_sctp` is a library and modelled from what the driver asks of it: a
handshake with a bounded number of retransmissions, numbered data, cumulative
acknowledgements, one `Readable` event per arrival that makes data readable. Only
the handshake gives up; data is retransmitted for as long as the peer is there.
The simulations take the link for a queue; `ImplementsChannel` is why they may.

**Data.** An AKA vector is named by IMSI and SQN; a key is named by the vector it
descends from; a wiped field is `None`, and so is a key derived from wiped fields
and a response of zeroes, which matches a wiped challenge. A protected PDU carries its key and its
COUNT and is accepted with "same key and not behind"; `NasSecurity` shows by
`Window` that this is what `reconstruct_count` and the MAC come to for the next 256
messages of a direction, and the models stay below that. A route
is a UE address and an endpoint. Downlink TEID 0 marks the placeholder, as in
the code. Message layout, ciphers, logging and byte counters are left out.

In `NasSecurity` the width of the octet and of COUNT are constants, a message is
its direction and COUNT, and the channel keeps everything ever sent: loss, delay,
repetition, reordering and reflection are all "any envelope may arrive anywhere".
The MAC is ideal: it verifies for its own COUNT and direction only. Ciphering
decides neither acceptance nor COUNT and is left out. With the null algorithm
anything is accepted, as in the code, and the properties about acceptance say so.

The codecs are the exception to abstract data: there bits are the subject. In
`PduCodec` a number is the set of its one bits, which keeps the 24, 32, 34 and 42
bit ranges at their width. A message is laid out by a table, one entry per encode
and decode function, and the `align()` calls of the encoders are part of it,
because `write_octets` does not align and `read_octets` does. In `NasCodec` and
`GtpCodec` a message is a sequence of octets, and the decoders' leniency (elements
skipped, defaulted or read again) is part of the tables.

**Mutants.** Operators named as mutants in a comment are plausible bugs of the
definition that follows. They take no part in any specification; they serve to
show that each property can fail.

## Runs

| Run | Checks | States |
|---|---|---|
| `mme` | stores (`EntityPool`, `DeadSlotsEmpty`, `TeidPool`, `RegistryPointsHome`) and keys (`KeysUnshared`, `KeysStayHome`, `VectorsSpentOnce`) of the MME with a UPF | 64 113 |
| `amf` | `KeysUnshared`, `VectorsSpentOnce` of the AMF without a UPF | 18 359 |
| `upf` | `RoutesPair`, `SessionsRouted` while map operations fail; `FastPathAgrees` until one does; `UpfTypeOK`, `FreshTeid`: the internal allocator across its wrap | 624 325 |
| `n3_ledgers` | `LedgersAgree`, `SessionBeforeAccept`, `ImplementsBearers` of the AMF with the UPF | 394 863 |
| `sim` | `OnlineIsRouted`, `NoProtocolError`, `RegistryPointsHome`, and that it comes to an end: `RunEnds`, `OfflineIsReleased` | 239 720 |
| `lte` | `LedgersAgree`, `UeReturnsUnlessCut`, `DetachLeavesNothing` over an association that may fail | 110 159 |
| `link` | `ImplementsChannel`; `ReadyOnceConnected`, `LostBeforeNone`, `NothingUnsent`; `ConnectAnswered`, `SendAnswered`, `Delivered` | 44 984 |
| `nas_security` | `NoReplay`, `InTouch`, `Window`, `CountsForward` over two turns of the sequence octet | 80 095 |
| `codec` | `RoundTrip` of every S1AP, NGAP, NAS and GTP-U message; `NoPartialDecode` of S1AP and NGAP; `NothingForged` of a cut-off NAS message; `FastPathStrips` of what the XDP program takes for the inner packet | 33 429 |

All of these hold. The other three show where the code and what is written about
it part:

| Run | What it shows |
|---|---|
| `mme_teids_return` | a repeated `SecurityModeComplete` leaks a TEID for good |
| `upf_placeholder` | uplink XDP transmits for a placeholder it is said to pass |
| `sim_sends_completed` | `run_gnb` returns Ok with a message still unsent |

Smaller divergences and limits met while modelling, without a run of their own:

* `mme/mod.rs` says "lookup/create ECS entity for IMSI", but a second
  `AttachRequest` always makes a second entity; at the AMF a repeated
  `SecurityModeComplete` leaves two sessions with one UE address.
* `session_manager.rs` denies a moment at which the two BPF maps differ, but
  `update_bearer_info` writes them one after the other; `midn-sim` says an early
  uplink packet is dropped, but its route exists from `CreateSession` on and it is
  the echo that goes to the placeholder.
* `reconstruct_count` promises a result not behind `last_count`, but in the last
  block of COUNT its `wrapping_add` moves back; after 256 losses in a row the two
  ends disagree for good. Hence `MaxSent + SeqSpace <= CountSpace`.
* Link: dropping it sends nothing, so a peer without outstanding data waits for
  ever, as `run_ue` would in `recv` (`UeReturnsUnlessCut`); `open_stream` would fail if data of the peer had made the stream first,
  which `ReadyOnceConnected` shows not to happen.
* The uplink XDP program does not skip GTP-U extension headers, the parser does
  (`FastPathStrips` is stated without them). The parser ignores the length field,
  version and PT, and skips extensions without looking at E; `build_echo_response`
  sends PT = 0 where its comment says 1.
* `write_lv` wraps at 256 octets (a PEI of 255, 51 TAIs). `decode_attach_accept`
  calls the TAI list mandatory and goes on without it when it is cut off: its octets
  are read as options, which from seven areas on can yield an APN, and with eight,
  whose length octet is `IEI_PDN_ADDR`, an address. `NothingForged` has this as its
  exception (`MissesList`), and TLC refutes it with the exception moved to eight or
  nine areas. The core sends an empty list. A GUTI in an `IdentityResponse` comes
  back only if its first octet has type 2.
* `midn-ecs/src/components.rs` says of a NAS security context "created once,
  post-SecurityModeComplete, lives for the rest of the session", but every
  `SecurityModeComplete` makes a new one (the cause of `mme_teids_return`, too). The
  first one after a challenge derives from its vector and wipes CK, IK and AK; each
  one after that, and at the AMF each one before the first `IdentityResponse`,
  derives from zeroes and kept fields. Two of those in a row give the same key, and
  both COUNTs start over under it. `VectorsSpentOnce` is about the first kind.
* A response of zeroes matches the challenge after it was wiped (`VerifyRes`): the
  entity is authenticated again and a second `SecurityModeCommand` goes out. No
  property forbids it, and none that is claimed is hurt by it.
* The header of `s1ap/codec.rs` lists `UeContextRelease*` as not implemented, but
  it is.

`RegistryPointsHome` and `KeysStayHome` are not claimed of `Amf` with its open
environment: a second `IdentityResponse` binds an entity to another IMSI and
leaves the first IMSI's entry behind. `sim` checks the first for the
order of messages the simulation produces, and `SimRegistryPointsHome` proves it.

**Bounds.** Two IMSIs, two entity ids and two TEIDs let one subscriber re-attach,
two be attached at once, and an id or a TEID be recycled to the other one while
messages for the first are still coming; three of anything adds no new relation
between a message and its target. `MaxSqn` allows two vectors per subscriber in
the MME runs (a re-attach) and one in the others. `MaxCount = 2` gives each COUNT
room to be used, advanced and repeated. `TeidSpace` is small so that the session
manager's counter wraps. `n3_ledgers` uses one IMSI, two ids and three TEIDs,
enough for a leaked TEID next to a recycled one. `sim` runs two UEs, one with two
G-PDU attempts and one with one (five in the code): a late echo of one UE meets the
other in every state. `lte` has the code's one UE and all five attempts. IMSIs, UE
addresses and owners are symmetric. `link` has two messages one way, so that they
can overtake each other, and an answer, and one retransmission of the handshake.
`nas_security` has octets of four values and nine messages per direction, so that
the octet turns twice and an envelope can be two turns late.
`codec` sets one bit per PER field, the first or the last, so that a value read one
bit off differs; it has NAS PDUs of 0, 1, 127 and 128 octets, NAS values of 0, 2 and
255 octets, lists of up to two items, which covers an item that starts unaligned,
lists of up to eight tracking areas, and every combination of the GTP-U flags with up to two extension headers.
Views leave out what no step reads: the last call's results, and the session
manager's free list where the control plane chooses the TEIDs.

**Fairness.** `Sim5g` assumes weak fairness of each UE task, of the dispatcher, of
joining the tasks and of the AMF loop: tokio runs a task that is ready. The
timeout in `user_plane_round_trip` makes an awaiting UE ready even when nothing
arrives. Nothing is assumed of the user plane's network. The association delivers
while `run_gnb` holds it, which is what `Delivered` shows of `SctpLink`; once it is
dropped the AMF loop is fair only until something is lost or the AMF is aborted
(`gnb = "gone"`), as the comment on the drain delay in `run_both` says.
`OfflineIsReleased` therefore excepts that case, and it starts where the release
message has reached the link, since `sim_sends_completed` shows that it need not.
`SimLte` assumes fairness of what `run_ue` and the MME loop can do themselves
(`UeRuns`, `MmeRuns`), not that the association holds and not that a side is told
when it has failed: `link.rs` sends nothing when a link is dropped and `recv` has no
timeout. `UeReturnsUnlessCut` is what is left then: `run_ue` returns, or it waits in
`recv` behind a failed association and nowhere else. `SctpLink` assumes weak fairness of the
application, of the driver's pump and handling of sends, and of the timer;
`tokio::select!` chooses at random among what is ready, so no branch is passed over
for ever. Of the network it assumes, by strong fairness of `NextData`, that data
retransmitted again and again arrives in the end, which `Delivered` needs. The
other modules state no fairness and only safety is checked of them.

## Proofs

Every theorem holds for every value of the constants, any number of steps and any
order, loss or repetition of messages.

| Module | Theorems |
|---|---|
| `MmeProofs` | `MmeTypeCorrect`, `MmeEntityPool`, `MmeDeadSlotsEmpty`, `MmeCountMatches`, `MmeTeidPool`, `MmeRegistryPointsHome`, `MmeKeysUnshared`, `MmeKeysStayHome`, `MmeVectorsSpentOnce` |
| `AmfProofs` | `AmfTypeCorrect`, `AmfEntityPool`, `AmfTeidPool`, `AmfKeysUnshared`, `AmfVectorsSpentOnce`; with the UPF `N3LedgersAgree`, `N3SessionBeforeAccept`, `N3ImplementsBearers` |
| `UpfProofs` | `UpfTypeCorrect`, `UpfRoutesPair`, `UpfSessionsRouted`, `UpfFastPathAgrees`, `UpfFreshTeid` |
| `Sim5gProofs` | `SimNoProtocolError`, `SimOnlineIsRouted`, `SimRegistryPointsHome`, `SimImplementsN3`, `SimLedgersAgree`, `SimSessionBeforeAccept` |
| `SimLteProofs` | `LteLedgersAgree` |
| `SctpLinkProofs` | `LinkReadyOnceConnected`, `LinkLostBeforeNone`, `LinkNothingUnsent`, `LinkImplementsChannel` |
| `NasSecurityProofs` | `NasTypeCorrect`, `NasNoReplay`, `NasInTouch`, `NasWindow`, `NasCountsForward` |

**Assumptions.** The named assumptions of the modules, which TLC evaluates in every
run: bounds are natural numbers, `None` and `NoEntry` are none of the values they
stand beside, `NoImsi` is not an IMSI, downlink TEIDs are not 0, the allocators'
bases are positive; of `NasSecurity`, that the octet's size divides COUNT's and that
COUNT stays below its last block; of `CoreLoop`, that the UPF takes every TEID,
entity and bearer the control plane may name, and of `N3` and `SimLte` every UE
address (both sides use the same u32 and IPv4 types); of `Sim5g` and `SimLte`, that
the subscribers are the UEs, `1 .. NUes` with any `NUes` or the one test UE. Four
theorems have the hypothesis `NoSqnWrap` on top: `MmeKeysUnshared`,
`AmfKeysUnshared`, `MmeVectorsSpentOnce` and `AmfVectorsSpentOnce` are about vectors
being new, and a vector is named by its SQN, so they hold until a subscriber has
used 2^48 of them and fail after.

**The stores of the cores.** No property is inductive alone. `spawn` is safe only
because the free stack holds exactly the ids that are not live, and it hands over a
clean slot only because dead slots are empty; `release` keeps the free list free of
duplicates only because a live tunnel's TEID is allocated and nobody else's; and
that survives `spawn` only because a fresh slot has no tunnel. `CpInv` joins
these: types, `EntityPool`, `DeadSlotsEmpty`, `CountMatches`, `TeidPool`. The MME
adds `RegistryPointsHome`, which `deregister` by IMSI needs in order to remove
the right entry. `CoreLoopProofs` first says what push and pop do to a list without
duplicates, then has one lemma per store operation and one per shared handler; `SlotView` says what a handler may assume of the slot it was
given after a protected PDU was opened.

**The keys of the cores.** Every handler but the one that starts authentication
makes no key material: the slot it writes `Inherits` from the slot it read, which
is one lemma per handler. The other one hands a vector with the next SQN to one
entity (`Vended`). `KeysUnshared` is then preserved because every vector in use was
issued before (`KeysIssued`) and the next one was not. `VectorsSpentOnce` says that a
vector is spent by the one `SecurityModeComplete` that derives from it and never
comes back: each handler either keeps a context going or spends the vector it had in
CK (`Spends`), and a spent vector is in no CK because CK is wiped with the
derivation, no two entities held it (`KeysUnshared`), and the HSS does not issue it
again. It is about vectors only. A context made from wiped fields has the key `None`
here, and such keys do repeat, with the COUNTs back at 0, since `SecurityModeComplete`
is taken in any state (see the divergences above). `KeysUnshared` and
`KeysStayHome` do not speak of these keys either.

**The UPF.** `UpfCore` says how the tables and the call in progress fit: a routed
TEID has its record, with the same address and endpoint; what a call read in an
earlier critical section is still so; only a removal leaves a record without a
route. It needs nothing of the caller. `UpfInv` adds what rests on the environment
(distinct addresses, TEIDs not named twice): `RoutesPair`, that a BPF entry is
backed by a route up to the call in progress (`Backed`), that nothing was mirrored
without a handle (`Unmirrored`), and for the internal allocator that free and used
TEIDs are apart and together are all TEIDs below the counter or, once it has
wrapped, all of them (`UlPool`): without the second half a wrapped counter could
hand out a TEID in use.

**Core and UPF together.** `LoopInv` joins `CpInv` and `UpfCore`. While nothing is under
way allocated TEIDs and sessions are the same; a queued `CreateSession` is a TEID
allocated and not yet a session, a removal queued or in progress is one that is no
longer allocated and still a session (`TeidsMatch`). A tunnel's downlink TEID is in
the queued update, in the call in progress or in the record (`TunnelsServed`), and
an announced TEID is routed unless its creation is still queued (`Answers`). The core
enters this argument only through what a call of `process_ngap` or `process_s1ap`
can do to TEIDs and tunnels, which is one of four things (`Quiet`, `Opens`, `Redirects`, `Closes`); each is
shown to keep `LoopInv` (`KindKeeps`), then each step of the UPF. The refinement of `Bearers` maps
a TEID to the entity in its record: only `CreateSession` sets it, on a TEID
that has none because it was not allocated, and only the end of `remove_session`
clears it.

**The 5G simulation.** `SimInv` holds for any number of UEs. Neither
`NoProtocolError` nor `OnlineIsRouted` says enough to be kept by a step: whether a
UE can decrypt its Accept was decided when the AMF derived the keys, and whether it
may send was decided when the TEID was queued for the UPF. So the invariant follows each UE
through its procedure. There is an assignment of entities to UEs in which no entity
serves two, and each UE with its entity is at one of 14 stages (`Stage`, from
`Starting` to `Offline`). A stage fixes three things together: what the core holds
(IMSI, index entry, challenge, keys, tunnel), where the task is and what it knows
(id, key, TEID), and the one message under way between them, up or down. A request
and its answer are never both under way; besides, only messages the AMF
does not answer may be queued (`Harmless`: the InitialContextSetupResponse and
RegistrationComplete sent together), and the two messages of a deregistration.
`pipe` reads the dispatcher's queue and the link as one queue, so that `Dispatch`
changes nothing. The assignment is quantified in the invariant because the model has
no variable for it; a step picks one, moves its own UE on and leaves the stage of
every other UE alone (`OneMoves`). That last part is where the interleavings are:
it needs that a spawned id is nobody's, that an allocated TEID is in no other
tunnel, and that a response for one UE is not one for another. A vector is the one
the UE expects because its subscriber's SQN is still 0 until the one challenge is
made. The link is dropped only when every task has ended (`Joined`), so what is lost
with it is a last message, and the UE stays at the stage it had. `SimImplementsN3` shows that every AMF step of the simulation is a step `N3`
allows, so the theorems of `N3` carry over.

**The LTE simulation.** `LteInv` is `LoopInv`, the MME's `RegistryPointsHome` and the
types of what is on the link: each message names an id of the entity table, and
`run_ue` enters the user plane only once it knows one, so that the DetachRequest it sends after the echo
has one. A failing link cuts a suffix off each direction, which keeps
this, and none of `LoopInv` rests on a message arriving.

**The link.** Its proofs use no assumption on the constants. `LinkInv` accounts for
every message of a direction. Of one side (`SideOK`): the queue to the application is
one `Connected` at most, then the messages that continue what the application has, then `Lost`s
(`Split`); together with what the application has they are all that was read off
the stream until the link ends, and from then on a `Lost` is queued (`Placed`).
`stream_ready` is the same as being established, and before that nothing was written,
received or asked for (`HandshakeOK`); only a driver about to pump holds packets back
(`DriverOK`). Of both (`NothingInvented`): what is received, buffered or in flight the
peer has written. `ReadyOnceConnected` needs the two sides together: `open_stream`
would fail if data had come first, and none can, since the server writes only after it
has read from a client that is established (`NoEarlyData`). Each datagram and timeout is shown to
leave an association with at most one event (`Stimulated`), and one lemma per event
says what `pump` makes of it. Every step then is silent, sends one message or
delivers the next one (`LinkStep`), which is the refinement of `Channel`: the n-th
message written is number n, and number n + 1 is delivered only to who has n.

**NAS.** `NoReplay` and `Window` need to know how the receiver's COUNT relates to what
it has accepted: under integrity protection it is just past the last accepted
message and not ahead of what the sender has used (`InStep`). From that, `RebuiltInWindow`
shows by division with remainder that the rebuilt COUNT equals the envelope's own
exactly if the envelope is among the next `SeqSpace` from there, which is `Window`;
the MAC then refuses all others, so the last accepted number only grows. `InTouch`
follows from the second half: the sender's next message is in the window.

The strengthened invariants (`CpInv`, `UpfInv`, `LoopInv`, `LinkInv`, `SimInv`, `LteInv`) were checked with TLC on the
instances of the runs before they were proved.

Only model-checked, because it is out of the prover's reach: liveness under
fairness (`RunEnds`, `OfflineIsReleased`, `UeReturnsUnlessCut`, `DetachLeavesNothing`,
`ConnectAnswered`, `SendAnswered`, `Delivered`), and the codecs (`RoundTrip`,
`NoPartialDecode`, `NothingForged`, `FastPathStrips`), which are recursions over data. Every
other property of a passing run is proved.

## Not modelled

Key derivation, Milenage, TUAK and the ciphers are byte-level functions without
state; keys are names here. `TunnelManager` is constructed by no program, and
`deprovision` and `update_sqn` of the HSS have no caller. The inside of `rtc_sctp`
(congestion and send window, so a `send` the association refuses for lack of room)
is a library's. Command lines, the sleeps and the abort of `run_both`, BPF loading and
attaching are I/O; that `run_both` may abort a core at any time is in `Sim5g` only. `Sim5g`
has no loss of the association before `run_gnb` drops it; `SimLte` does. Lists of more than eight
tracking areas, whose count no longer fits its bits, are outside `NasCodec`. The u32 wrap
of entity ids and of the control plane's TEIDs lies beyond the bounds.

## Plan

Done: the stores, `Mme`, `Amf`, `Upf`, `CoreLoop` and `N3`, `RoundTrip`, `Sim5g`,
`SimLte`, `SctpLink` and `Channel`, `NasSecurity`, all codecs; proofs of every safety property
the runs check, except those of the codecs, and of the refinements.

1. `OnlineIsRouted` and `NoProtocolError` of `SimLte`.
2. Loss of the association in `Sim5g`, as in `SimLte`.
3. `CoreLoop` with two LTE subscribers, for the UE address they share.
4. The HSS with `deprovision` and `update_sqn` in service.
