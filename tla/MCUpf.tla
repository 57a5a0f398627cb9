------------------------------- MODULE MCUpf -------------------------------
(* Model-checking instances of Upf. *)
EXTENDS Upf

\* Addresses are interchangeable.
UpfSymmetry == Permutations(UeIp)

\* Every removal pushes on the internal free list, which nothing pops when a
\* control plane allocates the TEIDs: the list is then never read, and states
\* that differ only in it are explored once.
UpfView ==
    <<IF allocator = "internal" THEN <<next_ul_teid, free_ul_teids>> ELSE <<>>,
      allocator, ul_map, dl_map, sessions, bpf, map_error, teid_to_route,
      ue_ip_to_route, call>>
=============================================================================
