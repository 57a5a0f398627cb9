-------------------------------- MODULE MCN3 --------------------------------
(* Model-checking instances of N3. *)
EXTENDS N3

\* The internal free list of the UPF is never read (see MCUpf); responses are
\* only counted and inspected until they are sent.
N3View == <<coreVars, responses, events, ul_map, dl_map, sessions, bpf, map_error,
            teid_to_route, ue_ip_to_route, call>>
=============================================================================
