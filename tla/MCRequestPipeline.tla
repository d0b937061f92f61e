-------------------------- MODULE MCRequestPipeline --------------------------
(* Instances of RequestPipeline for TLC. *)
EXTENDS RequestPipeline, TLC

Process == [name \in ResourceNames |-> name]

\* Requests, inbound ids and callers are interchangeable.
Symmetry == UNION {Permutations(Requests), Permutations(Inbound), Permutations(Callers)}
=============================================================================
