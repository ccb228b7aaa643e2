-------------------------- MODULE MCProtocolServer --------------------------
(***************************************************************************)
(* Instances of ProtocolServer for TLC.                                    *)
(***************************************************************************)
EXTENDS ProtocolServer, TLC

(* Connections and services are interchangeable in the safety runs. *)
Symmetry == Permutations(Conns) \cup Permutations(Services)
=============================================================================
