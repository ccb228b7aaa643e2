------------------------- MODULE MCConnectionSource -------------------------
(* Instance of ConnectionSource for TLC. *)
EXTENDS ConnectionSource

(* A good frame, an abort, and a frame longer than MaxMessage. *)
MCPeerFrames == {<<"Service", 2>>, <<"Abort", 1>>, <<"Control", 3>>}
=============================================================================
