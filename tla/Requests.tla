------------------------------ MODULE Requests ------------------------------
(***************************************************************************)
(* What a looper promises whoever sends a request: each request token is   *)
(* issued once, what becomes of it never changes, and a request that the   *)
(* write channel took is not taken back: its end is a reply, a failure, or *)
(* its closures dropped with the looper.  A request the channel did not    *)
(* take ends when it is issued, refused or forgotten.                      *)
(***************************************************************************)
CONSTANT Tokens
VARIABLE outcome

Ended == {"replied", "failed", "dropped"}
Unsent == {"refused", "forgotten"}

Init == outcome = [t \in Tokens |-> "none"]

(* One step of the looper may issue some requests and end others. *)
Advance(old, new) ==
    \/ new = old
    \/ old = "none" /\ new \in {"pending"} \cup Ended \cup Unsent
    \/ old = "pending" /\ new \in Ended

Next ==
    /\ outcome' \in [Tokens -> {"none", "pending"} \cup Ended \cup Unsent]
    /\ \A t \in Tokens : Advance(outcome[t], outcome'[t])

Spec == Init /\ [][Next]_outcome
=============================================================================
