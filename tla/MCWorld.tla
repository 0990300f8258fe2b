------------------------------- MODULE MCWorld --------------------------------
(* Instances of World for TLC. *)
EXTENDS World, TLC

CONSTANTS c1, c2, alice

\* Two connections of one account: a client that logs in again.
Reconnect == c1 :> alice @@ c2 :> alice

===============================================================================
