--------------------------- MODULE MCGhostRouter ---------------------------
(***************************************************************************)
(* One tick is ten seconds, and 6, 6, 3 and 1 are the timeouts of the      *)
(* code, or fifteen seconds, with 4, 4, 2 and the grace period of ten      *)
(* seconds rounded up to 1.  Requests share only the proxy, the clock and  *)
(* the shutdown.  A significand tells four numbers apart, so that 5 lies   *)
(* between the floating-point numbers 4 and 6.                             *)
(***************************************************************************)
EXTENDS GhostRouter, TLC

CONSTANTS r1, r2

MCIds == {r1 :> 0 @@ r2 :> 5, r1 :> 4 @@ r2 :> None}
MCOneId == {r1 :> 5}
=============================================================================
