------------------------- MODULE MCProcessLifecycle -------------------------
(***************************************************************************)
(* Small instances of ProcessLifecycle for TLC: two admin processes of     *)
(* successive releases, and the later one with a gateway.                  *)
(***************************************************************************)
EXTENDS ProcessLifecycle, TLC

CONSTANTS a1, a2, g1

MCFiles == (a1 :> 1) @@ (a2 :> 2)
MCFleets == {{a1, a2}, {a2, g1}}
=============================================================================
