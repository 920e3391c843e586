--------------------------- MODULE MCLimitedBody ---------------------------
(***************************************************************************)
(* LimitedBody for TLC: bodies below, at and above every limit.            *)
(***************************************************************************)
EXTENDS LimitedBody
=============================================================================
