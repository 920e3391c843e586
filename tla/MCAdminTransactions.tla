------------------------ MODULE MCAdminTransactions ------------------------
(***************************************************************************)
(* A small instance of AdminTransactions for TLC: two requests at a time,  *)
(* two listeners that can use the one port in turn.                        *)
(***************************************************************************)
EXTENDS AdminTransactions

CONSTANTS s1, v1

MCServiceOf == [v \in {v1} |-> s1]
MCVersionOf == [u \in {} |-> v1]
=============================================================================
