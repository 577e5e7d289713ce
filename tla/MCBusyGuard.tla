---------------------------- MODULE MCBusyGuard ----------------------------
(* Instances of BusyGuard for the model checker: two callers with every mix of  *)
(* policy and request bound.                                                    *)
EXTENDS BusyGuard
=============================================================================
