-------------------------- MODULE MCBoundedDecode --------------------------
(* An instance of BoundedDecode for the model checker: windows that are and are *)
(* not powers of two, streams below, at and above the least cache of an offline *)
(* run, and prompts up to one more than the largest window.                     *)
EXTENDS BoundedDecode
=============================================================================
