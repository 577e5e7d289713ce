-------------------------- MODULE MCModelInstaller --------------------------
(* Instances of ModelInstaller for the model checker. *)
EXTENDS ModelInstaller, TLC

CONSTANTS q8, f16, other, weights8, weights16, sidecar, weights

\* Two families, each with a target of its own.
OwnNeeds == (q8 :> {weights8, sidecar}) @@ (other :> {weights})
OwnTarget == (q8 :> "family") @@ (other :> "others")

\* Two precisions of one family, in one target.
SharedNeeds == (q8 :> {weights8, sidecar}) @@ (f16 :> {weights16, sidecar})
SharedTarget == (q8 :> "family") @@ (f16 :> "family")
=============================================================================
