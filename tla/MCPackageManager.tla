-------------------------- MODULE MCPackageManager --------------------------
(* Instances of PackageManager for the model checker. *)
EXTENDS PackageManager, TLC

CONSTANTS q8, f16, other, weights8, weights16, sidecar, weights

\* Two precisions of one family share a sidecar; another family has its own target.
MCNeeds == (q8 :> {weights8, sidecar}) @@ (f16 :> {weights16, sidecar}) @@ (other :> {weights})
MCTarget == (q8 :> "family") @@ (f16 :> "family") @@ (other :> "others")

\* The two precisions only.
SharedNeeds == (q8 :> {weights8, sidecar}) @@ (f16 :> {weights16, sidecar})
SharedTarget == (q8 :> "family") @@ (f16 :> "family")
=============================================================================
