--------------------------- MODULE MC_LaunchForm ----------------------------
(* LaunchForm on a small instance: e has a default preset that binds one of    *)
(* its slots and, as an endpoint of the experiment only, one that is not       *)
(* confirmed; f knows settings that e does not, and has one too; g has none.   *)
EXTENDS LaunchForm, TLC
CONSTANTS e, f, g, a, b, x
MCKnows == (e :> {a, x}) @@ (f :> {b, x}) @@ (g :> {a})
MCConfirms == (e :> {a}) @@ (f :> {b}) @@ (g :> {})
MCBinds == (e :> {x}) @@ (f :> {b}) @@ (g :> {})
MCSets == (e :> {a}) @@ (f :> {x}) @@ (g :> {})
=============================================================================
