---------------------------- MODULE MCLegacyHollow --------------------------
(* Small instances of LegacyHollow.                                        *)
EXTENDS LegacyHollow, TLC

CONSTANTS k1, k2, a, b, r1, r2

(* Going from one to the other changes a key, and adds or removes one.     *)
TwoContents == {k1 :> a, (k1 :> b) @@ (k2 :> a)}

OneCaller == {r1}
TwoCallers == {r1, r2}
=============================================================================
