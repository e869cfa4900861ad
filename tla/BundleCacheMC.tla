---------------------------- MODULE BundleCacheMC ----------------------------
(* Instances of BundleCache for TLC. *)
EXTENDS BundleCache, TLC

CONSTANTS s1, f1, f2, f3, f4

\* An upgrade that adds a rule file, and one that drops another.
ThreeBundles == 1 :> {f1, f2, f3} @@ 2 :> {f1, f2, f3, f4} @@ 3 :> {f1, f3, f4}
=============================================================================
