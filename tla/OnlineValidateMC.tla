-------------------------- MODULE OnlineValidateMC ---------------------------
(* Instances of OnlineValidate for TLC. *)
EXTENDS OnlineValidate, TLC

CONSTANTS apply, delete, noKind, v1, v2

\* The second version denies what the first allows.
TwoPolicies == v1 :> {apply, delete} @@ v2 :> {apply}

\* Up to three actions, so that the policy may change and change back.
ThreeActions ==
    {<<apply, delete>>, <<delete, apply, apply>>, <<apply, noKind>>, <<noKind>>}

TwoActions == {<<apply>>, <<delete, apply>>}
=============================================================================
