------------------------ MODULE MCSemanticFrontiers ------------------------
(***************************************************************************)
(* Instances of SemanticFrontiers for TLC.                                 *)
(***************************************************************************)
EXTENDS SemanticFrontiers

AllFaults == {"refused", "lost"}
NoFaults == {}
OneScope == {1}
TwoFrontiers == {1, 2}
ThreeFrontiers == {1, 2, 3}

=============================================================================
