------------------------- MODULE MCCandidateReview -------------------------
(* Candidates of one Work for TLC, numbered in the order of their IDs, and  *)
(* how many revisions each may have.                                        *)
EXTENDS CandidateReview, TLC

MCOne == {1}
MCTwo == {1, 2}

MCThreeRevisions == 1 :> 3
MCFourAndOne     == 1 :> 4 @@ 2 :> 1

=============================================================================
