--------------------------- MODULE MCReviewClaims ---------------------------
(***************************************************************************)
(* A small instance of ReviewClaims: runs do not share anything, so one is *)
(* enough; two reviewers, and two requests so that one may overtake the    *)
(* other.                                                                  *)
(***************************************************************************)
EXTENDS ReviewClaims, TLC

Symmetry == Permutations(Reviewers) \cup Permutations(Requests)
=============================================================================
