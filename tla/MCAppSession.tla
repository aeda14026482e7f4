---------------------------- MODULE MCAppSession ----------------------------
(***************************************************************************)
(* Model values for AppSession.                                            *)
(***************************************************************************)
EXTENDS AppSession, TLC

CONSTANTS g1, p1, p2, a1

\* Both phones are seeded: one is as good as the other.
Phones == Permutations({p1, p2})
=============================================================================
