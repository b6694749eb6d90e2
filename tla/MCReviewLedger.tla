---------------------------- MODULE MCReviewLedger ----------------------------
EXTENDS ReviewLedger, TLC

\* Neither the documents nor the reviewers are told apart.
Perms == Permutations(DocIds) \cup Permutations(Signers)

\* A record is read and signed whatever it says, so the runs that sign stop
\* after few changes of documents.  A scan changes no document, and what follows
\* it does not depend on it: one is enough before the next step.
Bounded ==
  /\ signed > 0 => now <= 1
  /\ Cardinality({r \in DOMAIN reviews : reviews[r].route # "wal"}) <= 1
=============================================================================
