----------------------------- MODULE MCIncident -----------------------------
EXTENDS Incident, TLC
CONSTANTS v1, v2, db, w1

\* Revisions are only compared for equality.
Symmetry == Permutations({v1, v2})
=============================================================================
