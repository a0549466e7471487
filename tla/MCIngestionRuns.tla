--------------------------- MODULE MCIngestionRuns ---------------------------
(* The worker and the request threads of the API over one path.            *)
EXTENDS IngestionRuns, TLC

CONSTANTS f1, w, c1, c2

Symmetry == Permutations(Clients)
=============================================================================
