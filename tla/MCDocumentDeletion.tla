------------------------- MODULE MCDocumentDeletion -------------------------
(* Small instances of the document queue.                                  *)
EXTENDS DocumentDeletion, TLC

CONSTANTS d1, d2, t1, t2

TwoDocuments == {d1, d2}
TwoRuns == {t1, t2}
Interchangeable == Permutations(TwoDocuments) \cup Permutations(TwoRuns)
=============================================================================
