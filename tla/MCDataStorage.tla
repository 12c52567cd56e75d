---------------------------- MODULE MCDataStorage ----------------------------
(* DataStorage for TLC: the io threads are interchangeable.                  *)
EXTENDS DataStorage

WorkerSymmetry == Permutations(Workers)
=============================================================================
