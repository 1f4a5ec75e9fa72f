----------------------------- MODULE MCFileStore ----------------------------
(***************************************************************************)
(* Small instances of FileStore: threads and contents are interchangeable. *)
(***************************************************************************)
EXTENDS FileStore, TLC

Symmetry == Permutations(Threads) \cup Permutations(Data)
=============================================================================
