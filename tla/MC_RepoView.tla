---------------------------- MODULE MC_RepoView ----------------------------
(* Two folders and two files are enough for a listing, an upload and a     *)
(* selection that are each of another folder than the others.              *)
EXTENDS RepoView, TLC

CONSTANTS noarch, x86_64, a, b, word

\* A search that hides every row; a row that is found is clicked as any other.
MCMatches == [text \in Texts |-> {}]

Symmetry == Permutations(Folders) \cup Permutations(Files)
=============================================================================
