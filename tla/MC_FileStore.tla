---------------------------- MODULE MC_FileStore ----------------------------
(* What a client may send: "long" and "short", two packages of the folder  *)
(* noarch, and "other", a package of x86_64 that is all headers.  noarch   *)
(* may hold long or short before the first request, x86_64 other.          *)
EXTENDS FileStore, TLC

CONSTANTS r1, r2, r3, noarch, x86_64, file, long, short, other

MCArch == [p \in Packages |-> IF p = other THEN x86_64 ELSE noarch]
MCPayloadLen ==
    [p \in Packages |-> CASE p = long -> 2 [] p = short -> 1 [] OTHER -> 0]

Symmetry == Permutations(Requests)
=============================================================================
