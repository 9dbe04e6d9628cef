------------------------------ MODULE MCObjcSync ------------------------------
\* ObjcSync for TLC: one thread leaves an object, one reuses its node, a third comes.
EXTENDS ObjcSync, TLC

Symmetry == Permutations(Clients) \union Permutations(Locks)
=============================================================================
