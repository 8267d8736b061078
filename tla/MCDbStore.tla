----------------------------- MODULE MCDbStore -----------------------------
EXTENDS DbStore, TLC

CONSTANTS k1, k2

\* Resource ids are interchangeable: ResourceRepository.add saves any of them.
SymKeys == Permutations({k1, k2})
=============================================================================
