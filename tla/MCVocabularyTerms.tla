-------------------------- MODULE MCVocabularyTerms --------------------------
(* Small instances of VocabularyTerms. *)
EXTENDS VocabularyTerms, TLC

CONSTANTS t1, t2, t3, h1, h2, s1, s2

(* t1 and t2 are spelt alike but name different things. *)
MCConflicts == {<<t1, t2>>, <<t2, t1>>}

(* One import with a duplicate, a conflict and more rows than the quota. *)
MCBatches == {<<t3, t3, t1, t2>>}

MCSymmetry == Permutations(Handlers) \union Permutations(Sweeps)
=============================================================================
