----------------------------- MODULE MCExactQuorum -----------------------------
(* Five providers of three entities: 0 and 1 are one entity, 2 and 3 another. *)
EXTENDS ExactQuorum, TLC

CONSTANTS f1, f2, f3

MCProviders == 0 .. 4
MCFingerprints == {f1, f2, f3}
Entity(p) == <<"a", "a", "b", "b", "c">>[p + 1]
\* Any two distinct entities.
MCQuorums ==
  {S \in SUBSET MCProviders : Cardinality({Entity(p) : p \in S}) >= 2}
FingerprintSymmetry == Permutations(MCFingerprints)
=============================================================================
