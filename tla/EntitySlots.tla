------------------------------ MODULE EntitySlots ------------------------------
(***************************************************************************)
(* What assign_entities of crates/pillar-config/src/provider_validation.rs *)
(* decides, for the entities of each category and the slots each needs.    *)
(* Assignment.tla is the algorithm, DispatchPlan.tla its caller.           *)
(***************************************************************************)
EXTENDS Integers, FiniteSets

\* The entities of a pool, whatever their category.
Pool(counts) == UNION {counts[c] : c \in DOMAIN counts}

\* Every slot of every category gets its own entity.
Fits(counts, need) ==
  \E given \in [DOMAIN counts -> SUBSET Pool(counts)] :
    \A c \in DOMAIN counts :
      /\ given[c] \subseteq counts[c] /\ Cardinality(given[c]) = need[c]
      /\ \A d \in DOMAIN counts : c # d => given[c] \cap given[d] = {}
=============================================================================
