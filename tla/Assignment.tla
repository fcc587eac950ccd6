------------------------------- MODULE Assignment -------------------------------
(***************************************************************************)
(* assign_entities and augment of crates/pillar-config/src/                *)
(* provider_validation.rs: whether every category slot of a quorum policy  *)
(* can hold an entity of its own, decided slot by slot with augmenting     *)
(* paths.  One step is one slot, one category popped from the search, or   *)
(* one hand-over on the way back.  The order in which the search visits    *)
(* categories (its queue) only picks among paths and is left open.         *)
(***************************************************************************)
EXTENDS Integers, Sequences, FiniteSets, FiniteSetsExt, EntitySlots

CONSTANTS SlotCategories,
          SlotEntities,  \* by their places in the order of names
          MaxSlots       \* bound on the slots of a policy

NoCategory == "none"

ASSUME SlotsAssumption ==
  /\ SlotEntities \in SUBSET Nat /\ IsFiniteSet(SlotEntities)
  /\ NoCategory \notin SlotCategories /\ MaxSlots \in Nat

VARIABLES
  counts,    \* the entities of each category
  slots,     \* the category of each slot (the argument categories)
  filled,    \* the slots handled so far
  owner,     \* the category that holds each entity
  passed,    \* the entities of each category's owned_prefix
  frontier, seen, via,  \* augment's queue, seen and via
  at,        \* the category augment hands over from
  pc

assignVars == <<counts, slots, filled, owner, passed, frontier, seen, via, at, pc>>

AssignInit ==
  /\ counts \in [SlotCategories -> SUBSET SlotEntities]
  /\ slots \in UNION {[1 .. n -> SlotCategories] : n \in 0 .. MaxSlots}
  /\ filled = 0
  /\ owner = [e \in SlotEntities |-> NoCategory]
  /\ passed = [c \in SlotCategories |-> {}]
  /\ frontier = {} /\ seen = {}
  /\ via = [c \in SlotCategories |-> <<NoCategory, 0>>]
  /\ at = NoCategory
  /\ pc = "slot"

Start == slots[filled + 1]
Free(c) == {e \in counts[c] : owner[e] = NoCategory}

\* The prefix of c after it has been moved over the owned entities.
Passing(c) ==
  {e \in counts[c] : \A d \in counts[c] :
     d <= e => d \in passed[c] \/ owner[d] # NoCategory}

\* The next slot takes the entity after its category's prefix, or the search
\* for an augmenting path begins.
Slot ==
  /\ pc = "slot" /\ filled < Len(slots)
  /\ passed' = [passed EXCEPT ![Start] = Passing(Start)]
  /\ \/ /\ passed'[Start] # counts[Start]
        /\ owner' = [owner EXCEPT ![Min(counts[Start] \ passed'[Start])] = Start]
        /\ filled' = filled + 1
        /\ UNCHANGED <<frontier, seen, via, pc>>
     \/ /\ passed'[Start] = counts[Start]
        /\ frontier' = {Start} /\ seen' = {Start}
        /\ via' = [c \in SlotCategories |-> <<NoCategory, 0>>]
        /\ pc' = "search"
        /\ UNCHANGED <<owner, filled>>
  /\ UNCHANGED <<counts, slots, at>>

\* Fault: the holders of a category's entities are not asked to move.
SearchGreedy(c) ==
  /\ pc = "search" /\ c \in frontier
  /\ \/ /\ Free(c) # {}
        /\ owner' = [owner EXCEPT ![Min(Free(c))] = c]
        /\ at' = c /\ pc' = "flip"
        /\ UNCHANGED <<frontier, seen, via>>
     \/ /\ Free(c) = {}
        /\ frontier' = frontier \ {c}
        /\ UNCHANGED <<owner, seen, via, at, pc>>
  /\ UNCHANGED <<counts, slots, filled, passed>>

\* A category is popped: it takes its first free entity, or the holders of
\* its entities that were not seen yet are reached through them.
Search(c) ==
  /\ pc = "search" /\ c \in frontier
  /\ \/ /\ Free(c) # {}
        /\ owner' = [owner EXCEPT ![Min(Free(c))] = c]
        /\ at' = c /\ pc' = "flip"
        /\ UNCHANGED <<frontier, seen, via>>
     \/ /\ Free(c) = {}
        /\ LET reached == {owner[e] : e \in counts[c]} \ seen IN
           /\ frontier' = (frontier \ {c}) \cup reached
           /\ seen' = seen \cup reached
           /\ via' = [h \in SlotCategories |->
                IF h \in reached
                THEN <<c, Min({e \in counts[c] : owner[e] = h})>> ELSE via[h]]
        /\ UNCHANGED <<owner, at, pc>>
  /\ UNCHANGED <<counts, slots, filled, passed>>

\* One hand-over: the entity that led to category at goes to its predecessor.
Flip ==
  /\ pc = "flip"
  /\ \/ /\ at # Start
        /\ owner' = [owner EXCEPT ![via[at][2]] = via[at][1]]
        /\ at' = via[at][1]
        /\ UNCHANGED <<filled, pc>>
     \/ /\ at = Start
        /\ filled' = filled + 1 /\ pc' = "slot"
        /\ UNCHANGED <<owner, at>>
  /\ UNCHANGED <<counts, slots, passed, frontier, seen, via>>

\* Every slot is filled, or no path is left.
Conclude ==
  /\ \/ pc = "slot" /\ filled = Len(slots) /\ pc' = "yes"
     \/ pc = "search" /\ frontier = {} /\ pc' = "no"
  /\ UNCHANGED <<counts, slots, filled, owner, passed, frontier, seen, via, at>>

AssignNext == Slot \/ (\E c \in SlotCategories : Search(c)) \/ Flip \/ Conclude

AssignSpec == AssignInit /\ [][AssignNext]_assignVars

-----------------------------------------------------------------------------
(* Properties. *)

\* An entity of its own for each slot: the definition of satisfiable slots.
Assignable(sets, sequence) ==
  \E f \in [DOMAIN sequence -> SlotEntities] :
    /\ \A i \in DOMAIN sequence : f[i] \in sets[sequence[i]]
    /\ \A i, j \in DOMAIN sequence : f[i] = f[j] => i = j

\* The answer is right, both ways: a policy is refused only when no
\* assignment of entities to its slots exists, and accepted only when one does.
AnswerRight ==
  /\ pc = "yes" => Assignable(counts, slots)
  /\ pc = "no" => ~ Assignable(counts, slots)

\* The answer is right, and it is what check_requirement_set relies on: as many
\* entities for each category as it has slots, none of them shared.
AssignmentDecides ==
  /\ AnswerRight
  /\ pc \in {"yes", "no"} =>
       (pc = "yes" <=>
        Fits(counts, [c \in DOMAIN counts |-> Cardinality({i \in DOMAIN slots : slots[i] = c})]))
=============================================================================
