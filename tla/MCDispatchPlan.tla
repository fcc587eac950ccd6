---------------------------- MODULE MCDispatchPlan ----------------------------
(* Every pool of three URIs over two categories and three entities, for the   *)
(* kinds of strategy the loader accepts and one it must refuse; and beside    *)
(* them the algorithm behind Fits, on every pool of three entities over three *)
(* categories and every policy of up to three slots.                         *)
EXTENDS DispatchPlan, Assignment

MCSlotCategories == {"internal", "dedicated", "shared"}
MCSlotEntities == 1 .. 3

MCProviders == 0 .. 2
MCCategories == <<"internal", "shared">>
MCEntities == {"a", "b", "c"}

All(reqs) == [allOf |-> reqs, oneOf |-> <<>>]
AnyOf(n) == [c \in {AnyCategory} |-> n]
Internal(n) == [c \in {"internal"} |-> n]
Shared(n) == [c \in {"shared"} |-> n]

MCStrategies ==
  { All(<<AnyOf(0)>>), All(<<AnyOf(1)>>), All(<<AnyOf(2)>>), All(<<AnyOf(MaxQuorum)>>),
    All(<<Internal(1), Shared(1)>>), All(<<Internal(MaxQuorum), AnyOf(2)>>),
    All(<<Internal(1), AnyOf(2)>>),
    [allOf |-> <<AnyOf(2)>>, oneOf |-> <<Internal(1), Shared(2)>>],
    [allOf |-> <<>>, oneOf |-> <<Internal(2), Shared(1)>>] }

\* One of the two runs over all its inputs, the other has ended: a strategy
\* that was refused, and a policy without slots that was assigned.
PlanEnded ==
  /\ voters = [p \in Providers |-> [category |-> "internal", entity |-> "a"]]
  /\ raw = All(<<AnyOf(0)>>) /\ strategy = raw /\ phase = "refused"
  /\ rank = [p \in Providers |-> Normal] /\ order = <<>> /\ wave = 0
AssignmentEnded ==
  /\ counts = [c \in SlotCategories |-> {}] /\ slots = <<>> /\ filled = 0
  /\ owner = [e \in SlotEntities |-> NoCategory] /\ passed = [c \in SlotCategories |-> {}]
  /\ frontier = {} /\ seen = {} /\ via = [c \in SlotCategories |-> <<NoCategory, 0>>]
  /\ at = NoCategory /\ pc = "yes"

MCInit == (AssignmentEnded /\ PlanInit) \/ (PlanEnded /\ AssignInit)

MCNext ==
  \/ PlanNext /\ UNCHANGED assignVars
  \/ AssignNext /\ UNCHANGED planVars

MCSpec == MCInit /\ [][MCNext]_<<planVars, assignVars>>
=============================================================================
