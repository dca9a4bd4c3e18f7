----------------------------- MODULE MCPlanSteps -----------------------------
(***************************************************************************)
(* Small plans for PlanSteps: a parallel pair with a step that depends on  *)
(* both, a step with two that depend on it, a group, a step that asks for  *)
(* a worktree, a cycle, and a pair whose worktrees are switched off.       *)
(***************************************************************************)
EXTENDS PlanSteps

CONSTANT f1

MCFiles == {f1}

Step(deps, group, isolated) ==
  [depends_on |-> deps, parallel_group |-> group, isolated |-> isolated]
Plan(steps, worktrees) == [steps |-> steps, worktrees |-> worktrees]

Free == Step(Undefined, Undefined, FALSE)

MCPlans ==
  {Plan(<<Free, Free, Step({1, 2}, Undefined, FALSE)>>, TRUE),
   Plan(<<Free, Step({1}, 1, FALSE), Step({1}, 1, FALSE)>>, TRUE),
   Plan(<<Step(Undefined, 1, FALSE), Step(Undefined, 1, FALSE)>>, TRUE),
   Plan(<<Free, Step(Undefined, Undefined, TRUE)>>, TRUE),
   Plan(<<Free, Step({3}, Undefined, FALSE), Step({2}, Undefined, FALSE)>>, TRUE),
   Plan(<<Free, Step({}, Undefined, FALSE)>>, FALSE)}
=============================================================================
