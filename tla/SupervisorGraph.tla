-------------------------- MODULE SupervisorGraph --------------------------
(***************************************************************************)
(* backend/agent/graph.py and routing.py: the supervisor graph of one      *)
(* agent thread, over all its runs.  The variables are the channels of     *)
(* SupervisorState as the checkpointer keeps them, so that they outlive a  *)
(* run; one action is one node with the conditional edge that follows it.  *)
(*                                                                         *)
(* What a language model answers is a choice.  A workflow is one step: it  *)
(* writes its artifacts, stops in an interrupt, or fails.  Artifacts are   *)
(* reduced to the workflows that have some.                                *)
(***************************************************************************)
EXTENDS Naturals, Sequences

CONSTANTS Offered,   \* the workflows that language models choose from
          MaxPlan    \* bound on the steps of a plan

WORKFLOW_NAMES ==
    {"discovery", "extraction", "ideation", "execution", "critique", "publish"}

ASSUME SupervisorAssumption ==
    /\ Offered \subseteq WORKFLOW_NAMES
    /\ MaxPlan \in Nat \ {0}

MAX_CRITIQUE_ROUNDS == 2

VARIABLES node,       \* the node that runs next, "idle" when no run is active
          paused,     \* the run waits in an interrupt of its workflow
          plan,       \* the workflows of the plan; the empty sequence is None
          index,      \* current_step_index
          target,     \* target_workflow
          round,      \* critique_round
          artifacts,  \* workflows with a non-empty artifacts namespace
          verdict,    \* artifacts.critique[w].verdict
          vround      \* artifacts.critique[w].round

(* What happened, for the properties; the graph does not look at it.       *)
VARIABLES finished,   \* workflows that ended since the plan was made
          revised     \* how often a workflow was sent back, at most counted
                      \* to MAX_CRITIQUE_ROUNDS

history == <<finished, revised>>
vars == <<node, paused, plan, index, target, round, artifacts,
          verdict, vround, history>>

Plans == UNION {[1..n -> Offered] : n \in 1..MaxPlan}
Verdict == {"none", "pass", "revise", "revision_in_progress"}

TypeOK ==
    /\ node \in WORKFLOW_NAMES \cup {"idle", "supervisor", "eval"}
    /\ paused \in BOOLEAN
    /\ plan \in Seq(WORKFLOW_NAMES)
    /\ index \in Nat
    /\ target \in WORKFLOW_NAMES \cup {"none"}
    /\ round \in Nat
    /\ artifacts \subseteq WORKFLOW_NAMES
    /\ verdict \in [WORKFLOW_NAMES -> Verdict]
    /\ vround \in [WORKFLOW_NAMES -> Nat]
    /\ finished \subseteq WORKFLOW_NAMES
    /\ revised \in [WORKFLOW_NAMES -> 0..MAX_CRITIQUE_ROUNDS]

Init ==
    /\ node = "idle" /\ paused = FALSE
    /\ plan = <<>> /\ index = 0 /\ target = "none" /\ round = 1
    /\ artifacts = {}
    /\ verdict = [w \in WORKFLOW_NAMES |-> "none"]
    /\ vround = [w \in WORKFLOW_NAMES |-> 1]
    /\ finished = {}
    /\ revised = [w \in WORKFLOW_NAMES |-> 0]

-----------------------------------------------------------------------------
(* Runs.                                                                   *)

(* trigger_run: a new message on the thread's checkpoint.  An interrupt    *)
(* that was waiting is left.  artifacts is given as {}, which the reducer  *)
(* merges into what is there.                                              *)
StartRun ==
    /\ node = "idle" \/ paused
    /\ node' = "supervisor" /\ paused' = FALSE
    /\ UNCHANGED <<plan, index, target, round, artifacts, verdict, vround, history>>

ResumeRun ==
    /\ paused
    /\ paused' = FALSE
    /\ UNCHANGED <<node, plan, index, target, round, artifacts, verdict, vround, history>>

(* A cancellation, an exception out of a node, LangGraph's limit on the    *)
(* steps of one run.                                                       *)
StopRun ==
    /\ node # "idle" /\ ~paused
    /\ node' = "idle"
    /\ UNCHANGED <<paused, plan, index, target, round, artifacts, verdict, vround, history>>

-----------------------------------------------------------------------------
(* The supervisor node and route_to_workflow.                              *)

(* _infer_critique_target: the latest stage that has artifacts.            *)
CritiqueTargetOrder == <<"execution", "ideation", "extraction", "discovery">>
Produced == {i \in DOMAIN CritiqueTargetOrder : CritiqueTargetOrder[i] \in artifacts}
InferCritiqueTarget ==
    IF Produced = {} THEN "execution"
    ELSE CritiqueTargetOrder[CHOOSE i \in Produced : \A j \in Produced : i <= j]

OnlyRouting == UNCHANGED <<paused, round, artifacts, verdict, vround, revised>>

(* One workflow, or none, and no plan.                                     *)
RouteTo(w) ==
    /\ node' = w
    /\ plan' = <<>> /\ index' = 0 /\ finished' = {}
    /\ OnlyRouting

(* apply_hard_rules: the last human message has a code block, a choice     *)
(* here.  The second rule, on attachments, matches no message of the API.  *)
HardRule ==
    /\ node = "supervisor"
    /\ RouteTo("execution")
    /\ UNCHANGED target

(* "chat", "single" without a workflow, "plan" without steps.              *)
Chat ==
    /\ node = "supervisor"
    /\ RouteTo("idle")
    /\ UNCHANGED target

Single ==
    /\ node = "supervisor"
    /\ \E w \in Offered :
         /\ RouteTo(w)
         /\ target' = IF w = "critique" THEN InferCritiqueTarget ELSE target

(* Broken: the index of the last plan is kept.                             *)
MakePlanKeepsIndex ==
    /\ node = "supervisor"
    /\ \E p \in Plans :
         /\ node' = p[1] /\ plan' = p
         /\ target' = IF p[1] = "critique" THEN InferCritiqueTarget ELSE target
    /\ finished' = {}
    /\ UNCHANGED index
    /\ OnlyRouting

MakePlan ==
    /\ node = "supervisor"
    /\ \E p \in Plans :
         /\ node' = p[1] /\ plan' = p
         /\ target' = IF p[1] = "critique" THEN InferCritiqueTarget ELSE target
    /\ index' = 0 /\ finished' = {}
    /\ OnlyRouting

-----------------------------------------------------------------------------
(* The workflows, each followed by an edge to checkpoint_eval.             *)

WorkflowDone(w) ==
    /\ node = w /\ ~paused
    /\ node' = "eval"
    /\ artifacts' = artifacts \cup {w}
    /\ finished' = finished \cup {w}
    /\ UNCHANGED <<paused, plan, index, target, round, revised>>

(* Any workflow but critique.                                              *)
Work ==
    /\ \E w \in WORKFLOW_NAMES \ {"critique"} : WorkflowDone(w)
    /\ UNCHANGED <<verdict, vround>>

(* The critique workflow files its verdict under the reviewed workflow,    *)
(* over an earlier one, with the round the thread is in.                   *)
Review ==
    /\ WorkflowDone("critique")
    /\ \E v \in {"pass", "revise"} : verdict' = [verdict EXCEPT ![target] = v]
    /\ vround' = [vround EXCEPT ![target] = round]

(* The workflows with a human in the loop.                                 *)
Interrupting == {"discovery", "execution", "publish"}

Interrupt ==
    /\ node \in Interrupting /\ ~paused
    /\ paused' = TRUE
    /\ UNCHANGED <<node, plan, index, target, round, artifacts, verdict, vround, history>>

-----------------------------------------------------------------------------
(* checkpoint_eval and route_after_eval.                                   *)

(* Broken: off by one.                                                     *)
MustReviseOnceMore(w) == verdict[w] = "revise" /\ vround[w] <= MAX_CRITIQUE_ROUNDS

MustRevise(w) == verdict[w] = "revise" /\ vround[w] < MAX_CRITIQUE_ROUNDS

Count(n, max) == IF n < max THEN n + 1 ELSE n

(* The revised workflow runs next, outside of any plan.                    *)
SendBack(w) ==
    /\ node' = w
    /\ round' = vround[w] + 1
    /\ revised' = [revised EXCEPT ![w] = Count(@, MAX_CRITIQUE_ROUNDS)]
    /\ UNCHANGED <<paused, index, target, artifacts, vround, finished>>

(* Broken: the verdict is not marked as acted upon.                        *)
ReviseUnmarked(w) ==
    /\ node = "eval" /\ MustRevise(w)
    /\ SendBack(w)
    /\ plan' = <<>>
    /\ UNCHANGED verdict

(* _handle_critique_revise, for the first verdict that asks for it in the  *)
(* order of the first reviews; here for any.                               *)
Revise(w) ==
    /\ node = "eval" /\ MustRevise(w)
    /\ SendBack(w)
    /\ verdict' = [verdict EXCEPT ![w] = "revision_in_progress"]
    /\ plan' = <<>>

Evaluates == node = "eval" /\ \A w \in WORKFLOW_NAMES : ~MustRevise(w)
OnlyEval == UNCHANGED <<paused, round, artifacts, verdict, vround, finished, revised>>

(* No plan, or no step of it left.                                         *)
EndRun ==
    /\ Evaluates /\ index >= Len(plan)
    /\ node' = "idle" /\ index' = index + 1
    /\ UNCHANGED <<plan, target>>
    /\ OnlyEval

(* Broken: the critique is not told what to review.                        *)
AdvanceNoTarget ==
    /\ Evaluates /\ index + 1 < Len(plan)
    /\ index' = index + 1
    /\ node' = plan[index + 2]
    /\ UNCHANGED <<plan, target>>
    /\ OnlyEval

(* The step passed and another one follows.                                *)
Advance ==
    /\ Evaluates /\ index + 1 < Len(plan)
    /\ index' = index + 1
    /\ node' = plan[index + 2]
    /\ target' = IF plan[index + 2] = "critique" THEN plan[index + 1] ELSE target
    /\ UNCHANGED plan
    /\ OnlyEval

(* The last step passed.                                                   *)
EndPlan ==
    /\ Evaluates /\ index + 1 = Len(plan)
    /\ node' = "idle" /\ index' = index + 1
    /\ UNCHANGED <<plan, target>>
    /\ OnlyEval

(* The step is tried again.  The node returns _step_retry_count, which is  *)
(* not a channel of SupervisorState: the graph drops the value, the node   *)
(* always reads 0 and the comparison with MAX_STEP_RETRIES succeeds.       *)
RetrySame ==
    /\ Evaluates /\ index < Len(plan)
    /\ node' = plan[index + 1]
    /\ UNCHANGED <<plan, index, target>>
    /\ OnlyEval

Replan ==
    /\ Evaluates /\ index < Len(plan)
    /\ node' = "supervisor" /\ plan' = <<>>
    /\ UNCHANGED <<index, target>>
    /\ OnlyEval

-----------------------------------------------------------------------------
GraphStep ==
    \/ HardRule \/ Chat \/ Single \/ MakePlan
    \/ Work \/ Review
    \/ (\E w \in WORKFLOW_NAMES : Revise(w))
    \/ EndRun \/ Advance \/ EndPlan \/ RetrySame \/ Replan

Next == StartRun \/ ResumeRun \/ StopRun \/ Interrupt \/ GraphStep

(* An active run goes on to its next node: calls to language models and    *)
(* tools return or fail.  No user is obliged to resume or to start a run.  *)
Spec == Init /\ [][Next]_vars /\ WF_vars(GraphStep)

-----------------------------------------------------------------------------
(* Correctness.                                                            *)

(* Safety.  While a plan is followed the workflow that runs is the one of  *)
(* its current step, whatever retries, replans, revisions, cancellations   *)
(* and earlier runs of the thread left in the checkpoint: routing_decision *)
(* and current_step_index, written by different branches of two nodes, do  *)
(* not drift apart.                                                        *)
NodeIsPlanStep ==
    node \in WORKFLOW_NAMES /\ plan # <<>> => index < Len(plan) /\ plan[index + 1] = node

(* Safety.  The critique never reviews an empty namespace when there is    *)
(* something to review: what the supervisor inferred, or the previous step *)
(* of the plan, has artifacts (the "Bug-1 fix" of both nodes).  A critique *)
(* that is itself sent back is excepted: it keeps the last target.         *)
CritiqueReviewsArtifacts ==
    node = "critique" /\ revised["critique"] = 0 =>
        target \in artifacts \/ (target = "execution" /\ Produced = {})

(* Safety.  A plan that was carried to its end ran all of its steps: none  *)
(* is passed over, and none counts because an earlier run did it.          *)
PlanStepsWereRun ==
    plan # <<>> => \A i \in 1..Len(plan) : i <= index => plan[i] \in finished

(* Safety.  In the life of a thread a workflow is sent back for revision   *)
(* at most MAX_CRITIQUE_ROUNDS - 1 times, also when runs are stopped       *)
(* between a review and its evaluation (critique_round is kept by the      *)
(* checkpoint, verdicts by the artifacts).                                 *)
RevisionsBounded == \A w \in WORKFLOW_NAMES : revised[w] < MAX_CRITIQUE_ROUNDS

(* Liveness.  A run ends, or waits for its user, unless the evaluation     *)
(* asks for a retry or a new plan for ever: critique and revision do not   *)
(* keep each other going.                                                  *)
Running == node # "idle" /\ ~paused
RunEnds == []<><<RetrySame \/ Replan>>_vars \/ (Running ~> ~Running)

-----------------------------------------------------------------------------
(* The inductive invariant behind the safety properties: what an           *)
(* evaluation finds is the step that has just run, with its target if it   *)
(* was a critique; and a workflow that was sent back has moved the thread  *)
(* to the last round.                                                      *)

TargetFits ==
    \/ revised["critique"] > 0
    \/ target \in artifacts
    \/ target = "execution" /\ Produced = {}

EvaluatedStepHasRun ==
    node = "eval" /\ plan # <<>> =>
        /\ index < Len(plan) /\ plan[index + 1] \in finished
        /\ plan[index + 1] = "critique" => TargetFits

RevisedIsLastRound ==
    /\ round >= 1 /\ \A w \in WORKFLOW_NAMES : vround[w] >= 1
    /\ \A w \in WORKFLOW_NAMES : revised[w] > 0 =>
          round >= MAX_CRITIQUE_ROUNDS /\ ~MustRevise(w)

SInv ==
    /\ TypeOK
    /\ NodeIsPlanStep /\ PlanStepsWereRun
    /\ CritiqueReviewsArtifacts /\ RevisionsBounded
    /\ EvaluatedStepHasRun /\ RevisedIsLastRound
    /\ finished \subseteq artifacts
=============================================================================
