----------------------- MODULE SupervisorGraph_proofs -----------------------
(***************************************************************************)
(* Theorems about the supervisor graph, for any offer of workflows and     *)
(* plans of any length.                                                    *)
(***************************************************************************)
EXTENDS SupervisorGraph, TLAPS

USE DEF MAX_CRITIQUE_ROUNDS

(* _infer_critique_target answers a workflow, and one with artifacts if    *)
(* any of the four stages has some.                                        *)
LEMMA InferFits ==
    /\ InferCritiqueTarget \in WORKFLOW_NAMES
    /\ \/ InferCritiqueTarget \in artifacts
       \/ InferCritiqueTarget = "execution" /\ Produced = {}
<1>1. CASE Produced = {}
    BY <1>1 DEF InferCritiqueTarget, WORKFLOW_NAMES
<1>2. CASE Produced # {}
  <2>1. Produced \subseteq 1..4
      BY DEF Produced, CritiqueTargetOrder
  <2>2. \E i \in Produced : \A j \in Produced : i <= j
    <3>1. CASE 1 \in Produced
        BY <3>1, <2>1
    <3>2. CASE 1 \notin Produced /\ 2 \in Produced
        BY <3>2, <2>1
    <3>3. CASE 1 \notin Produced /\ 2 \notin Produced /\ 3 \in Produced
        BY <3>3, <2>1
    <3>4. CASE Produced \subseteq {4}
      <4>1. 4 \in Produced /\ \A j \in Produced : j = 4
          BY <3>4, <1>2
      <4> QED BY <4>1
    <3> QED BY <3>1, <3>2, <3>3, <3>4, <2>1
  <2> DEFINE first == CHOOSE i \in Produced : \A j \in Produced : i <= j
  <2>3. first \in Produced
      BY <2>2, Zenon
  <2>4. InferCritiqueTarget = CritiqueTargetOrder[first]
      BY <1>2 DEF InferCritiqueTarget
  <2>5. CritiqueTargetOrder[first] \in artifacts
      BY <2>3 DEF Produced
  <2>6. CritiqueTargetOrder[first] \in WORKFLOW_NAMES
    <3> HIDE DEF first
    <3> QED BY <2>3, <2>1 DEF CritiqueTargetOrder, WORKFLOW_NAMES
  <2> QED BY <2>4, <2>5, <2>6
<1> QED BY <1>1, <1>2

(* A plan the supervisor makes is a sequence of workflows and has a first  *)
(* step.                                                                   *)
LEMMA PlanType ==
    ASSUME NEW p \in Plans
    PROVE  p \in Seq(WORKFLOW_NAMES) /\ Len(p) \in Nat \ {0} /\ p[1] \in WORKFLOW_NAMES
<1>1. PICK n \in 1..MaxPlan : p \in [1..n -> Offered]
    BY DEF Plans
<1>2. n \in Nat \ {0}
    BY SupervisorAssumption
<1>3. p \in Seq(WORKFLOW_NAMES)
    BY <1>1, <1>2, SupervisorAssumption
<1>4. Len(p) = n
    BY <1>1, <1>2
<1> QED BY <1>1, <1>2, <1>3, <1>4, SupervisorAssumption

(* A step of a plan is a workflow.                                         *)
LEMMA StepType ==
    ASSUME TypeOK, NEW k \in 1..Len(plan)
    PROVE  plan[k] \in WORKFLOW_NAMES
BY DEF TypeOK

(* Type correctness: every branch of the two nodes routes to a node that   *)
(* exists and writes values of the channels' types.                        *)
LEMMA TypeStep == TypeOK /\ [Next]_vars => TypeOK'
<1> SUFFICES ASSUME TypeOK, [Next]_vars PROVE TypeOK'
    OBVIOUS
<1> USE DEF TypeOK, history
<1>1. CASE StartRun \/ ResumeRun \/ StopRun
    BY <1>1 DEF StartRun, ResumeRun, StopRun
<1>2. CASE Interrupt
    BY <1>2 DEF Interrupt
<1>3. CASE HardRule \/ Chat
  <2>1. "execution" \in WORKFLOW_NAMES
      BY DEF WORKFLOW_NAMES
  <2>2. plan' = <<>> /\ <<>> \in Seq(WORKFLOW_NAMES)
      BY <1>3 DEF HardRule, Chat, RouteTo
  <2> QED BY <1>3, <2>1, <2>2 DEF HardRule, Chat, RouteTo, OnlyRouting
<1>4. CASE Single
    BY <1>4, InferFits, SupervisorAssumption DEF Single, RouteTo, OnlyRouting
<1>5. CASE MakePlan
  <2>1. PICK p \in Plans :
          /\ node' = p[1] /\ plan' = p
          /\ target' = IF p[1] = "critique" THEN InferCritiqueTarget ELSE target
      BY <1>5 DEF MakePlan
  <2> QED BY <1>5, <2>1, PlanType, InferFits DEF MakePlan, OnlyRouting
<1>6. CASE Work
    BY <1>6 DEF Work, WorkflowDone
<1>7. CASE Review
  <2>1. verdict' \in [WORKFLOW_NAMES -> Verdict]
      BY <1>7 DEF Review, Verdict
  <2>2. "critique" \in WORKFLOW_NAMES
      BY DEF WORKFLOW_NAMES
  <2> QED BY <1>7, <2>1, <2>2 DEF Review, WorkflowDone
<1>8. ASSUME NEW w \in WORKFLOW_NAMES, Revise(w) PROVE TypeOK'
  <2>1. verdict' \in [WORKFLOW_NAMES -> Verdict]
      BY <1>8 DEF Revise, Verdict
  <2>2. revised' \in [WORKFLOW_NAMES -> 0..MAX_CRITIQUE_ROUNDS]
      BY <1>8 DEF Revise, SendBack, Count
  <2> QED BY <1>8, <2>1, <2>2 DEF Revise, SendBack
<1>9. CASE EndRun \/ EndPlan
    BY <1>9 DEF EndRun, EndPlan, Evaluates, OnlyEval
<1>10. CASE Advance
  <2>1. plan[index + 1] \in WORKFLOW_NAMES /\ plan[index + 2] \in WORKFLOW_NAMES
    <3>1. index + 1 \in 1..Len(plan) /\ index + 2 \in 1..Len(plan)
        BY <1>10 DEF Advance
    <3> QED BY <3>1, StepType
  <2> QED BY <1>10, <2>1 DEF Advance, OnlyEval
<1>11. CASE RetrySame
  <2>1. plan[index + 1] \in WORKFLOW_NAMES
      BY <1>11, StepType DEF RetrySame
  <2> QED BY <1>11, <2>1 DEF RetrySame, OnlyEval, Count
<1>12. CASE Replan
    BY <1>12 DEF Replan, OnlyEval
<1>13. CASE UNCHANGED vars
    BY <1>13 DEF vars
<1> QED BY <1>1, <1>2, <1>3, <1>4, <1>5, <1>6, <1>7, <1>8, <1>9, <1>10, <1>11,
           <1>12, <1>13 DEF Next, GraphStep

-----------------------------------------------------------------------------
(* The state the graph starts in satisfies the invariant.                  *)
LEMMA InitSInv == Init => SInv
<1> SUFFICES ASSUME Init PROVE SInv
    OBVIOUS
<1>1. TypeOK
  <2>1. plan \in Seq(WORKFLOW_NAMES) /\ artifacts = {} /\ finished = {}
      BY DEF Init
  <2>2. verdict \in [WORKFLOW_NAMES -> Verdict] /\ vround \in [WORKFLOW_NAMES -> Nat]
      BY DEF Init, Verdict
  <2>3. revised \in [WORKFLOW_NAMES -> 0..MAX_CRITIQUE_ROUNDS]
      BY DEF Init
  <2>5. index \in Nat /\ round \in Nat /\ node = "idle" /\ target = "none" /\ paused = FALSE
      BY DEF Init
  <2> QED BY <2>1, <2>2, <2>3, <2>5, Zenon DEF TypeOK
<1>2. Len(plan) = 0 /\ plan = <<>>
    BY DEF Init
<1>3. node = "idle" /\ \A w \in WORKFLOW_NAMES : w # "idle"
    BY DEF Init, WORKFLOW_NAMES
<1>4. NodeIsPlanStep /\ PlanStepsWereRun /\ CritiqueReviewsArtifacts /\ EvaluatedStepHasRun
    BY <1>2, <1>3 DEF NodeIsPlanStep, PlanStepsWereRun, CritiqueReviewsArtifacts,
       EvaluatedStepHasRun
<1>5. RevisionsBounded /\ RevisedIsLastRound
    BY DEF Init, RevisionsBounded, RevisedIsLastRound
<1> QED BY <1>1, <1>4, <1>5 DEF SInv, Init

(* The workflow that runs is the step of the plan, the steps passed have   *)
(* run, and so has the step that is evaluated.                             *)
Following ==
    /\ NodeIsPlanStep /\ PlanStepsWereRun
    /\ node = "eval" /\ plan # <<>> => index < Len(plan) /\ plan[index + 1] \in finished

LEMMA FollowingStep == TypeOK /\ Following /\ [Next]_vars => Following'
<1> SUFFICES ASSUME TypeOK, Following, [Next]_vars PROVE Following'
    OBVIOUS
<1> USE DEF Following, NodeIsPlanStep, PlanStepsWereRun, TypeOK, history
<1>0. \A w \in WORKFLOW_NAMES : w \notin {"idle", "supervisor", "eval"}
    BY DEF WORKFLOW_NAMES
<1>1. CASE StartRun \/ ResumeRun \/ StopRun
    BY <1>0, <1>1 DEF StartRun, ResumeRun, StopRun
<1>2. CASE Interrupt
    BY <1>2 DEF Interrupt
<1>3. CASE HardRule \/ Chat
    BY <1>0, <1>3 DEF HardRule, Chat, RouteTo, OnlyRouting
<1>4. CASE Single
  <2>1. PICK w \in Offered : RouteTo(w)
      BY <1>4 DEF Single
  <2> QED BY <1>0, <2>1, SupervisorAssumption DEF RouteTo
<1>5. CASE MakePlan
  <2>1. PICK p \in Plans : node' = p[1] /\ plan' = p
      BY <1>5 DEF MakePlan
  <2>2. Len(p) \in Nat \ {0} /\ p[1] \in WORKFLOW_NAMES
      BY PlanType
  <2>3. index' = 0 /\ finished' = {}
      BY <1>5 DEF MakePlan
  <2>4. NodeIsPlanStep'
      BY <2>1, <2>2, <2>3
  <2>5. PlanStepsWereRun'
      BY <2>1, <2>2, <2>3
  <2> QED BY <1>0, <2>1, <2>2, <2>4, <2>5
<1>6. ASSUME NEW w \in WORKFLOW_NAMES, WorkflowDone(w) PROVE Following'
    BY <1>0, <1>6 DEF WorkflowDone
<1>7. ASSUME NEW w \in WORKFLOW_NAMES, Revise(w) PROVE Following'
    BY <1>0, <1>7 DEF Revise, SendBack
<1>8. CASE EndRun \/ EndPlan
    BY <1>0, <1>8 DEF EndRun, EndPlan, Evaluates, OnlyEval
<1>9. CASE Advance
  <2>1. PlanStepsWereRun'
      BY <1>9 DEF Advance, Evaluates, OnlyEval
  <2>2. plan[index + 2] \in WORKFLOW_NAMES
      BY <1>9, StepType DEF Advance
  <2> QED BY <1>0, <1>9, <2>1, <2>2 DEF Advance, Evaluates, OnlyEval
<1>10. CASE RetrySame
  <2>1. plan[index + 1] \in WORKFLOW_NAMES
      BY <1>10, StepType DEF RetrySame
  <2> QED BY <1>0, <1>10, <2>1 DEF RetrySame, OnlyEval
<1>11. CASE Replan
    BY <1>0, <1>11 DEF Replan, OnlyEval
<1>12. CASE UNCHANGED vars
    BY <1>12 DEF vars
<1>13. "critique" \in WORKFLOW_NAMES
    BY DEF WORKFLOW_NAMES
<1> QED BY <1>1, <1>2, <1>3, <1>4, <1>5, <1>6, <1>7, <1>8, <1>9, <1>10, <1>11, <1>12,
           <1>13 DEF Next, GraphStep, Work, Review

-----------------------------------------------------------------------------
(* A workflow is sent back once: from then on reviews are filed under the  *)
(* last round, and a verdict of an earlier round that is still pending     *)
(* belongs to a workflow that was not sent back.                           *)
LEMMA RevisionStep ==
    TypeOK /\ RevisedIsLastRound /\ RevisionsBounded /\ [Next]_vars
        => RevisedIsLastRound' /\ RevisionsBounded'
<1> SUFFICES ASSUME TypeOK, RevisedIsLastRound, RevisionsBounded, [Next]_vars
             PROVE  RevisedIsLastRound' /\ RevisionsBounded'
    OBVIOUS
<1> USE DEF RevisedIsLastRound, RevisionsBounded, MustRevise, TypeOK
<1> DEFINE untouched == UNCHANGED <<round, verdict, vround, revised>>
<1>1. ASSUME untouched PROVE RevisedIsLastRound' /\ RevisionsBounded'
    BY <1>1
<1>2. StartRun \/ ResumeRun \/ StopRun \/ Interrupt => untouched
    BY DEF StartRun, ResumeRun, StopRun, Interrupt, history
<1>3. HardRule \/ Chat \/ Single \/ MakePlan => untouched
    BY DEF HardRule, Chat, Single, MakePlan, RouteTo, OnlyRouting
<1>4. Work => untouched
    BY DEF Work, WorkflowDone
<1>5. EndRun \/ EndPlan \/ Advance \/ RetrySame \/ Replan => untouched
    BY DEF EndRun, EndPlan, Advance, RetrySame, Replan, OnlyEval
<1>6. CASE Review
  <2>1. /\ vround' = [vround EXCEPT ![target] = round]
        /\ \E v \in {"pass", "revise"} : verdict' = [verdict EXCEPT ![target] = v]
        /\ UNCHANGED <<round, revised>>
      BY <1>6 DEF Review, WorkflowDone
  <2>2. \A w \in WORKFLOW_NAMES : revised[w] > 0 => ~MustRevise(w)'
      BY <2>1
  <2> QED BY <2>1, <2>2
<1>7. ASSUME NEW w \in WORKFLOW_NAMES, Revise(w)
      PROVE  RevisedIsLastRound' /\ RevisionsBounded'
  <2>1. round' = 2 /\ revised[w] = 0
      BY <1>7 DEF Revise, SendBack
  <2>2. /\ revised' = [revised EXCEPT ![w] = 1]
        /\ verdict' = [verdict EXCEPT ![w] = "revision_in_progress"]
        /\ UNCHANGED vround
      BY <1>7, <2>1 DEF Revise, SendBack, Count
  <2> QED BY <2>1, <2>2
<1>8. CASE UNCHANGED vars
    BY <1>8 DEF vars, history
<1> QED BY <1>1, <1>2, <1>3, <1>4, <1>5, <1>6, <1>7, <1>8 DEF Next, GraphStep

-----------------------------------------------------------------------------
(* The critique has a target with artifacts, also when it is retried.      *)
Targeted ==
    /\ CritiqueReviewsArtifacts
    /\ node = "eval" /\ plan # <<>> /\ plan[index + 1] = "critique" => TargetFits
    /\ finished \subseteq artifacts

LEMMA TargetedStep == TypeOK /\ Following /\ Targeted /\ [Next]_vars => Targeted'
<1> SUFFICES ASSUME TypeOK, Following, Targeted, [Next]_vars PROVE Targeted'
    OBVIOUS
<1> USE DEF Targeted, CritiqueReviewsArtifacts, TargetFits, Produced, TypeOK, history
<1>0. "critique" \in WORKFLOW_NAMES
    BY DEF WORKFLOW_NAMES
<1>1. CASE StartRun \/ ResumeRun \/ StopRun
    BY <1>1 DEF StartRun, ResumeRun, StopRun
<1>2. CASE Interrupt
    BY <1>2 DEF Interrupt
<1>3. CASE HardRule \/ Chat
    BY <1>3 DEF HardRule, Chat, RouteTo, OnlyRouting
<1>4. CASE Single
  <2>1. PICK w \in Offered :
          RouteTo(w) /\ target' = IF w = "critique" THEN InferCritiqueTarget ELSE target
      BY <1>4 DEF Single
  <2>2. w # "eval"
      BY SupervisorAssumption DEF WORKFLOW_NAMES
  <2> QED BY <2>1, <2>2, InferFits DEF RouteTo, OnlyRouting
<1>5. CASE MakePlan
  <2>1. PICK p \in Plans :
          /\ node' = p[1] /\ plan' = p
          /\ target' = IF p[1] = "critique" THEN InferCritiqueTarget ELSE target
      BY <1>5 DEF MakePlan
  <2>2. p[1] # "eval"
      BY PlanType DEF WORKFLOW_NAMES
  <2> QED BY <1>5, <2>1, <2>2, InferFits DEF MakePlan, OnlyRouting
<1>6. ASSUME NEW w \in WORKFLOW_NAMES, WorkflowDone(w) PROVE Targeted'
  <2>1. artifacts' = artifacts \cup {w} /\ finished' \subseteq artifacts'
      BY <1>6 DEF WorkflowDone
  <2>2. w = "critique" => Produced' = Produced
      BY <2>1 DEF CritiqueTargetOrder
  <2>3. plan # <<>> => plan[index + 1] = w
      BY <1>6 DEF WorkflowDone, Following, NodeIsPlanStep
  <2>4. w = "critique" => TargetFits'
      BY <1>6, <2>1, <2>2 DEF WorkflowDone
  <2> QED BY <1>6, <2>1, <2>3, <2>4 DEF WorkflowDone
<1>7. ASSUME NEW w \in WORKFLOW_NAMES, Revise(w) PROVE Targeted'
  <2>1. w # "eval" /\ node' = w /\ plan' = <<>>
      BY <1>7 DEF Revise, SendBack, WORKFLOW_NAMES
  <2>2. w = "critique" => revised'["critique"] > 0
      BY <1>7 DEF Revise, SendBack, Count
  <2> QED BY <1>7, <2>1, <2>2 DEF Revise, SendBack
<1>8. CASE EndRun \/ EndPlan \/ Replan
    BY <1>8 DEF EndRun, EndPlan, Replan, OnlyEval
<1>9. CASE Advance
  <2>0. node = "eval" /\ plan # <<>>
      BY <1>9 DEF Advance, Evaluates
  <2>1. plan[index + 1] \in artifacts
      BY <2>0 DEF Following
  <2>2. plan[index + 2] # "eval"
      BY <1>9, StepType DEF Advance, WORKFLOW_NAMES
  <2> QED BY <1>9, <2>1, <2>2 DEF Advance, OnlyEval
<1>10. CASE RetrySame
  <2>1. plan[index + 1] # "eval"
      BY <1>10, StepType DEF RetrySame, WORKFLOW_NAMES
  <2> QED BY <1>10, <2>1 DEF RetrySame, Evaluates, OnlyEval
<1>11. CASE UNCHANGED vars
    BY <1>11 DEF vars
<1> QED BY <1>0, <1>1, <1>2, <1>3, <1>4, <1>5, <1>6, <1>7, <1>8, <1>9, <1>10, <1>11
        DEF Next, GraphStep, Work, Review

-----------------------------------------------------------------------------
(* SInv is an invariant of the supervisor graph.                           *)
THEOREM SupervisorInvariance == Spec => []SInv
<1>1. Init => SInv
    BY InitSInv
<1>2. SInv /\ [Next]_vars => SInv'
  <2> SUFFICES ASSUME SInv, [Next]_vars PROVE SInv'
      OBVIOUS
  <2>1. TypeOK' /\ Following' /\ Targeted' /\ RevisedIsLastRound' /\ RevisionsBounded'
      BY TypeStep, FollowingStep, TargetedStep, RevisionStep
      DEF SInv, Following, Targeted, EvaluatedStepHasRun
  <2> QED BY <2>1 DEF SInv, Following, Targeted, EvaluatedStepHasRun
<1> QED BY <1>1, <1>2, PTL DEF Spec

(* The workflow that runs is the current step of the plan, for plans of    *)
(* any length and any history of the thread.                               *)
THEOREM PlanFollowed == Spec => []NodeIsPlanStep
<1>1. SInv => NodeIsPlanStep
    BY DEF SInv
<1> QED BY <1>1, SupervisorInvariance, PTL

(* A plan that came to its end ran each of its steps.                      *)
THEOREM NoStepPassedOver == Spec => []PlanStepsWereRun
<1>1. SInv => PlanStepsWereRun
    BY DEF SInv
<1> QED BY <1>1, SupervisorInvariance, PTL

(* The critique reviews something whenever there is something to review.   *)
THEOREM CritiqueHasTarget == Spec => []CritiqueReviewsArtifacts
<1>1. SInv => CritiqueReviewsArtifacts
    BY DEF SInv
<1> QED BY <1>1, SupervisorInvariance, PTL

(* In the life of a thread no workflow is sent back more often than        *)
(* MAX_CRITIQUE_ROUNDS allows.                                             *)
THEOREM RevisionLimit == Spec => []RevisionsBounded
<1>1. SInv => RevisionsBounded
    BY DEF SInv
<1> QED BY <1>1, SupervisorInvariance, PTL
=============================================================================
