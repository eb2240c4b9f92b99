---------------------- MODULE ExecutionWorkflow_proofs ----------------------
(***************************************************************************)
(* Theorems about the execution workflow, for any budget of retries.       *)
(***************************************************************************)
EXTENDS ExecutionWorkflow, TLAPS

USE ExecutionAssumption

(* Type correctness of the workflow's state and of its container.          *)
LEMMA TypeStep == TypeOK /\ OutcomeInv /\ [Next]_vars => TypeOK'
<1> SUFFICES ASSUME TypeOK, OutcomeInv, [Next]_vars PROVE TypeOK'
    OBVIOUS
<1> USE DEF TypeOK, graphVars, boxVars
<1>1. CASE GenerateCode
    BY <1>1 DEF GenerateCode
<1>2. CASE Ask
    BY <1>2 DEF Ask
<1>3. CASE Answer
  <2>1. answers' \in Seq(Nat)
      BY <1>3 DEF Answer
  <2>2. rejected' \in BOOLEAN /\ node' \in {"write_artifacts", "execute_sandbox"}
      BY <1>3 DEF Answer
  <2> QED BY <1>3, <2>1, <2>2 DEF Answer
<1>4. CASE ReflectAndRetry
    BY <1>4 DEF ReflectAndRetry, OutcomeInv
<1>5. CASE WriteArtifacts
  <2>1. written' \in [code : Nat, success : BOOLEAN]
      BY <1>5 DEF WriteArtifacts
  <2> QED BY <1>5, <2>1 DEF WriteArtifacts
<1>6. CASE NodeFails
    BY <1>6 DEF NodeFails
<1>7. CASE Placeholder
  <2>1. ran' \in Seq(Nat) /\ node' = "write_artifacts"
      BY <1>7 DEF Placeholder, Route
  <2> QED BY <1>7, <2>1 DEF Placeholder
<1>8. CASE CreateContainer
    BY <1>8 DEF CreateContainer, OnlyBox
<1>9. CASE InjectCode
    BY <1>9 DEF InjectCode, OnlyBox
<1>10. CASE StartContainer
  <2>1. ran' \in Seq(Nat) /\ box' \in {"running", "hung"}
      BY <1>10 DEF StartContainer
  <2> QED BY <1>10, <2>1 DEF StartContainer, OnlyBox
<1>11. ASSUME NEW res \in {"ok", "failed"}, NEW tooLate \in BOOLEAN, Return(res, tooLate)
       PROVE  TypeOK'
  <2>1. node' \in {"reflect_and_retry", "write_artifacts", "failed"}
      BY <1>11 DEF Return, Route
  <2>2. box' = "none" /\ leaked' \in Nat /\ excuse' \in Nat
      BY <1>11 DEF Return, Destroy
  <2>3. CASE cancelled
      BY <1>11, <2>1, <2>2, <2>3 DEF Return
  <2>4. CASE ~cancelled
      BY <1>11, <2>1, <2>2, <2>4 DEF Return
  <2> QED BY <2>3, <2>4
<1>12. CASE Exit
    BY <1>12, <1>11 DEF Exit
<1>13. CASE Timeout
    BY <1>13, <1>11 DEF Timeout
<1>14. ASSUME node' = "failed", UNCHANGED <<executor, cancelled, graphVars, result, ran>>,
              UNCHANGED boxVars \/ \E lost \in BOOLEAN : Destroy(lost)
       PROVE  TypeOK'
  <2>1. box' \in {"none", "created", "ready", "running", "hung"}
        /\ leaked' \in Nat /\ excuse' \in Nat
      BY <1>14 DEF Destroy
  <2> QED BY <1>14, <2>1
<1>15. CASE SandboxFails
    BY <1>15, <1>14 DEF SandboxFails
<1>16. CASE ProcessLost
    BY <1>16, <1>14 DEF ProcessLost
<1>17. CASE CancelInSandbox
    BY <1>17 DEF CancelInSandbox
<1>18. CASE UNCHANGED vars
    BY <1>18 DEF vars
<1> QED BY <1>1, <1>2, <1>3, <1>4, <1>5, <1>6, <1>7, <1>8, <1>9, <1>10, <1>12,
           <1>13, <1>15, <1>16, <1>17, <1>18 DEF Next, Step, SandboxStep

-----------------------------------------------------------------------------
(* Appending an answer or an execution keeps the earlier ones.             *)
LEMMA AppendOccurs ==
    ASSUME NEW s \in Seq(Nat), NEW v \in Nat
    PROVE  /\ Occurs(Append(s, v), v)
           /\ \A u : Occurs(s, u) => Occurs(Append(s, v), u)
<1>1. /\ Len(Append(s, v)) = Len(s) + 1 /\ Append(s, v)[Len(s) + 1] = v
      /\ DOMAIN Append(s, v) = 1..Len(s) + 1
      /\ \A i \in 1..Len(s) : Append(s, v)[i] = s[i]
    OBVIOUS
<1>2. DOMAIN s = 1..Len(s) /\ Len(s) \in Nat
    OBVIOUS
<1> QED BY <1>1, <1>2 DEF Occurs

(* What the execution of a round adds to those of the rounds before.       *)
LEMMA RunRound ==
    ASSUME TypeOK, RoundInv, node = "execute_sandbox", ~Started, ran' = Append(ran, code)
    PROVE  /\ \A i \in DOMAIN ran' : ran'[i] <= code /\ Occurs(answers, ran'[i])
           /\ \A i, j \in DOMAIN ran' : ran'[i] = ran'[j] => i = j
           /\ Len(ran') <= retry + 1
           /\ ran' # <<>> /\ ran'[Len(ran')] = code
<1>1. ran \in Seq(Nat) /\ code \in Nat /\ retry \in Nat
    BY DEF TypeOK
<1>2. /\ Len(ran') = Len(ran) + 1 /\ ran'[Len(ran) + 1] = code
      /\ DOMAIN ran' = 1..Len(ran) + 1 /\ DOMAIN ran = 1..Len(ran) /\ Len(ran) \in Nat
      /\ \A i \in 1..Len(ran) : ran'[i] = ran[i] /\ ran[i] \in Nat
    BY <1>1
<1>3. /\ Len(ran) <= retry /\ Occurs(answers, code)
      /\ \A i \in 1..Len(ran) : ran[i] < code /\ Occurs(answers, ran[i])
      /\ \A i, j \in 1..Len(ran) : ran[i] = ran[j] => i = j
    BY <1>2 DEF RoundInv
<1>4. \A i \in DOMAIN ran' : i \in 1..Len(ran) \/ i = Len(ran) + 1
    BY <1>2
<1>5. \A i \in DOMAIN ran' : ran'[i] <= code /\ Occurs(answers, ran'[i])
    BY <1>1, <1>2, <1>3, <1>4
<1>6. \A i, j \in DOMAIN ran' : ran'[i] = ran'[j] => i = j
  <2>1. \A i \in 1..Len(ran) : ran'[i] < code
      BY <1>2, <1>3
  <2>2. \A i \in 1..Len(ran) : ran'[i] # ran'[Len(ran) + 1]
      BY <1>1, <1>2, <2>1
  <2> QED BY <1>2, <1>3, <1>4, <2>2
<1> QED BY <1>1, <1>2, <1>3, <1>5, <1>6

(* The rounds of generation, answer, execution and reflection keep         *)
(* RoundInv.                                                               *)
LEMMA RoundStep ==
    TypeOK /\ RoundInv /\ OutcomeInv /\ [Next]_vars => RoundInv'
<1> SUFFICES ASSUME TypeOK, RoundInv, OutcomeInv, [Next]_vars PROVE RoundInv'
    OBVIOUS
<1> USE DEF graphVars, boxVars
<1>0. /\ code \in Nat /\ retry \in Nat /\ ran \in Seq(Nat) /\ answers \in Seq(Nat)
      /\ Len(ran) \in Nat /\ \A i \in DOMAIN ran : ran[i] \in Nat
    BY DEF TypeOK
<1>1. CASE GenerateCode
  <2>1. UNCHANGED <<ran, answers, retry>> /\ code' = code + 1 /\ node' = "request_confirmation"
      BY <1>1 DEF GenerateCode
  <2>2. node = "generate_code"
      BY <1>1 DEF GenerateCode
  <2> QED BY <1>0, <2>1, <2>2 DEF RoundInv
<1>2. CASE Ask \/ NodeFails
    BY <1>0, <1>2 DEF Ask, NodeFails, RoundInv, Started
<1>3. CASE Answer
  <2>1. /\ UNCHANGED <<ran, code, retry, box>> /\ answers' = Append(answers, code)
        /\ node' \in {"write_artifacts", "execute_sandbox"}
      BY <1>3 DEF Answer
  <2>2. node = "request_confirmation"
      BY <1>3 DEF Answer, OutcomeInv
  <2>3. Occurs(answers', code) /\ \A u : Occurs(answers, u) => Occurs(answers', u)
      BY <1>0, <2>1, AppendOccurs
  <2> QED BY <1>0, <2>1, <2>2, <2>3 DEF RoundInv, Started
<1>4. CASE ReflectAndRetry
  <2>1. /\ UNCHANGED <<ran, answers>> /\ code' = code + 1 /\ retry' = retry + 1
        /\ node' = "generate_code"
      BY <1>4 DEF ReflectAndRetry
  <2> QED BY <1>0, <2>1 DEF RoundInv
<1>5. CASE WriteArtifacts
    BY <1>0, <1>5 DEF WriteArtifacts, RoundInv, Started
<1>6. CASE Placeholder \/ StartContainer
  <2>1. node = "execute_sandbox" /\ ~Started /\ ran' = Append(ran, code)
      BY <1>6 DEF Placeholder, StartContainer, InSandbox, Started, OutcomeInv
  <2>2. UNCHANGED <<code, answers, retry>>
      BY <1>6 DEF Placeholder, StartContainer, OnlyBox
  <2>3. node' \notin {"generate_code", "request_confirmation"}
        /\ (node' = "execute_sandbox" => Started')
      BY <1>6 DEF Placeholder, StartContainer, OnlyBox, InSandbox, Route, Started
  <2> QED BY <2>1, <2>2, <2>3, RunRound DEF RoundInv
<1>7. CASE CreateContainer \/ InjectCode
    BY <1>0, <1>7 DEF CreateContainer, InjectCode, OnlyBox, InSandbox, RoundInv, Started
<1>8. CASE Exit \/ Timeout
  <2>1. UNCHANGED <<code, answers, retry, ran>>
      BY <1>8 DEF Exit, Timeout, Return
  <2>2. node' \in {"reflect_and_retry", "write_artifacts", "failed"}
      BY <1>8 DEF Exit, Timeout, Return, Route
  <2> QED BY <1>0, <2>1, <2>2 DEF RoundInv
<1>9. CASE SandboxFails \/ ProcessLost
    BY <1>0, <1>9 DEF SandboxFails, ProcessLost, RoundInv
<1>10. CASE CancelInSandbox \/ UNCHANGED vars
    BY <1>10 DEF CancelInSandbox, vars, RoundInv, Started
<1> QED BY <1>1, <1>2, <1>3, <1>4, <1>5, <1>6, <1>7, <1>8, <1>9, <1>10
        DEF Next, Step, SandboxStep

-----------------------------------------------------------------------------
(* What is known of the last execution, and of its container.              *)
LEMMA OutcomeStep ==
    TypeOK /\ RoundInv /\ OutcomeInv /\ [Next]_vars => OutcomeInv'
<1> SUFFICES ASSUME TypeOK, RoundInv, OutcomeInv, [Next]_vars PROVE OutcomeInv'
    OBVIOUS
<1> USE DEF OutcomeInv, graphVars, boxVars, Started, InSandbox
<1>1. CASE GenerateCode
    BY <1>1 DEF GenerateCode
<1>2. CASE Ask
    BY <1>2 DEF Ask
<1>3. CASE Answer
  <2>1. node' \in {"write_artifacts", "execute_sandbox"}
      BY <1>3 DEF Answer
  <2> QED BY <1>3, <2>1 DEF Answer
<1>4. CASE ReflectAndRetry
    BY <1>4 DEF ReflectAndRetry
<1>5. CASE WriteArtifacts
    BY <1>5 DEF WriteArtifacts
<1>6. CASE NodeFails
    BY <1>6 DEF NodeFails
<1>7. CASE Placeholder
  <2>1. ran' # <<>> /\ ran'[Len(ran')] = code
      BY <1>7, RunRound DEF Placeholder
  <2>2. node' = "write_artifacts"
      BY <1>7 DEF Placeholder, Route
  <2> QED BY <1>7, <2>1, <2>2 DEF Placeholder
<1>8. CASE CreateContainer
    BY <1>8 DEF CreateContainer, OnlyBox
<1>9. CASE InjectCode
    BY <1>9 DEF InjectCode, OnlyBox
<1>10. CASE StartContainer
  <2>1. ran' # <<>> /\ ran'[Len(ran')] = code
      BY <1>10, RunRound DEF StartContainer
  <2> QED BY <1>10, <2>1 DEF StartContainer, OnlyBox
<1>11. ASSUME NEW res \in {"ok", "failed"}, NEW tooLate \in BOOLEAN,
              InSandbox, Started, Return(res, tooLate)
       PROVE  OutcomeInv'
  <2>1. ran # <<>> /\ ran[Len(ran)] = code /\ box' = "none"
      BY <1>11 DEF Return, Destroy
  <2>0. CASE cancelled
      BY <1>11, <2>0, <2>1 DEF Return
  <2>2. CASE ~cancelled /\ res = "ok"
    <3>1. node' = "write_artifacts"
        BY <1>11, <2>2 DEF Return, Route
    <3> QED BY <1>11, <2>1, <2>2, <3>1 DEF Return
  <2>3. CASE ~cancelled /\ res = "failed"
    <3>1. node' \in {"reflect_and_retry", "write_artifacts"}
          /\ (node' = "reflect_and_retry" => retry < MaxRetries)
        BY <1>11, <2>3 DEF Return, Route, WithinBudget
    <3> QED BY <1>11, <2>1, <2>3, <3>1 DEF Return
  <2> QED BY <2>0, <2>2, <2>3
<1>12. CASE Exit
    BY <1>12, <1>11 DEF Exit
<1>13. CASE Timeout
    BY <1>13, <1>11 DEF Timeout
<1>14. CASE SandboxFails
  <2>1. box' = "none"
      BY <1>14 DEF SandboxFails, Destroy
  <2> QED BY <1>14, <2>1 DEF SandboxFails
<1>15. CASE ProcessLost
  <2>1. box' = "none"
      BY <1>15 DEF ProcessLost, Destroy
  <2> QED BY <1>15, <2>1 DEF ProcessLost
<1>16. CASE CancelInSandbox \/ UNCHANGED vars
    BY <1>16 DEF CancelInSandbox, vars
<1> QED BY <1>1, <1>2, <1>3, <1>4, <1>5, <1>6, <1>7, <1>8, <1>9, <1>10, <1>12,
           <1>13, <1>14, <1>15, <1>16 DEF Next, Step, SandboxStep

-----------------------------------------------------------------------------
(* The artifacts describe the last execution.                              *)
LEMMA WrittenStep ==
    TypeOK /\ OutcomeInv /\ SuccessIsOfWrittenCode /\ [Next]_vars => SuccessIsOfWrittenCode'
<1> SUFFICES ASSUME TypeOK, OutcomeInv, SuccessIsOfWrittenCode, [Next]_vars,
                    written'.success
             PROVE  result' = "ok" /\ ran' # <<>> /\ ran'[Len(ran')] = written'.code
    BY DEF SuccessIsOfWrittenCode
<1>1. CASE WriteArtifacts
  <2>1. result = "ok" /\ written'.code = code /\ UNCHANGED <<result, ran>>
      BY <1>1 DEF WriteArtifacts
  <2> QED BY <2>1 DEF OutcomeInv
<1>2. CASE UNCHANGED <<written, result, ran>>
    BY <1>2 DEF SuccessIsOfWrittenCode
<1>3. CASE ~WriteArtifacts /\ written' = written /\ node # "end"
  <2>1. ~written.success
      BY <1>3 DEF OutcomeInv
  <2> QED BY <1>3, <2>1
<1>4. node = "end" => UNCHANGED vars
    BY DEF OutcomeInv, Next, Step, SandboxStep, GenerateCode, Ask, Answer, ReflectAndRetry,
           WriteArtifacts, NodeFails, Placeholder, InSandbox, CreateContainer, InjectCode,
           StartContainer, Exit, Timeout, SandboxFails, ProcessLost,
           CancelInSandbox
<1>5. ~WriteArtifacts => written' = written
    BY DEF Next, Step, SandboxStep, GenerateCode, Ask, Answer, ReflectAndRetry,
           NodeFails, Placeholder, CreateContainer, InjectCode, OnlyBox, graphVars,
           StartContainer, Exit, Timeout, Return, SandboxFails, ProcessLost,
           CancelInSandbox, vars
<1> QED BY <1>1, <1>2, <1>3, <1>4, <1>5 DEF vars, graphVars

(* Every container that is left behind was given up for a reason.          *)
LEMMA ContainersStep ==
    TypeOK /\ OutcomeInv /\ leaked <= excuse /\ [Next]_vars => leaked' <= excuse'
<1> SUFFICES ASSUME TypeOK, leaked <= excuse, [Next]_vars PROVE leaked' <= excuse'
    OBVIOUS
<1>1. leaked \in Nat /\ excuse \in Nat
    BY DEF TypeOK
<1>2. ASSUME NEW lost \in BOOLEAN, Destroy(lost) PROVE leaked' <= excuse'
    BY <1>1, <1>2 DEF Destroy
<1>3. CASE Exit \/ Timeout
    BY <1>2, <1>3 DEF Exit, Timeout, Return
<1>4. CASE SandboxFails \/ ProcessLost
    BY <1>1, <1>2, <1>4 DEF SandboxFails, ProcessLost, boxVars
<1>5. CASE UNCHANGED <<leaked, excuse>>
    BY <1>5
<1> QED BY <1>3, <1>4, <1>5 DEF Next, Step, SandboxStep, GenerateCode, Ask, Answer,
        ReflectAndRetry, WriteArtifacts, NodeFails, Placeholder, CreateContainer,
        InjectCode, StartContainer, CancelInSandbox, boxVars, vars

(* The parts that are inductive together give the others.                  *)
LEMMA Parts ==
    ASSUME TypeOK, RoundInv, OutcomeInv, SuccessIsOfWrittenCode, leaked <= excuse
    PROVE  EInv
<1>1. OnlyShownCodeRuns
    BY DEF RoundInv, OnlyShownCodeRuns
<1>2. AttemptsBounded
    BY DEF TypeOK, RoundInv, AttemptsBounded
<1>3. ContainersAccountedFor
    BY DEF OutcomeInv, InSandbox, ContainersAccountedFor
<1> QED BY <1>1, <1>2, <1>3 DEF EInv

(* The state in which the graph starts.                                    *)
LEMMA InitEInv == Init => EInv
<1> SUFFICES ASSUME Init PROVE EInv
    OBVIOUS
<1>1. ran = <<>> /\ Len(ran) = 0 /\ DOMAIN ran = {} /\ answers = <<>>
    BY DEF Init
<1>2. written = Nothing /\ ~written.success
    BY DEF Init, Nothing
<1>3. TypeOK
  <2>1. written \in [code : Nat, success : BOOLEAN]
      BY <1>2 DEF Nothing
  <2>2. <<>> \in Seq(Nat) /\ retry \in 0..MaxRetries
      BY DEF Init
  <2> QED BY <1>1, <2>1, <2>2 DEF Init, TypeOK
<1>4. RoundInv
    BY <1>1 DEF Init, RoundInv
<1>5. OutcomeInv
    BY <1>2 DEF Init, OutcomeInv, Started
<1>6. SuccessIsOfWrittenCode /\ leaked <= excuse
    BY <1>2 DEF Init, SuccessIsOfWrittenCode
<1> QED BY <1>3, <1>4, <1>5, <1>6, Parts

-----------------------------------------------------------------------------
(* EInv is an invariant of the workflow, for any budget of retries.        *)
THEOREM ExecutionInvariance == Spec => []EInv
<1>1. Init => EInv
    BY InitEInv
<1>2. EInv /\ [Next]_vars => EInv'
  <2> SUFFICES ASSUME EInv, [Next]_vars PROVE EInv'
      OBVIOUS
  <2>1. TypeOK' /\ RoundInv' /\ OutcomeInv' /\ SuccessIsOfWrittenCode' /\ leaked' <= excuse'
      BY TypeStep, RoundStep, OutcomeStep, WrittenStep, ContainersStep
      DEF EInv, ContainersAccountedFor
  <2>2. OnlyShownCodeRuns'
      BY <2>1 DEF RoundInv, OnlyShownCodeRuns
  <2>3. AttemptsBounded'
      BY <2>1 DEF TypeOK, RoundInv, AttemptsBounded
  <2>4. ContainersAccountedFor'
      BY <2>1 DEF OutcomeInv, InSandbox, ContainersAccountedFor
  <2> QED BY <2>1, <2>2, <2>3, <2>4 DEF EInv
<1> QED BY <1>1, <1>2, PTL DEF Spec

(* No version of the code is executed that the user was not shown, and     *)
(* none twice.                                                             *)
THEOREM NoCodeUnseen == Spec => []OnlyShownCodeRuns
<1>1. EInv => OnlyShownCodeRuns
    BY DEF EInv
<1> QED BY <1>1, ExecutionInvariance, PTL

(* The budget bounds the executions, whatever fails and times out.         *)
THEOREM AttemptLimit == Spec => []AttemptsBounded
<1>1. EInv => AttemptsBounded
    BY DEF EInv
<1> QED BY <1>1, ExecutionInvariance, PTL

(* Success in the artifacts is the success of the code in the artifacts.   *)
THEOREM ArtifactsAreHonest == Spec => []SuccessIsOfWrittenCode
<1>1. EInv => SuccessIsOfWrittenCode
    BY DEF EInv
<1> QED BY <1>1, ExecutionInvariance, PTL

(* Containers are left behind only for a reason outside of the backend.    *)
THEOREM NoContainerForgotten == Spec => []ContainersAccountedFor
<1>1. EInv => ContainersAccountedFor
    BY DEF EInv
<1> QED BY <1>1, ExecutionInvariance, PTL
=============================================================================
