------------------------- MODULE ExecutionWorkflow -------------------------
(***************************************************************************)
(* backend/agent/workflows/execution: code is generated, shown to the      *)
(* user, executed in a container and, when it fails, reflected upon and    *)
(* generated again within a budget; and the container of                   *)
(* backend/services/sandbox_manager.py that executes it.  One invocation   *)
(* of the workflow; its interrupts may be answered in later runs.          *)
(*                                                                         *)
(* Code is the number of its version: every answer of the language model   *)
(* is a new one.                                                           *)
(***************************************************************************)
EXTENDS Naturals, Sequences

CONSTANT MaxRetries    \* EXECUTION_BUDGET.max_retries (3 in the code)

ASSUME ExecutionAssumption == MaxRetries \in Nat

VARIABLES node,        \* the node that runs or runs next
          executor,    \* was a CodeExecutor injected when the graph was built?
          cancelled,   \* the run was cancelled while execute_sandbox, which
                       \* runs in a thread, was at work
          code,        \* version of generated_code
          waiting,     \* interrupted in request_confirmation
          answers,     \* versions the user has answered, as shown
          rejected,    \* execution_rejected
          result,      \* execution_result: "none", "ok" or "failed"
          retry,       \* retry_count
          late,        \* elapsed_seconds reached max_elapsed_seconds
          written,     \* artifacts.execution: code and success
          ran,         \* versions that execute_sandbox took on, in order
          box,         \* the container of the execution under way
          leaked,      \* containers left behind
          excuse       \* Docker refused to stop or remove one, or the
                       \* process was lost with one

graphVars == <<code, waiting, answers, rejected, retry, late, written>>
boxVars == <<box, leaked, excuse>>
vars == <<node, executor, cancelled, graphVars, result, ran, boxVars>>

Nothing == [code |-> 0, success |-> FALSE]

TypeOK ==
    /\ node \in {"generate_code", "request_confirmation", "execute_sandbox",
                 "reflect_and_retry", "write_artifacts", "end", "failed"}
    /\ executor \in BOOLEAN /\ cancelled \in BOOLEAN
    /\ code \in Nat
    /\ waiting \in BOOLEAN
    /\ answers \in Seq(Nat)
    /\ rejected \in BOOLEAN
    /\ result \in {"none", "ok", "failed"}
    /\ retry \in 0..MaxRetries
    /\ late \in BOOLEAN
    /\ written \in [code : Nat, success : BOOLEAN]
    /\ ran \in Seq(Nat)
    /\ box \in {"none", "created", "ready", "running", "hung"}
    /\ leaked \in Nat
    /\ excuse \in Nat

Init ==
    /\ node = "generate_code"
    /\ executor \in BOOLEAN /\ cancelled = FALSE
    /\ code = 0 /\ waiting = FALSE /\ answers = <<>>
    /\ rejected = FALSE /\ result = "none" /\ retry = 0 /\ late = FALSE
    /\ written = Nothing
    /\ ran = <<>> /\ box = "none" /\ leaked = 0 /\ excuse = 0

-----------------------------------------------------------------------------
(* The nodes around the sandbox.                                           *)

(* Overwrites what reflect_and_retry has revised.                          *)
GenerateCode ==
    /\ node = "generate_code"
    /\ node' = "request_confirmation"
    /\ code' = code + 1
    /\ UNCHANGED <<executor, cancelled, waiting, answers, rejected, retry, late, written,
                   result, ran, boxVars>>

Ask ==
    /\ node = "request_confirmation" /\ ~waiting
    /\ waiting' = TRUE
    /\ UNCHANGED <<node, executor, cancelled, code, answers, rejected, retry, late, written,
                   result, ran, boxVars>>

(* The node runs again with the answer, and looks at its "decision".  The  *)
(* interface sends "action", whatever the user chose, so what it rejects is *)
(* executed; only a client of the API can put a "decision" there.          *)
Answer ==
    /\ waiting
    /\ waiting' = FALSE
    /\ answers' = Append(answers, code)
    /\ \E decision \in {"none", "reject"} :
         /\ rejected' = (decision = "reject")
         /\ node' = IF decision = "reject" THEN "write_artifacts" ELSE "execute_sandbox"
    /\ UNCHANGED <<executor, cancelled, code, retry, late, written, result, ran, boxVars>>

(* Broken: the revised code is executed without being shown.               *)
ReflectAndRun ==
    /\ node = "reflect_and_retry"
    /\ node' = "execute_sandbox"
    /\ code' = code + 1
    /\ retry' = retry + 1
    /\ UNCHANGED <<executor, cancelled, waiting, answers, rejected, late, written,
                   result, ran, boxVars>>

ReflectAndRetry ==
    /\ node = "reflect_and_retry"
    /\ node' = "generate_code"
    /\ code' = code + 1
    /\ retry' = retry + 1
    /\ UNCHANGED <<executor, cancelled, waiting, answers, rejected, late, written,
                   result, ran, boxVars>>

(* Broken: success is the exit code of any attempt.                        *)
WriteArtifactsAnySuccess ==
    /\ node = "write_artifacts"
    /\ node' = "end"
    /\ written' = [code |-> code, success |-> ran # <<>>]
    /\ UNCHANGED <<executor, cancelled, code, waiting, answers, rejected, retry, late,
                   result, ran, boxVars>>

WriteArtifacts ==
    /\ node = "write_artifacts"
    /\ node' = "end"
    /\ written' = [code |-> code, success |-> result = "ok"]
    /\ UNCHANGED <<executor, cancelled, code, waiting, answers, rejected, retry, late,
                   result, ran, boxVars>>

-----------------------------------------------------------------------------
(* execute_sandbox and the edge after it.                                  *)

(* check_loop_budget.  tokens_used is never counted.                       *)
WithinBudget(tooLate) == retry < MaxRetries /\ ~tooLate

(* route_execution_result                                                  *)
Route(res, tooLate) ==
    IF res = "failed" /\ WithinBudget(tooLate) THEN "reflect_and_retry" ELSE "write_artifacts"

InSandbox == node = "execute_sandbox" /\ executor
OnlyBox == UNCHANGED <<node, executor, cancelled, graphVars, result>>

(* Without an executor the node reports success.                           *)
Placeholder ==
    /\ node = "execute_sandbox" /\ ~executor
    /\ result' = "ok"
    /\ node' = Route("ok", late)
    /\ ran' = Append(ran, code)
    /\ UNCHANGED <<executor, cancelled, graphVars, boxVars>>

CreateContainer ==
    /\ InSandbox /\ box = "none"
    /\ box' = "created"
    /\ UNCHANGED <<ran, leaked, excuse>>
    /\ OnlyBox

InjectCode ==
    /\ InSandbox /\ box = "created"
    /\ box' = "ready"
    /\ UNCHANGED <<ran, leaked, excuse>>
    /\ OnlyBox

(* The code may run for ever.                                              *)
StartContainer ==
    /\ InSandbox /\ box = "ready"
    /\ box' \in {"running", "hung"}
    /\ ran' = Append(ran, code)
    /\ UNCHANGED <<leaked, excuse>>
    /\ OnlyBox

(* _destroy_container in the finally clause: stop, then remove; if either  *)
(* fails the container is left behind.                                     *)
Destroy(lost) ==
    /\ box' = "none"
    /\ leaked' = IF lost THEN leaked + 1 ELSE leaked
    /\ excuse' = IF lost THEN excuse + 1 ELSE excuse

(* execute returns with an exit code, which a cancelled run has no use for. *)
Return(res, tooLate) ==
    /\ IF cancelled
       THEN node' = "failed" /\ UNCHANGED <<result, late>>
       ELSE result' = res /\ late' = tooLate /\ node' = Route(res, tooLate)
    /\ \E lost \in BOOLEAN : Destroy(lost)
    /\ UNCHANGED <<executor, cancelled, code, waiting, answers, rejected, retry, written, ran>>

(* The code ends, in time for another attempt or not.                      *)
Exit ==
    /\ InSandbox /\ box = "running"
    /\ \E res \in {"ok", "failed"}, tooLate \in BOOLEAN :
         (late => tooLate) /\ Return(res, tooLate)

(* Broken: wait() has no timeout and returns only when the code ends.      *)
WaitForEnd ==
    /\ InSandbox /\ box = "running"
    /\ Return("failed", TRUE)

(* wait() times out, the container is killed and 137 is the exit code.     *)
(* The timeout of 600 s is beyond the budget of 300 s.                     *)
Timeout ==
    /\ InSandbox /\ box \in {"running", "hung"}
    /\ Return("failed", TRUE)

(* Broken: only the normal return cleans up.                               *)
SandboxFailsNoCleanup ==
    /\ InSandbox
    /\ node' = "failed"
    /\ IF box = "none" THEN UNCHANGED boxVars
       ELSE box' = "none" /\ leaked' = leaked + 1 /\ UNCHANGED excuse
    /\ UNCHANGED <<executor, cancelled, graphVars, result, ran>>

(* Docker fails at any point before the result is there: the container is  *)
(* destroyed, if there is one, and the run fails.                          *)
SandboxFails ==
    /\ InSandbox
    /\ node' = "failed"
    /\ IF box = "none" THEN UNCHANGED boxVars ELSE \E lost \in BOOLEAN : Destroy(lost)
    /\ UNCHANGED <<executor, cancelled, graphVars, result, ran>>

(* A cancelled task does not stop the thread of the node, which goes on to *)
(* start the code and waits for its end.                                   *)
CancelInSandbox ==
    /\ InSandbox /\ ~cancelled
    /\ cancelled' = TRUE
    /\ UNCHANGED <<node, executor, graphVars, result, ran, boxVars>>

(* The language model fails, or the run is cancelled elsewhere.            *)
NodeFails ==
    /\ node \in {"generate_code", "reflect_and_retry"}
    /\ node' = "failed"
    /\ UNCHANGED <<executor, cancelled, graphVars, result, ran, boxVars>>

(* The backend process is lost; nothing looks for its container later.     *)
ProcessLost ==
    /\ node \notin {"end", "failed"} /\ ~waiting
    /\ node' = "failed"
    /\ IF box = "none" THEN UNCHANGED boxVars ELSE Destroy(TRUE)
    /\ UNCHANGED <<executor, cancelled, graphVars, result, ran>>

-----------------------------------------------------------------------------
SandboxStep ==
    \/ Placeholder \/ CreateContainer \/ InjectCode \/ StartContainer
    \/ Exit \/ Timeout \/ SandboxFails

Step == GenerateCode \/ Ask \/ ReflectAndRetry \/ WriteArtifacts \/ NodeFails \/ SandboxStep

Next == Step \/ Answer \/ CancelInSandbox \/ ProcessLost

(* The nodes go on; calls to Docker and to language models return or fail, *)
(* and the timeout of wait() fires.  The user is not obliged to answer,    *)
(* and nothing obliges the code in the container to end.                   *)
Spec ==
    /\ Init /\ [][Next]_vars
    /\ WF_vars(GenerateCode \/ NodeFails) /\ WF_vars(ReflectAndRetry \/ NodeFails)
    /\ WF_vars(Ask) /\ WF_vars(WriteArtifacts)
    /\ WF_vars(Placeholder) /\ WF_vars(CreateContainer \/ InjectCode \/ StartContainer)
    /\ WF_vars(Timeout)

-----------------------------------------------------------------------------
(* Correctness.                                                            *)

Occurs(s, v) == \E i \in DOMAIN s : s[i] = v

(* Safety.  No code runs unseen, and none runs twice on one answer: the    *)
(* versions executed are among those shown and answered, each once, over   *)
(* all the rounds of generation and reflection (the edge from              *)
(* reflect_and_retry back through request_confirmation).                   *)
OnlyShownCodeRuns ==
    /\ \A i \in DOMAIN ran : Occurs(answers, ran[i])
    /\ \A i, j \in DOMAIN ran : ran[i] = ran[j] => i = j

(* Safety.  The loop executes at most max_retries + 1 versions, timeouts,  *)
(* failures and refusals included (check_loop_budget before                *)
(* reflect_and_retry).                                                     *)
AttemptsBounded == Len(ran) <= MaxRetries + 1

(* Safety.  Artifacts that claim success hold the code whose execution     *)
(* succeeded, which is the last one executed, and not a later version that *)
(* was generated, or refused, after it (write_artifacts).                  *)
SuccessIsOfWrittenCode ==
    written.success => result = "ok" /\ ran # <<>> /\ ran[Len(ran)] = written.code

(* Safety.  A container is left behind only if Docker refused to stop or   *)
(* remove it or the process was lost with it (the finally clause of        *)
(* execute), and none is in use outside of the sandbox node.               *)
ContainersAccountedFor ==
    /\ leaked <= excuse
    /\ node # "execute_sandbox" => box = "none"

(* Liveness.  The workflow ends, fails or waits for its user, even when    *)
(* the code it executes does not end (the timeout of wait, the budget).    *)
WorkflowEnds == <>[](node \in {"end", "failed"} \/ waiting)

-----------------------------------------------------------------------------
(* The inductive invariant behind the safety properties: before the code   *)
(* of a round is started, every version executed is an older one and there *)
(* were at most as many as retries.                                        *)

Started == box \in {"running", "hung"}

RoundInv ==
    /\ \A i \in DOMAIN ran : ran[i] <= code /\ Occurs(answers, ran[i])
    /\ \A i, j \in DOMAIN ran : ran[i] = ran[j] => i = j
    /\ node \in {"generate_code", "request_confirmation"} => Len(ran) <= retry
    /\ node = "request_confirmation" => \A i \in DOMAIN ran : ran[i] < code
    /\ node = "generate_code" /\ ran # <<>> => \A i \in DOMAIN ran : ran[i] < code
    /\ node = "execute_sandbox" /\ ~Started =>
          /\ Len(ran) <= retry /\ \A i \in DOMAIN ran : ran[i] < code
          /\ Occurs(answers, code)
    /\ Len(ran) <= retry + 1

OutcomeInv ==
    /\ box # "none" => InSandbox
    /\ waiting => node = "request_confirmation"
    /\ node \notin {"write_artifacts", "end", "failed"} => result # "ok"
    /\ node = "reflect_and_retry" => retry < MaxRetries
    /\ Started \/ result = "ok" => ran # <<>> /\ ran[Len(ran)] = code
    /\ written.success => node = "end"

EInv ==
    /\ TypeOK /\ RoundInv /\ OutcomeInv
    /\ OnlyShownCodeRuns /\ AttemptsBounded /\ SuccessIsOfWrittenCode
    /\ ContainersAccountedFor
=============================================================================
