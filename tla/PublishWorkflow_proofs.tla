------------------------ MODULE PublishWorkflow_proofs ------------------------
(***************************************************************************)
(* Theorems about the publish workflow, for any threads, tasks, resumes and *)
(* callbacks.                                                              *)
(***************************************************************************)
EXTENDS PublishWorkflow, TLAPS

USE PublishAssumption

-----------------------------------------------------------------------------
(* A task at a node is a record with all its fields.                       *)
LEMMA AtWorks ==
    ASSUME TypeOK, NEW k \in Tasks, task[k].at \notin {"unused", "end"}
    PROVE  Working(k) /\ task[k] \in Busy
BY DEF TypeOK, Working, Unused, Ended

LEMMA BlankState == Blank \in States
BY DEF Blank, States, Reports, NoReport, Nobody

(* What the two kinds of steps of a task do to it.                         *)
LEMMA StepType ==
    ASSUME TypeOK, NEW k \in Tasks, Working(k), NEW node \in Nodes \ {"end"},
           NEW state \in States, Step(k, node, state)
    PROVE  /\ task' \in [Tasks -> Busy \cup {Unused, Ended}]
           /\ ckpt' \in [Threads -> [next : Nodes \cup {"new"}, state : States]]
<1>1. task[k] \in Busy
    BY DEF TypeOK, Working
<1>2. [task[k] EXCEPT !.at = node, !.state = state] \in Busy
    BY <1>1 DEF Busy
<1>3. task' = [task EXCEPT ![k] = [task[k] EXCEPT !.at = node, !.state = state]]
    BY DEF Step, TypeOK
<1>4. task' \in [Tasks -> Busy \cup {Unused, Ended}]
    BY <1>2, <1>3 DEF TypeOK
<1>5. ckpt' \in [Threads -> [next : Nodes \cup {"new"}, state : States]]
    BY <1>1 DEF Step, Checkpoint, TypeOK, Busy
<1> QED BY <1>4, <1>5

LEMMA CheckpointType ==
    ASSUME TypeOK, NEW k \in Tasks, Working(k), NEW node \in Nodes,
           NEW state \in States, Checkpoint(k, node, state)
    PROVE  ckpt' \in [Threads -> [next : Nodes \cup {"new"}, state : States]]
<1>1. task[k] \in Busy
    BY DEF TypeOK, Working
<1> QED BY <1>1 DEF Checkpoint, TypeOK, Busy

LEMMA SoiledType ==
    ASSUME TypeOK, NEW k \in Tasks
    PROVE  /\ Soiled(k) \in [Tasks -> Busy \cup {Unused, Ended}]
           /\ Soiled(k)[k] = task[k]
<1>1. ASSUME NEW j \in Tasks, task[j] \notin {Unused, Ended}
      PROVE  [task[j] EXCEPT !.clean = FALSE] \in Busy
  <2>1. task[j] \in Busy
      BY <1>1 DEF TypeOK
  <2> QED BY <2>1 DEF Busy
<1> QED BY <1>1 DEF Soiled, TypeOK

LEMMA BeginType ==
    ASSUME TypeOK, NEW k \in Tasks, NEW t \in Threads, NEW node \in Nodes \ {"end"},
           NEW answer \in {NoAnswer, "approve", "edited", "ingestion_complete"},
           Begin(k, t, node, answer)
    PROVE  task' \in [Tasks -> Busy \cup {Unused, Ended}]
<1>1. ckpt[t].state \in States
    BY DEF TypeOK
<1>2. [at |-> node, thread |-> t, state |-> ckpt[t].state, answer |-> answer,
       source |-> Nobody, clean |-> FALSE] \in Busy
    BY <1>1 DEF Busy
<1> QED BY <1>2 DEF Begin, TypeOK

(* Type correctness.                                                       *)
LEMMA TypeStep == TypeOK /\ [Next]_vars => TypeOK'
<1> SUFFICES ASSUME TypeOK, [Next]_vars PROVE TypeOK'
    OBVIOUS
<1>1. ASSUME NEW k \in Tasks, NEW t \in Threads, Publish(k, t) PROVE TypeOK'
  <2>1. "assemble_outline" \in Nodes \ {"end"}
      BY DEF Nodes
  <2>2. task' \in [Tasks -> Busy \cup {Unused, Ended}]
      BY <1>1, <2>1, BeginType DEF Publish
  <2> QED BY <1>1, <2>1, <2>2 DEF Publish, TypeOK
<1>2. ASSUME NEW k \in Tasks, NEW t \in Threads, UserResumes(k, t) PROVE TypeOK'
  <2>1. ckpt[t].next \in Nodes \ {"end"}
      BY <1>2 DEF UserResumes, Nodes
  <2>2. task' \in [Tasks -> Busy \cup {Unused, Ended}]
      BY <1>2, <2>1, BeginType DEF UserResumes
  <2>3. decided' \in [Threads -> SUBSET Reports]
      BY <1>2 DEF UserResumes, TypeOK, Reports
  <2> QED BY <1>2, <2>2, <2>3 DEF UserResumes, TypeOK
<1>3. ASSUME NEW k \in Tasks, NEW t \in Threads, IngestionResumes(k, t) PROVE TypeOK'
  <2>1. ckpt[t].next \in Nodes \ {"end"}
      BY <1>3 DEF IngestionResumes, TypeOK
  <2>2. task' \in [Tasks -> Busy \cup {Unused, Ended}]
      BY <1>3, <2>1, BeginType DEF IngestionResumes
  <2> QED BY <1>3, <2>2 DEF IngestionResumes, TypeOK
<1>4. ASSUME NEW k \in Tasks, AssembleOutline(k) \/ GenerateMarkdown(k) PROVE TypeOK'
  <2>1. Working(k) /\ task[k] \in Busy
      BY <1>4, AtWorks DEF AssembleOutline, GenerateMarkdown, At
  <2>2. task[k].state \in States /\ [task[k].state EXCEPT !.report = "draft"] \in States
      BY <2>1 DEF Busy, States, Reports
  <2>3. {"generate_markdown", "request_finalization"} \subseteq Nodes \ {"end"}
      BY DEF Nodes
  <2>4. /\ task' \in [Tasks -> Busy \cup {Unused, Ended}]
        /\ ckpt' \in [Threads -> [next : Nodes \cup {"new"}, state : States]]
      BY <1>4, <2>1, <2>2, <2>3, StepType DEF AssembleOutline, GenerateMarkdown
  <2> QED BY <1>4, <2>4 DEF AssembleOutline, GenerateMarkdown, TypeOK
<1>5. ASSUME NEW k \in Tasks, ModelFails(k) \/ AskUser(k) PROVE TypeOK'
    BY <1>5 DEF ModelFails, AskUser, TypeOK
<1>6. ASSUME NEW k \in Tasks, Finalize(k) PROVE TypeOK'
  <2>1. Working(k) /\ task[k] \in Busy
      BY <1>6, AtWorks DEF Finalize, At
  <2> DEFINE state == IF task[k].answer = "edited"
                      THEN [task[k].state EXCEPT !.report = "edited"] ELSE task[k].state
             next == [task[k] EXCEPT !.at = "render_presentation", !.state = state,
                                     !.answer = NoAnswer]
  <2>2. state \in States
      BY <2>1 DEF Busy, States, Reports
  <2>3. next \in Busy
      BY <2>1, <2>2 DEF Busy, Nodes
  <2>4. task' = [task EXCEPT ![k] = next]
      BY <1>6 DEF Finalize
  <2>5. ckpt' \in [Threads -> [next : Nodes \cup {"new"}, state : States]]
      BY <1>6, <2>1, <2>2, CheckpointType DEF Finalize, Nodes
  <2> QED BY <1>6, <2>3, <2>4, <2>5 DEF Finalize, TypeOK
<1>7. ASSUME NEW k \in Tasks, RenderWrite(k) PROVE TypeOK'
  <2>1. task[k] \in Busy
      BY <1>7, AtWorks DEF RenderWrite, At
  <2>2. [task[k] EXCEPT !.at = "compile", !.clean = TRUE] \in Busy
      BY <2>1 DEF Busy
  <2>3. task' = [Soiled(k) EXCEPT ![k] = [task[k] EXCEPT !.at = "compile", !.clean = TRUE]]
      BY <1>7, SoiledType DEF RenderWrite
  <2>4. task' \in [Tasks -> Busy \cup {Unused, Ended}]
      BY <2>2, <2>3, SoiledType
  <2> QED BY <1>7, <2>4 DEF RenderWrite, TypeOK
<1>8. ASSUME NEW k \in Tasks, CompileReads(k) PROVE TypeOK'
  <2>1. task[k] \in Busy
      BY <1>8, AtWorks DEF CompileReads, At
  <2>2. [task[k] EXCEPT !.at = "compiling", !.source = output.typ] \in Busy
      BY <2>1 DEF Busy, TypeOK
  <2>3. task' = [task EXCEPT ![k] = [task[k] EXCEPT !.at = "compiling", !.source = output.typ]]
      BY <1>8 DEF CompileReads
  <2> QED BY <1>8, <2>2, <2>3 DEF CompileReads, TypeOK
<1>9. ASSUME NEW k \in Tasks, CompileWrites(k) PROVE TypeOK'
  <2>1. Working(k) /\ task[k] \in Busy
      BY <1>9, AtWorks DEF CompileWrites, At
  <2>2. [task[k] EXCEPT !.at = "package_zip", !.source = Nobody] \in Busy
      BY <2>1 DEF Busy, Nodes
  <2>3. task' = [Soiled(k) EXCEPT ![k] = [task[k] EXCEPT !.at = "package_zip", !.source = Nobody]]
      BY <1>9, SoiledType DEF CompileWrites
  <2>4. task' \in [Tasks -> Busy \cup {Unused, Ended}]
      BY <2>2, <2>3, SoiledType
  <2>5. ckpt' \in [Threads -> [next : Nodes \cup {"new"}, state : States]]
      BY <1>9, <2>1, CheckpointType DEF CompileWrites, Nodes, Busy
  <2>6. output' \in [typ : Tasks \cup {Nobody}, pdf : Tasks \cup {Nobody}]
      BY <1>9, <2>1 DEF CompileWrites, TypeOK, Busy
  <2> QED BY <1>9, <2>4, <2>5, <2>6 DEF CompileWrites, TypeOK
<1>10. ASSUME NEW k \in Tasks, RenderFails(k) PROVE TypeOK'
  <2>1. Working(k) /\ task[k] \in Busy
      BY <1>10, AtWorks DEF RenderFails, Unrendered
  <2> DEFINE next == [task[k] EXCEPT !.at = "package_zip", !.source = Nobody, !.clean = FALSE]
  <2>2. next \in Busy
      BY <2>1 DEF Busy, Nodes
  <2>3. task' = [task EXCEPT ![k] = next]
      BY <1>10 DEF RenderFails
  <2>4. ckpt' \in [Threads -> [next : Nodes \cup {"new"}, state : States]]
      BY <1>10, <2>1, CheckpointType DEF RenderFails, Nodes, Busy
  <2> QED BY <1>10, <2>2, <2>3, <2>4 DEF RenderFails, TypeOK
<1>11. ASSUME NEW k \in Tasks, PackageZip(k) PROVE TypeOK'
  <2>1. Working(k) /\ task[k] \in Busy
      BY <1>11, AtWorks DEF PackageZip, At
  <2> DEFINE state == [task[k].state EXCEPT !.download = k]
             next == [task[k] EXCEPT !.at = "write_artifacts", !.state = state, !.clean = FALSE]
  <2>2. state \in States
      BY <2>1 DEF Busy, States
  <2>3. next \in Busy
      BY <2>1, <2>2 DEF Busy, Nodes
  <2>4. task' = [task EXCEPT ![k] = next]
      BY <1>11 DEF PackageZip
  <2>5. ckpt' \in [Threads -> [next : Nodes \cup {"new"}, state : States]]
      BY <1>11, <2>1, <2>2, CheckpointType DEF PackageZip, Nodes
  <2>6. Collected(k) \in [report : Reports \cup {NoReport}, typ : Tasks \cup {Nobody},
                          pdf : Tasks \cup {Nobody}, clean : BOOLEAN]
      BY <2>1 DEF Collected, Busy, States, TypeOK
  <2> QED BY <1>11, <2>3, <2>4, <2>5, <2>6 DEF PackageZip, TypeOK
<1>12. ASSUME NEW k \in Tasks, WriteArtifacts(k) PROVE TypeOK'
  <2>1. Working(k) /\ task[k] \in Busy
      BY <1>12, AtWorks DEF WriteArtifacts, At
  <2>2. task[k].state \in States /\ "end" \in Nodes
      BY <2>1 DEF Busy, Nodes
  <2>3. ckpt' \in [Threads -> [next : Nodes \cup {"new"}, state : States]]
      BY <1>12, <2>1, <2>2, CheckpointType DEF WriteArtifacts
  <2> QED BY <1>12, <2>2, <2>3 DEF WriteArtifacts, TypeOK
<1>13. CASE UNCHANGED vars
    BY <1>13 DEF vars, TypeOK
<1> QED BY <1>1, <1>2, <1>3, <1>4, <1>5, <1>6, <1>7, <1>8, <1>9, <1>10, <1>11, <1>12, <1>13
        DEF Next, Work

-----------------------------------------------------------------------------
(* A step of a task moves it to a node, and perhaps the checkpoint of its  *)
(* thread with it; the other tasks stay where they are.                    *)
Same(j) ==
    /\ task'[j].thread = task[j].thread /\ task'[j].at = task[j].at
    /\ task'[j].state = task[j].state /\ task'[j].answer = task[j].answer

Move(k, next) ==
    /\ Working(k) /\ task'[k] = next /\ next \in Busy /\ next.thread = task[k].thread
    /\ \A j \in Tasks \ {k} : Working(j)' => Working(j) /\ Same(j)
    /\ \/ ckpt' = ckpt
       \/ ckpt' = [ckpt EXCEPT ![next.thread] = [next |-> next.at, state |-> next.state]]

LEMMA MoveBy ==
    ASSUME TypeOK, NEW k \in Tasks, Working(k), NEW next \in Busy,
           next.thread = task[k].thread,
           task' = [task EXCEPT ![k] = next] \/ task' = [Soiled(k) EXCEPT ![k] = next],
           ckpt' = ckpt \/ Checkpoint(k, next.at, next.state)
    PROVE  Move(k, next)
<1>1. \A j \in Tasks \ {k} : Working(j)' => Working(j) /\ Same(j)
  <2> SUFFICES ASSUME NEW j \in Tasks \ {k}, Working(j)' PROVE Working(j) /\ Same(j)
      OBVIOUS
  <2>1. CASE task' = [task EXCEPT ![k] = next]
      BY <2>1 DEF Working, Same, TypeOK
  <2>2. CASE task' = [Soiled(k) EXCEPT ![k] = next]
    <3>1. task'[j] = Soiled(k)[j]
        BY <2>2, SoiledType
    <3>2. Working(j)
        BY <3>1 DEF Soiled, Working
    <3>3. task[j] \in Busy /\ task'[j] = [task[j] EXCEPT !.clean = FALSE]
        BY <3>1, <3>2 DEF Soiled, Working, TypeOK
    <3> QED BY <3>2, <3>3 DEF Same, Busy
  <2> QED BY <2>1, <2>2
<1>2. task'[k] = next
    BY SoiledType DEF TypeOK
<1>3. \/ ckpt' = ckpt
      \/ ckpt' = [ckpt EXCEPT ![next.thread] = [next |-> next.at, state |-> next.state]]
    BY DEF Checkpoint, TypeOK
<1> QED BY <1>1, <1>2, <1>3 DEF Move

LEMMA AssembleMoves ==
    ASSUME TypeOK, NEW k \in Tasks, AssembleOutline(k)
    PROVE  Move(k, [task[k] EXCEPT !.at = "generate_markdown"])
<1>1. Working(k) /\ task[k] \in Busy
    BY AtWorks DEF AssembleOutline, At
<1> DEFINE next == [task[k] EXCEPT !.at = "generate_markdown"]
<1>2. next \in Busy /\ next.thread = task[k].thread /\ next.at = "generate_markdown"
      /\ next.state = task[k].state
    BY <1>1 DEF Busy, Nodes
<1>3. task' = [task EXCEPT ![k] = next]
    BY <1>1 DEF AssembleOutline, Step, Busy
<1>4. Checkpoint(k, next.at, next.state)
    BY <1>2 DEF AssembleOutline, Step
<1> HIDE DEF next
<1>5. Move(k, next)
    BY <1>1, <1>2, <1>3, <1>4, MoveBy
<1> QED BY <1>5 DEF next

LEMMA GenerateMoves ==
    ASSUME TypeOK, NEW k \in Tasks, GenerateMarkdown(k)
    PROVE  Move(k, [task[k] EXCEPT !.at = "request_finalization",
                                   !.state = [task[k].state EXCEPT !.report = "draft"]])
<1>1. Working(k) /\ task[k] \in Busy
    BY AtWorks DEF GenerateMarkdown, At
<1> DEFINE state == [task[k].state EXCEPT !.report = "draft"]
           next == [task[k] EXCEPT !.at = "request_finalization", !.state = state]
<1>2. state \in States
    BY <1>1 DEF Busy, States, Reports
<1>3. next \in Busy /\ next.thread = task[k].thread /\ next.at = "request_finalization"
      /\ next.state = state
    BY <1>1, <1>2 DEF Busy, Nodes
<1>4. task' = [task EXCEPT ![k] = next]
    BY DEF GenerateMarkdown, Step
<1>5. Checkpoint(k, next.at, next.state)
    BY <1>3 DEF GenerateMarkdown, Step
<1> HIDE DEF next
<1>6. Move(k, next)
    BY <1>1, <1>3, <1>4, <1>5, MoveBy
<1> QED BY <1>6 DEF next

Final(k) == IF task[k].answer = "edited" THEN [task[k].state EXCEPT !.report = "edited"]
            ELSE task[k].state

LEMMA FinalizeMoves ==
    ASSUME TypeOK, NEW k \in Tasks, Finalize(k)
    PROVE  Move(k, [task[k] EXCEPT !.at = "render_presentation", !.state = Final(k),
                                   !.answer = NoAnswer])
<1>1. Working(k) /\ task[k] \in Busy
    BY AtWorks DEF Finalize, At
<1> DEFINE next == [task[k] EXCEPT !.at = "render_presentation", !.state = Final(k),
                                   !.answer = NoAnswer]
<1>2. Final(k) \in States
    BY <1>1 DEF Busy, States, Reports, Final
<1>3. next \in Busy /\ next.thread = task[k].thread /\ next.at = "render_presentation"
      /\ next.state = Final(k)
    BY <1>1, <1>2 DEF Busy, Nodes
<1>4. task' = [task EXCEPT ![k] = next] /\ Checkpoint(k, next.at, next.state)
    BY <1>3 DEF Finalize, Final
<1> HIDE DEF next
<1>5. Move(k, next)
    BY <1>1, <1>3, <1>4, MoveBy
<1> QED BY <1>5 DEF next

LEMMA RenderWriteMoves ==
    ASSUME TypeOK, NEW k \in Tasks, RenderWrite(k)
    PROVE  Move(k, [task[k] EXCEPT !.at = "compile", !.clean = TRUE])
<1>1. Working(k) /\ task[k] \in Busy
    BY AtWorks DEF RenderWrite, At
<1> DEFINE next == [task[k] EXCEPT !.at = "compile", !.clean = TRUE]
<1>2. next \in Busy /\ next.thread = task[k].thread
    BY <1>1 DEF Busy
<1>3. task' = [Soiled(k) EXCEPT ![k] = next] /\ ckpt' = ckpt
    BY SoiledType DEF RenderWrite
<1> HIDE DEF next
<1>4. Move(k, next)
    BY <1>1, <1>2, <1>3, MoveBy
<1> QED BY <1>4 DEF next

LEMMA CompileReadsMoves ==
    ASSUME TypeOK, NEW k \in Tasks, CompileReads(k)
    PROVE  Move(k, [task[k] EXCEPT !.at = "compiling", !.source = output.typ])
<1>1. Working(k) /\ task[k] \in Busy
    BY AtWorks DEF CompileReads, At
<1> DEFINE next == [task[k] EXCEPT !.at = "compiling", !.source = output.typ]
<1>2. next \in Busy /\ next.thread = task[k].thread
    BY <1>1 DEF Busy, TypeOK
<1>3. task' = [task EXCEPT ![k] = next] /\ ckpt' = ckpt
    BY DEF CompileReads
<1> HIDE DEF next
<1>4. Move(k, next)
    BY <1>1, <1>2, <1>3, MoveBy
<1> QED BY <1>4 DEF next

LEMMA CompileWritesMoves ==
    ASSUME TypeOK, NEW k \in Tasks, CompileWrites(k)
    PROVE  Move(k, [task[k] EXCEPT !.at = "package_zip", !.source = Nobody])
<1>1. Working(k) /\ task[k] \in Busy
    BY AtWorks DEF CompileWrites, At
<1> DEFINE next == [task[k] EXCEPT !.at = "package_zip", !.source = Nobody]
<1>2. next \in Busy /\ next.thread = task[k].thread /\ next.at = "package_zip"
      /\ next.state = task[k].state
    BY <1>1 DEF Busy, Nodes
<1>3. task' = [Soiled(k) EXCEPT ![k] = next] /\ Checkpoint(k, next.at, next.state)
    BY <1>2, SoiledType DEF CompileWrites
<1> HIDE DEF next
<1>4. Move(k, next)
    BY <1>1, <1>2, <1>3, MoveBy
<1> QED BY <1>4 DEF next

LEMMA RenderFailsMoves ==
    ASSUME TypeOK, NEW k \in Tasks, RenderFails(k)
    PROVE  Move(k, [task[k] EXCEPT !.at = "package_zip", !.source = Nobody, !.clean = FALSE])
<1>1. Working(k) /\ task[k] \in Busy
    BY AtWorks DEF RenderFails, Unrendered
<1> DEFINE next == [task[k] EXCEPT !.at = "package_zip", !.source = Nobody, !.clean = FALSE]
<1>2. next \in Busy /\ next.thread = task[k].thread /\ next.at = "package_zip"
      /\ next.state = task[k].state
    BY <1>1 DEF Busy, Nodes
<1>3. task' = [task EXCEPT ![k] = next] /\ Checkpoint(k, next.at, next.state)
    BY <1>2 DEF RenderFails
<1> HIDE DEF next
<1>4. Move(k, next)
    BY <1>1, <1>2, <1>3, MoveBy
<1> QED BY <1>4 DEF next

LEMMA PackageZipMoves ==
    ASSUME TypeOK, NEW k \in Tasks, PackageZip(k)
    PROVE  Move(k, [task[k] EXCEPT !.at = "write_artifacts",
                       !.state = [task[k].state EXCEPT !.download = k], !.clean = FALSE])
<1>1. Working(k) /\ task[k] \in Busy
    BY AtWorks DEF PackageZip, At
<1> DEFINE state == [task[k].state EXCEPT !.download = k]
           next == [task[k] EXCEPT !.at = "write_artifacts", !.state = state, !.clean = FALSE]
<1>2. state \in States
    BY <1>1 DEF Busy, States
<1>3. next \in Busy /\ next.thread = task[k].thread /\ next.at = "write_artifacts"
      /\ next.state = state
    BY <1>1, <1>2 DEF Busy, Nodes
<1>4. task' = [task EXCEPT ![k] = next] /\ Checkpoint(k, next.at, next.state)
    BY <1>3 DEF PackageZip
<1> HIDE DEF next
<1>5. Move(k, next)
    BY <1>1, <1>3, <1>4, MoveBy
<1> QED BY <1>5 DEF next

-----------------------------------------------------------------------------
(* What was decided.                                                       *)
LEMMA MoveKeepsDecision ==
    ASSUME TypeOK, DecisionInv, NEW k \in Tasks, NEW next, Move(k, next),
           UNCHANGED <<published, decided, callbacks>>,
           ReportFits(next.thread, next.at, next.state), AnswerFits(next.thread, next.answer)
    PROVE  DecisionInv'
<1> USE DEF ReportFits, AnswerFits, Decided
<1>1. ASSUME NEW j \in Tasks, Working(j)'
      PROVE  /\ ReportFits(task[j].thread, task[j].at, task[j].state)'
             /\ AnswerFits(task[j].thread, task[j].answer)'
  <2>1. CASE j = k
      BY <2>1 DEF Move
  <2>2. CASE j # k
    <3>1. Working(j) /\ Same(j)
        BY <1>1, <2>2 DEF Move
    <3> QED BY <3>1 DEF DecisionInv, Same
  <2> QED BY <2>1, <2>2
<1>2. ASSUME NEW t \in Threads
      PROVE  /\ ReportFits(t, ckpt[t].next, ckpt[t].state)'
             /\ published'[t] # Blank => Decided(t, published[t].report)'
  <2>1. published[t] # Blank => Decided(t, published[t].report)
      BY DEF DecisionInv
  <2>2. CASE ckpt'[t] = ckpt[t]
      BY <2>1, <2>2 DEF DecisionInv
  <2>3. CASE ckpt'[t] # ckpt[t]
    <3>1. t = next.thread /\ ckpt'[t].next = next.at /\ ckpt'[t].state = next.state
        BY <2>3 DEF Move, TypeOK
    <3> QED BY <2>1, <3>1
  <2> QED BY <2>2, <2>3
<1> QED BY <1>1, <1>2 DEF DecisionInv

LEMMA BeginKeepsDecision ==
    ASSUME TypeOK, DecisionInv, NEW k \in Tasks, NEW t \in Threads,
           Publish(k, t) \/ UserResumes(k, t) \/ IngestionResumes(k, t)
    PROVE  DecisionInv'
<1> USE DEF ReportFits, AnswerFits, Decided, NoAnswer
<1>1. /\ published' = published /\ callbacks \subseteq callbacks'
      /\ \A s \in Threads : decided[s] \subseteq decided'[s]
    BY DEF Publish, UserResumes, IngestionResumes, TypeOK
<1>2. /\ Working(k)' /\ task'[k].thread = t /\ task'[k].state = ckpt[t].state
      /\ \A j \in Tasks \ {k} : task'[j] = task[j]
      /\ task'[k].at = IF ckpt[t].next = "new" THEN "assemble_outline" ELSE ckpt[t].next
  <2>1. CASE Publish(k, t)
      BY <2>1 DEF Publish, Begin, Working, TypeOK, Unused, Ended, Answering
  <2>2. CASE UserResumes(k, t)
      BY <2>2 DEF UserResumes, Begin, Working, TypeOK, Unused, Ended
  <2>3. CASE IngestionResumes(k, t)
    <3>1. ckpt[t].next \notin {"new", "end", "unused"}
        BY <2>3 DEF IngestionResumes, TypeOK, Nodes
    <3> QED BY <2>3, <3>1 DEF IngestionResumes, Begin, Working, TypeOK, Unused, Ended
  <2> QED BY <2>1, <2>2, <2>3
<1>3. AnswerFits(t, task[k].answer)'
    BY DEF Publish, UserResumes, IngestionResumes, Begin, TypeOK
<1>4. ReportFits(t, task'[k].at, task'[k].state)
    BY <1>2 DEF DecisionInv, Answering
<1>5. ASSUME NEW j \in Tasks, Working(j)'
      PROVE  /\ ReportFits(task[j].thread, task[j].at, task[j].state)'
             /\ AnswerFits(task[j].thread, task[j].answer)'
  <2>1. CASE j = k
      BY <1>1, <1>2, <1>3, <1>4, <2>1
  <2>2. CASE j # k
    <3>1. task'[j] = task[j] /\ Working(j) /\ task[j].thread \in Threads
        BY <1>2, <1>5, <2>2 DEF Working, TypeOK, Busy
    <3> QED BY <1>1, <3>1 DEF DecisionInv
  <2> QED BY <2>1, <2>2
<1>6. ASSUME NEW s \in Threads
      PROVE  /\ ReportFits(s, ckpt[s].next, ckpt[s].state)'
             /\ published'[s] # Blank => Decided(s, published[s].report)'
  <2>1. \/ ckpt'[s] = ckpt[s]
        \/ ckpt'[s].next = "assemble_outline"
      BY DEF Publish, UserResumes, IngestionResumes, TypeOK
  <2> QED BY <1>1, <2>1 DEF DecisionInv, Answering
<1> QED BY <1>5, <1>6 DEF DecisionInv

LEMMA DecisionStep == TypeOK /\ DecisionInv /\ [Next]_vars => DecisionInv'
<1> SUFFICES ASSUME TypeOK, DecisionInv, [Next]_vars PROVE DecisionInv'
    OBVIOUS
<1>0. \A k \in Tasks : Working(k) =>
        /\ task[k] \in Busy
        /\ ReportFits(task[k].thread, task[k].at, task[k].state)
        /\ AnswerFits(task[k].thread, task[k].answer)
    BY DEF DecisionInv, TypeOK, Working
<1>1. ASSUME NEW k \in Tasks, NEW t \in Threads,
             Publish(k, t) \/ UserResumes(k, t) \/ IngestionResumes(k, t)
      PROVE  DecisionInv'
    BY <1>1, BeginKeepsDecision
<1>2. ASSUME NEW k \in Tasks, AssembleOutline(k) PROVE DecisionInv'
  <2> DEFINE next == [task[k] EXCEPT !.at = "generate_markdown"]
  <2>1. Move(k, next) /\ Working(k)
      BY <1>2, AssembleMoves DEF Move
  <2>2. ReportFits(next.thread, next.at, next.state) /\ AnswerFits(next.thread, next.answer)
      BY <1>0, <2>1 DEF Busy, ReportFits, Answering
  <2>3. UNCHANGED <<published, decided, callbacks>>
      BY <1>2 DEF AssembleOutline
  <2> QED BY <2>1, <2>2, <2>3, MoveKeepsDecision
<1>3. ASSUME NEW k \in Tasks, GenerateMarkdown(k) PROVE DecisionInv'
  <2> DEFINE next == [task[k] EXCEPT !.at = "request_finalization",
                                     !.state = [task[k].state EXCEPT !.report = "draft"]]
  <2>1. Move(k, next) /\ Working(k)
      BY <1>3, GenerateMoves DEF Move
  <2>2. ReportFits(next.thread, next.at, next.state) /\ AnswerFits(next.thread, next.answer)
      BY <1>0, <2>1 DEF Busy, States, ReportFits, Answering
  <2>3. UNCHANGED <<published, decided, callbacks>>
      BY <1>3 DEF GenerateMarkdown
  <2> QED BY <2>1, <2>2, <2>3, MoveKeepsDecision
<1>4. ASSUME NEW k \in Tasks, ModelFails(k) \/ AskUser(k) PROVE DecisionInv'
  <2>1. /\ \A j \in Tasks : Working(j)' => Working(j) /\ task'[j] = task[j]
        /\ UNCHANGED <<ckpt, published, decided, callbacks>>
      BY <1>4 DEF ModelFails, AskUser, Working, TypeOK
  <2> QED BY <2>1 DEF DecisionInv, ReportFits, AnswerFits, Decided
<1>5. ASSUME NEW k \in Tasks, Finalize(k) PROVE DecisionInv'
  <2> DEFINE next == [task[k] EXCEPT !.at = "render_presentation", !.state = Final(k),
                                     !.answer = NoAnswer]
  <2>1. Move(k, next) /\ Working(k)
      BY <1>5, FinalizeMoves DEF Move
  <2>2. task[k] \in Busy /\ task[k].at = "request_finalization" /\ task[k].answer # NoAnswer
      BY <1>0, <1>5, <2>1 DEF Finalize, At
  <2>3. Decided(task[k].thread, Final(k).report)
    <3>1. task[k].state.report = "draft" /\ AnswerFits(task[k].thread, task[k].answer)
        BY <1>0, <2>1, <2>2 DEF ReportFits
    <3>2. CASE task[k].answer = "edited"
        BY <2>2, <3>1, <3>2 DEF Final, Decided, AnswerFits, Busy, States
    <3>3. CASE task[k].answer # "edited"
        BY <2>2, <3>1, <3>3 DEF Final, Decided, AnswerFits, Busy
    <3> QED BY <3>2, <3>3
  <2>4. ReportFits(next.thread, next.at, next.state) /\ AnswerFits(next.thread, next.answer)
      BY <2>2, <2>3 DEF Busy, ReportFits, AnswerFits, NoAnswer
  <2>5. UNCHANGED <<published, decided, callbacks>>
      BY <1>5 DEF Finalize
  <2> QED BY <2>1, <2>4, <2>5, MoveKeepsDecision
<1>6. ASSUME NEW k \in Tasks, RenderWrite(k) PROVE DecisionInv'
  <2> DEFINE next == [task[k] EXCEPT !.at = "compile", !.clean = TRUE]
  <2>1. Move(k, next) /\ Working(k)
      BY <1>6, RenderWriteMoves DEF Move
  <2>2. ReportFits(next.thread, next.at, next.state) /\ AnswerFits(next.thread, next.answer)
      BY <1>0, <1>6, <2>1 DEF Busy, ReportFits, Answering, RenderWrite, At
  <2>3. UNCHANGED <<published, decided, callbacks>>
      BY <1>6 DEF RenderWrite
  <2> QED BY <2>1, <2>2, <2>3, MoveKeepsDecision
<1>7. ASSUME NEW k \in Tasks, CompileReads(k) PROVE DecisionInv'
  <2> DEFINE next == [task[k] EXCEPT !.at = "compiling", !.source = output.typ]
  <2>1. Move(k, next) /\ Working(k)
      BY <1>7, CompileReadsMoves DEF Move
  <2>2. ReportFits(next.thread, next.at, next.state) /\ AnswerFits(next.thread, next.answer)
      BY <1>0, <1>7, <2>1 DEF Busy, ReportFits, Answering, CompileReads, At
  <2>3. UNCHANGED <<published, decided, callbacks>>
      BY <1>7 DEF CompileReads
  <2> QED BY <2>1, <2>2, <2>3, MoveKeepsDecision
<1>8. ASSUME NEW k \in Tasks, CompileWrites(k) PROVE DecisionInv'
  <2> DEFINE next == [task[k] EXCEPT !.at = "package_zip", !.source = Nobody]
  <2>1. Move(k, next) /\ Working(k)
      BY <1>8, CompileWritesMoves DEF Move
  <2>2. ReportFits(next.thread, next.at, next.state) /\ AnswerFits(next.thread, next.answer)
      BY <1>0, <1>8, <2>1 DEF Busy, ReportFits, Answering, CompileWrites, At
  <2>3. UNCHANGED <<published, decided, callbacks>>
      BY <1>8 DEF CompileWrites
  <2> QED BY <2>1, <2>2, <2>3, MoveKeepsDecision
<1>9. ASSUME NEW k \in Tasks, RenderFails(k) PROVE DecisionInv'
  <2> DEFINE next == [task[k] EXCEPT !.at = "package_zip", !.source = Nobody, !.clean = FALSE]
  <2>1. Move(k, next) /\ Working(k)
      BY <1>9, RenderFailsMoves DEF Move
  <2>2. ReportFits(next.thread, next.at, next.state) /\ AnswerFits(next.thread, next.answer)
      BY <1>0, <1>9, <2>1 DEF Busy, ReportFits, Answering, RenderFails, Unrendered
  <2>3. UNCHANGED <<published, decided, callbacks>>
      BY <1>9 DEF RenderFails
  <2> QED BY <2>1, <2>2, <2>3, MoveKeepsDecision
<1>10. ASSUME NEW k \in Tasks, PackageZip(k) PROVE DecisionInv'
  <2> DEFINE next == [task[k] EXCEPT !.at = "write_artifacts",
                         !.state = [task[k].state EXCEPT !.download = k], !.clean = FALSE]
  <2>1. Move(k, next) /\ Working(k)
      BY <1>10, PackageZipMoves DEF Move
  <2>2. ReportFits(next.thread, next.at, next.state) /\ AnswerFits(next.thread, next.answer)
      BY <1>0, <1>10, <2>1 DEF Busy, States, ReportFits, Answering, PackageZip, At
  <2>3. UNCHANGED <<published, decided, callbacks>>
      BY <1>10 DEF PackageZip
  <2> QED BY <2>1, <2>2, <2>3, MoveKeepsDecision
<1>11. ASSUME NEW k \in Tasks, WriteArtifacts(k) PROVE DecisionInv'
  <2>1. Working(k) /\ task[k] \in Busy /\ task[k].at = "write_artifacts"
      BY <1>11, AtWorks DEF WriteArtifacts, At
  <2>2. Decided(task[k].thread, task[k].state.report)
      BY <1>0, <2>1 DEF ReportFits, Answering
  <2>3. /\ \A j \in Tasks : Working(j)' => Working(j) /\ task'[j] = task[j]
        /\ UNCHANGED <<decided, callbacks>>
      BY <1>11 DEF WriteArtifacts, Working, TypeOK
  <2>4. \A t \in Threads :
           /\ published'[t] = IF t = task[k].thread THEN task[k].state ELSE published[t]
           /\ ckpt'[t] = ckpt[t] \/ (t = task[k].thread /\ ckpt'[t].next = "end"
                                     /\ ckpt'[t].state = task[k].state)
      BY <1>11, <2>1 DEF WriteArtifacts, Checkpoint, TypeOK
  <2> QED BY <2>2, <2>3, <2>4 DEF DecisionInv, ReportFits, AnswerFits, Decided
<1>12. CASE UNCHANGED vars
    BY <1>12 DEF vars, DecisionInv, ReportFits, AnswerFits, Decided, Working
<1> QED BY <1>1, <1>2, <1>3, <1>4, <1>5, <1>6, <1>7, <1>8, <1>9, <1>10, <1>11, <1>12
        DEF Next, Work

(* A thread that was resumed once was resumed by its user or an ingestion. *)
LEMMA OneResumeStep == TypeOK /\ OneResumeInv /\ [Next]_vars => OneResumeInv'
<1> SUFFICES ASSUME TypeOK, OneResumeInv, [Next]_vars PROVE OneResumeInv'
    OBVIOUS
<1>1. ASSUME NEW k \in Tasks, NEW t \in Threads, UserResumes(k, t) PROVE OneResumeInv'
  <2>1. PICK choice \in Reports : decided' = [decided EXCEPT ![t] = @ \cup {choice}]
      BY <1>1 DEF UserResumes, Reports
  <2>2. /\ resumes' = [resumes EXCEPT ![t] = @ + 1] /\ callbacks' = callbacks
        /\ resumes \in [Threads -> Nat] /\ decided \in [Threads -> SUBSET Reports]
      BY <1>1 DEF UserResumes, TypeOK
  <2>3. resumes'[t] # 0 /\ (resumes'[t] = 1 => decided'[t] = {choice} /\ t \notin callbacks)
      BY <2>1, <2>2 DEF OneResumeInv
  <2>4. \A x \in Threads \ {t} : resumes'[x] = resumes[x] /\ decided'[x] = decided[x]
      BY <2>1, <2>2
  <2> QED BY <2>2, <2>3, <2>4 DEF OneResumeInv
<1>2. ASSUME NEW k \in Tasks, NEW t \in Threads, IngestionResumes(k, t) PROVE OneResumeInv'
  <2>1. /\ resumes' = [resumes EXCEPT ![t] = @ + 1] /\ callbacks' = callbacks \cup {t}
        /\ resumes \in [Threads -> Nat] /\ decided' = decided
      BY <1>2 DEF IngestionResumes, TypeOK
  <2>2. resumes'[t] # 0 /\ (resumes'[t] = 1 => decided'[t] = {})
      BY <2>1 DEF OneResumeInv
  <2>3. \A x \in Threads \ {t} : resumes'[x] = resumes[x] /\ (x \in callbacks' <=> x \in callbacks)
      BY <2>1
  <2> QED BY <2>1, <2>2, <2>3 DEF OneResumeInv
<1>3. CASE UNCHANGED <<resumes, decided, callbacks>>
    BY <1>3 DEF OneResumeInv
<1> QED BY <1>1, <1>2, <1>3 DEF Next, Work, vars, Publish, AssembleOutline, GenerateMarkdown,
        ModelFails, AskUser, Finalize, RenderWrite, CompileReads, CompileWrites, RenderFails,
        PackageZip, WriteArtifacts

-----------------------------------------------------------------------------
(* What was packaged stays, under the number of the task that packaged it. *)
LEMMA SoiledStays ==
    ASSUME TypeOK, NEW j \in Tasks, NEW k \in Tasks
    PROVE  Soiled(k)[j].at = task[j].at
<1>1. task[j] \in Busy \/ task[j] \in {Unused, Ended}
    BY DEF TypeOK
<1> QED BY <1>1 DEF Soiled, Busy

LEMMA PackagedStays ==
    ASSUME TypeOK, [Next]_vars, NEW j \in Tasks, Packaged(j)
    PROVE  Packaged(j)' /\ zip'[j] = zip[j]
<1> USE DEF Packaged
<1>1. ASSUME NEW k \in Tasks, NEW t \in Threads,
             Publish(k, t) \/ UserResumes(k, t) \/ IngestionResumes(k, t)
      PROVE  Packaged(j)' /\ zip'[j] = zip[j]
    BY <1>1 DEF Publish, UserResumes, IngestionResumes, Begin, TypeOK, Unused
<1>2. ASSUME NEW k \in Tasks, ModelFails(k) \/ AskUser(k)
      PROVE  Packaged(j)' /\ zip'[j] = zip[j]
    BY <1>2 DEF ModelFails, AskUser, At, TypeOK
<1>3. ASSUME NEW k \in Tasks, AssembleOutline(k) \/ GenerateMarkdown(k) \/ Finalize(k)
                              \/ CompileReads(k) \/ RenderFails(k)
      PROVE  Packaged(j)' /\ zip'[j] = zip[j]
    BY <1>3 DEF AssembleOutline, GenerateMarkdown, Finalize, CompileReads, RenderFails,
                Unrendered, Step, At, TypeOK
<1>4. ASSUME NEW k \in Tasks, RenderWrite(k) \/ CompileWrites(k)
      PROVE  Packaged(j)' /\ zip'[j] = zip[j]
  <2>1. j # k
      BY <1>4 DEF RenderWrite, CompileWrites, At
  <2>2. task'[j] = Soiled(k)[j]
      BY <1>4, <2>1, SoiledType DEF RenderWrite, CompileWrites
  <2> QED BY <1>4, <2>2, SoiledStays DEF RenderWrite, CompileWrites
<1>5. ASSUME NEW k \in Tasks, PackageZip(k) \/ WriteArtifacts(k)
      PROVE  Packaged(j)' /\ zip'[j] = zip[j]
    BY <1>5 DEF PackageZip, WriteArtifacts, At, TypeOK, Ended
<1>6. CASE UNCHANGED vars
    BY <1>6 DEF vars
<1> QED BY <1>1, <1>2, <1>3, <1>4, <1>5, <1>6 DEF Next, Work

LEMMA LeadsStays ==
    ASSUME TypeOK, [Next]_vars, NEW state, Leads(state)
    PROVE  Leads(state)'
BY PackagedStays DEF Leads

LEMMA FitsStays ==
    ASSUME TypeOK, [Next]_vars, NEW node, NEW state, DownloadFits(node, state)
    PROVE  DownloadFits(node, state)'
BY LeadsStays DEF DownloadFits

(* The state of a task and of a checkpoint lead to what was packaged.      *)
LEMMA MoveKeepsDownload ==
    ASSUME TypeOK, DownloadInv, [Next]_vars, NEW k \in Tasks, NEW next, Move(k, next),
           published' = published, DownloadFits(next.at, next.state)'
    PROVE  DownloadInv'
<1>1. ASSUME NEW j \in Tasks, Working(j)'
      PROVE  DownloadFits(task[j].at, task[j].state)'
  <2>1. CASE j = k
      BY <2>1 DEF Move, DownloadFits, Leads
  <2>2. CASE j # k
    <3>1. Working(j) /\ Same(j)
        BY <1>1, <2>2 DEF Move
    <3>2. DownloadFits(task[j].at, task[j].state)
        BY <3>1 DEF DownloadInv
    <3>3. PICK node, state : node = task[j].at /\ state = task[j].state
        OBVIOUS
    <3>4. DownloadFits(node, state)'
        BY <3>2, <3>3, FitsStays
    <3> QED BY <3>1, <3>3, <3>4 DEF Same, DownloadFits, Leads
  <2> QED BY <2>1, <2>2
<1>2. ASSUME NEW t \in Threads
      PROVE  /\ DownloadFits(ckpt[t].next, ckpt[t].state)'
             /\ published'[t] # Blank => Leads(published[t])'
  <2>1. published'[t] # Blank => Leads(published[t])'
    <3>1. PICK state : state = published[t]
        OBVIOUS
    <3>2. published[t] # Blank => Leads(state)'
        BY <3>1, LeadsStays DEF DownloadInv
    <3> QED BY <3>1, <3>2 DEF Leads
  <2>2. CASE ckpt'[t] = ckpt[t]
    <3>1. DownloadFits(ckpt[t].next, ckpt[t].state)
        BY DEF DownloadInv
    <3>2. PICK node, state : node = ckpt[t].next /\ state = ckpt[t].state
        OBVIOUS
    <3>3. DownloadFits(node, state)'
        BY <3>1, <3>2, FitsStays
    <3> QED BY <2>1, <2>2, <3>2, <3>3 DEF DownloadFits, Leads
  <2>3. CASE ckpt'[t] # ckpt[t]
    <3>1. t = next.thread /\ ckpt'[t].next = next.at /\ ckpt'[t].state = next.state
        BY <2>3 DEF Move, TypeOK
    <3> QED BY <2>1, <3>1 DEF DownloadFits, Leads
  <2> QED BY <2>2, <2>3
<1> QED BY <1>1, <1>2 DEF DownloadInv

(* A state that is not written again keeps leading there; one that is is   *)
(* the state of a task whose packaging is done.                            *)
LEMMA StateStays ==
    ASSUME TypeOK, DownloadInv, [Next]_vars,
           \A j \in Tasks : Working(j)' => Working(j) /\ task'[j] = task[j],
           \A t \in Threads :
              /\ published'[t] = published[t] \/ Leads(published[t])'
              /\ ckpt'[t] = ckpt[t] \/ (ckpt'[t].next = "end" /\ Leads(ckpt[t].state)')
    PROVE  DownloadInv'
<1>1. ASSUME NEW j \in Tasks, Working(j)'
      PROVE  DownloadFits(task[j].at, task[j].state)'
  <2>1. Working(j) /\ task'[j] = task[j]
      BY <1>1
  <2>2. DownloadFits(task[j].at, task[j].state)
      BY <2>1 DEF DownloadInv
  <2>3. PICK node, state : node = task[j].at /\ state = task[j].state
      OBVIOUS
  <2>4. DownloadFits(node, state)'
      BY <2>2, <2>3, FitsStays
  <2> QED BY <2>1, <2>3, <2>4 DEF DownloadFits, Leads
<1>2. ASSUME NEW t \in Threads
      PROVE  DownloadFits(ckpt[t].next, ckpt[t].state)'
  <2>1. CASE ckpt'[t] = ckpt[t]
    <3>1. DownloadFits(ckpt[t].next, ckpt[t].state)
        BY DEF DownloadInv
    <3>2. PICK node, state : node = ckpt[t].next /\ state = ckpt[t].state
        OBVIOUS
    <3>3. DownloadFits(node, state)'
        BY <3>1, <3>2, FitsStays
    <3> QED BY <2>1, <3>2, <3>3 DEF DownloadFits, Leads
  <2>2. CASE ckpt'[t].next = "end" /\ Leads(ckpt[t].state)'
      BY <2>2 DEF DownloadFits
  <2> QED BY <2>1, <2>2
<1>3. ASSUME NEW t \in Threads, published'[t] # Blank
      PROVE  Leads(published[t])'
  <2>1. CASE published'[t] = published[t]
    <3>1. PICK state : state = published[t]
        OBVIOUS
    <3>2. Leads(state)'
        BY <1>3, <2>1, <3>1, LeadsStays DEF DownloadInv
    <3> QED BY <2>1, <3>1, <3>2 DEF Leads
  <2> QED BY <2>1
<1> QED BY <1>1, <1>2, <1>3 DEF DownloadInv

LEMMA DownloadStep == TypeOK /\ DownloadInv /\ [Next]_vars => DownloadInv'
<1> SUFFICES ASSUME TypeOK, DownloadInv, [Next]_vars PROVE DownloadInv'
    OBVIOUS
<1>0. \A k \in Tasks : Working(k) =>
        task[k] \in Busy /\ DownloadFits(task[k].at, task[k].state)
    BY DEF DownloadInv, TypeOK, Working
<1>1. ASSUME NEW k \in Tasks, NEW t \in Threads,
             Publish(k, t) \/ UserResumes(k, t) \/ IngestionResumes(k, t)
      PROVE  DownloadInv'
  <2>1. /\ published' = published /\ task'[k].state = ckpt[t].state
        /\ \A j \in Tasks \ {k} : task'[j] = task[j]
        /\ ckpt[t].next = "new" => task'[k].at = "assemble_outline"
        /\ ckpt[t].next # "new" => task'[k].at = ckpt[t].next
      BY <1>1 DEF Publish, UserResumes, IngestionResumes, Begin, TypeOK
  <2>2. DownloadFits(ckpt[t].next, ckpt[t].state)'
      <3>1. DownloadFits(ckpt[t].next, ckpt[t].state)
          BY DEF DownloadInv
      <3>2. PICK node, state : node = ckpt[t].next /\ state = ckpt[t].state
          OBVIOUS
      <3>3. DownloadFits(node, state)'
          BY <3>1, <3>2, FitsStays
      <3>4. CASE Publish(k, t)
          BY <3>1, <3>4 DEF DownloadFits, Publish, TypeOK
      <3>5. CASE ckpt' = ckpt
          BY <3>2, <3>3, <3>5 DEF DownloadFits, Leads
      <3> QED BY <1>1, <3>4, <3>5 DEF UserResumes, IngestionResumes
  <2>3. ASSUME NEW j \in Tasks, Working(j)'
        PROVE  DownloadFits(task[j].at, task[j].state)'
    <3>1. CASE j = k
      <4>1. /\ task'[j].at = ckpt'[t].next /\ task'[j].state = ckpt'[t].state
          BY <1>1, <2>1, <3>1 DEF Publish, UserResumes, IngestionResumes, TypeOK
      <4> QED BY <2>2, <4>1 DEF DownloadFits, Leads
    <3>2. CASE j # k
      <4>1. task'[j] = task[j] /\ Working(j)
          BY <2>1, <2>3, <3>2 DEF Working
      <4>2. DownloadFits(task[j].at, task[j].state)
          BY <4>1 DEF DownloadInv
      <4>3. PICK node, state : node = task[j].at /\ state = task[j].state
          OBVIOUS
      <4>4. DownloadFits(node, state)'
          BY <4>2, <4>3, FitsStays
      <4> QED BY <4>1, <4>3, <4>4 DEF DownloadFits, Leads
    <3> QED BY <3>1, <3>2
  <2>4. ASSUME NEW s \in Threads
        PROVE  /\ DownloadFits(ckpt[s].next, ckpt[s].state)'
               /\ published'[s] # Blank => Leads(published[s])'
    <3>1. published'[s] # Blank => Leads(published[s])'
      <4>1. PICK state : state = published[s]
          OBVIOUS
      <4>2. published[s] # Blank => Leads(state)'
          BY <4>1, LeadsStays DEF DownloadInv
      <4> QED BY <2>1, <4>1, <4>2 DEF Leads
    <3>2. CASE s = t
        BY <2>2, <3>1, <3>2
    <3>3. CASE s # t
      <4>1. ckpt'[s] = ckpt[s]
          BY <1>1, <3>3 DEF Publish, UserResumes, IngestionResumes, TypeOK
      <4>2. DownloadFits(ckpt[s].next, ckpt[s].state)
          BY DEF DownloadInv
      <4>3. PICK node, state : node = ckpt[s].next /\ state = ckpt[s].state
          OBVIOUS
      <4>4. DownloadFits(node, state)'
          BY <4>2, <4>3, FitsStays
      <4> QED BY <3>1, <4>1, <4>3, <4>4 DEF DownloadFits, Leads
    <3> QED BY <3>2, <3>3
  <2> QED BY <2>3, <2>4 DEF DownloadInv
<1>2. ASSUME NEW k \in Tasks, AssembleOutline(k) PROVE DownloadInv'
  <2>0. PICK next : next = [task[k] EXCEPT !.at = "generate_markdown"]
      OBVIOUS
  <2>1. Move(k, next) /\ Working(k)
      BY <1>2, <2>0, AssembleMoves DEF Move
  <2>2. DownloadFits(next.at, next.state)'
      BY <1>0, <1>2, <2>0, <2>1 DEF Busy, DownloadFits, AssembleOutline, At
  <2>3. published' = published
      BY <1>2 DEF AssembleOutline
  <2> QED BY <2>1, <2>2, <2>3, MoveKeepsDownload
<1>3. ASSUME NEW k \in Tasks, GenerateMarkdown(k) PROVE DownloadInv'
  <2>0. PICK next : next = [task[k] EXCEPT !.at = "request_finalization",
                                     !.state = [task[k].state EXCEPT !.report = "draft"]]
      OBVIOUS
  <2>1. Move(k, next) /\ Working(k)
      BY <1>3, <2>0, GenerateMoves DEF Move
  <2>2. DownloadFits(next.at, next.state)'
      BY <1>0, <1>3, <2>0, <2>1 DEF Busy, DownloadFits, States, GenerateMarkdown, At
  <2>3. published' = published
      BY <1>3 DEF GenerateMarkdown
  <2> QED BY <2>1, <2>2, <2>3, MoveKeepsDownload
<1>5. ASSUME NEW k \in Tasks, Finalize(k) PROVE DownloadInv'
  <2>0. PICK next : next = [task[k] EXCEPT !.at = "render_presentation", !.state = Final(k),
                                     !.answer = NoAnswer]
      OBVIOUS
  <2>1. Move(k, next) /\ Working(k)
      BY <1>5, <2>0, FinalizeMoves DEF Move
  <2>2. DownloadFits(next.at, next.state)'
      BY <1>0, <1>5, <2>0, <2>1 DEF Busy, DownloadFits, States, Final, Finalize, At
  <2>3. published' = published
      BY <1>5 DEF Finalize
  <2> QED BY <2>1, <2>2, <2>3, MoveKeepsDownload
<1>6. ASSUME NEW k \in Tasks, RenderWrite(k) PROVE DownloadInv'
  <2>0. PICK next : next = [task[k] EXCEPT !.at = "compile", !.clean = TRUE]
      OBVIOUS
  <2>1. Move(k, next) /\ Working(k)
      BY <1>6, <2>0, RenderWriteMoves DEF Move
  <2>2. DownloadFits(next.at, next.state)'
      BY <1>0, <1>6, <2>0, <2>1 DEF Busy, DownloadFits, RenderWrite, At
  <2>3. published' = published
      BY <1>6 DEF RenderWrite
  <2> QED BY <2>1, <2>2, <2>3, MoveKeepsDownload
<1>7. ASSUME NEW k \in Tasks, CompileReads(k) PROVE DownloadInv'
  <2>0. PICK next : next = [task[k] EXCEPT !.at = "compiling", !.source = output.typ]
      OBVIOUS
  <2>1. Move(k, next) /\ Working(k)
      BY <1>7, <2>0, CompileReadsMoves DEF Move
  <2>2. DownloadFits(next.at, next.state)'
      BY <1>0, <1>7, <2>0, <2>1 DEF Busy, DownloadFits, CompileReads, At
  <2>3. published' = published
      BY <1>7 DEF CompileReads
  <2> QED BY <2>1, <2>2, <2>3, MoveKeepsDownload
<1>8. ASSUME NEW k \in Tasks, CompileWrites(k) PROVE DownloadInv'
  <2>0. PICK next : next = [task[k] EXCEPT !.at = "package_zip", !.source = Nobody]
      OBVIOUS
  <2>1. Move(k, next) /\ Working(k)
      BY <1>8, <2>0, CompileWritesMoves DEF Move
  <2>2. DownloadFits(next.at, next.state)'
      BY <1>0, <1>8, <2>0, <2>1 DEF Busy, DownloadFits, CompileWrites, At
  <2>3. published' = published
      BY <1>8 DEF CompileWrites
  <2> QED BY <2>1, <2>2, <2>3, MoveKeepsDownload
<1>9. ASSUME NEW k \in Tasks, RenderFails(k) PROVE DownloadInv'
  <2>0. PICK next : next = [task[k] EXCEPT !.at = "package_zip", !.source = Nobody, !.clean = FALSE]
      OBVIOUS
  <2>1. Move(k, next) /\ Working(k)
      BY <1>9, <2>0, RenderFailsMoves DEF Move
  <2>2. DownloadFits(next.at, next.state)'
      BY <1>0, <1>9, <2>0, <2>1 DEF Busy, DownloadFits, RenderFails, Unrendered
  <2>3. published' = published
      BY <1>9 DEF RenderFails
  <2> QED BY <2>1, <2>2, <2>3, MoveKeepsDownload
<1>4. ASSUME NEW k \in Tasks, ModelFails(k) \/ AskUser(k) PROVE DownloadInv'
  <2>1. /\ \A j \in Tasks : Working(j)' => Working(j) /\ task'[j] = task[j]
        /\ UNCHANGED <<ckpt, published>>
      BY <1>4 DEF ModelFails, AskUser, Working, TypeOK
  <2> QED BY <2>1, StateStays
<1>10. ASSUME NEW k \in Tasks, PackageZip(k) PROVE DownloadInv'
  <2>0. PICK next : next = [task[k] EXCEPT !.at = "write_artifacts",
                         !.state = [task[k].state EXCEPT !.download = k], !.clean = FALSE]
      OBVIOUS
  <2>1. Move(k, next) /\ Working(k)
      BY <1>10, <2>0, PackageZipMoves DEF Move
  <2>2. task[k] \in Busy /\ zip'[k].report = task[k].state.report
      BY <1>0, <1>10, <2>1 DEF PackageZip, Collected, TypeOK
  <2>3. task'[k].at = "write_artifacts"
      BY <2>0, <2>1, <2>2 DEF Move, Busy
  <2>4. DownloadFits(next.at, next.state)'
      BY <2>0, <2>2, <2>3 DEF Busy, States, DownloadFits, Leads, Packaged
  <2>5. published' = published
      BY <1>10 DEF PackageZip
  <2> QED BY <2>1, <2>4, <2>5, MoveKeepsDownload
<1>11. ASSUME NEW k \in Tasks, WriteArtifacts(k) PROVE DownloadInv'
  <2>1. Working(k) /\ task[k] \in Busy /\ task[k].at = "write_artifacts"
      BY <1>11, AtWorks DEF WriteArtifacts, At
  <2>2. PICK mine : mine = task[k].state
      OBVIOUS
  <2>3. Leads(mine)'
      BY <1>0, <2>1, <2>2, LeadsStays DEF DownloadFits
  <2>4. \A j \in Tasks : Working(j)' => Working(j) /\ task'[j] = task[j]
      BY <1>11 DEF WriteArtifacts, Working, TypeOK
  <2>5. \A t \in Threads :
           /\ published'[t] = published[t] \/ published'[t] = mine
           /\ ckpt'[t] = ckpt[t] \/ (ckpt'[t].next = "end" /\ ckpt'[t].state = mine)
      BY <1>11, <2>1, <2>2 DEF WriteArtifacts, Checkpoint, TypeOK
  <2> QED BY <2>3, <2>4, <2>5, StateStays
<1>12. CASE UNCHANGED vars
    BY <1>12 DEF vars, DownloadInv, DownloadFits, Leads, Packaged, Working
<1> QED BY <1>1, <1>2, <1>3, <1>4, <1>5, <1>6, <1>7, <1>8, <1>9, <1>10, <1>11, <1>12
        DEF Next, Work

-----------------------------------------------------------------------------
(* A rendering that nobody disturbed finds its own files.                  *)
OwnZip(k) == zip[k].clean => zip[k].typ = k /\ zip[k].pdf = k
OwnTask(k) == Working(k) /\ task[k].clean => Own(k)

LEMMA SlidesStep == TypeOK /\ SlidesInv /\ [Next]_vars => SlidesInv'
<1> SUFFICES ASSUME TypeOK, SlidesInv, [Next]_vars PROVE SlidesInv'
    OBVIOUS
<1> USE DEF OwnZip, OwnTask
<1>0. \A k \in Tasks : OwnTask(k) /\ OwnZip(k)
    BY DEF SlidesInv
<1>1. ASSUME NEW k \in Tasks,
             task'[k] \in {Unused, Ended} \/ task'[k].clean = FALSE
                \/ task'[k].at \notin {"compile", "compiling", "package_zip"},
             \A j \in Tasks \ {k} : task'[j] = task[j], UNCHANGED <<output, zip>>
      PROVE  SlidesInv'
  <2>1. OwnTask(k)'
      BY <1>1 DEF Working, Own
  <2>2. ASSUME NEW j \in Tasks \ {k} PROVE OwnTask(j)'
      BY <1>0, <1>1 DEF Working, Own
  <2> QED BY <1>0, <1>1, <2>1, <2>2 DEF SlidesInv
<1>2. ASSUME NEW k \in Tasks, NEW t \in Threads,
             Publish(k, t) \/ UserResumes(k, t) \/ IngestionResumes(k, t)
      PROVE  SlidesInv'
  <2>1. task'[k].clean = FALSE
      BY <1>2 DEF Publish, UserResumes, IngestionResumes, Begin, TypeOK
  <2>2. \A j \in Tasks \ {k} : task'[j] = task[j]
      BY <1>2 DEF Publish, UserResumes, IngestionResumes, Begin, TypeOK
  <2> QED BY <1>1, <1>2, <2>1, <2>2 DEF Publish, UserResumes, IngestionResumes
<1>3. ASSUME NEW k \in Tasks, AssembleOutline(k) PROVE SlidesInv'
  <2>1. task[k] \in Busy /\ task' = [task EXCEPT ![k] = [task[k] EXCEPT
               !.at = "generate_markdown", !.state = task[k].state]]
      BY <1>3, AtWorks DEF AssembleOutline, At, Step
  <2>2. task'[k].at = "generate_markdown" /\ \A j \in Tasks \ {k} : task'[j] = task[j]
      BY <2>1 DEF Busy, TypeOK
  <2> QED BY <1>1, <1>3, <2>2 DEF AssembleOutline
<1>4. ASSUME NEW k \in Tasks, GenerateMarkdown(k) PROVE SlidesInv'
  <2>1. task[k] \in Busy /\ task' = [task EXCEPT ![k] = [task[k] EXCEPT
               !.at = "request_finalization", !.state = [task[k].state EXCEPT !.report = "draft"]]]
      BY <1>4, AtWorks DEF GenerateMarkdown, At, Step
  <2>2. task'[k].at = "request_finalization" /\ \A j \in Tasks \ {k} : task'[j] = task[j]
      BY <2>1 DEF Busy, TypeOK
  <2> QED BY <1>1, <1>4, <2>2 DEF GenerateMarkdown
<1>5. ASSUME NEW k \in Tasks, ModelFails(k) \/ AskUser(k) PROVE SlidesInv'
  <2>1. task'[k] = Unused /\ \A j \in Tasks \ {k} : task'[j] = task[j]
      BY <1>5 DEF ModelFails, AskUser, TypeOK
  <2> QED BY <1>1, <1>5, <2>1 DEF ModelFails, AskUser
<1>6. ASSUME NEW k \in Tasks, Finalize(k) PROVE SlidesInv'
  <2>1. task[k] \in Busy /\ task' = [task EXCEPT ![k] = [task[k] EXCEPT
               !.at = "render_presentation", !.state = Final(k), !.answer = NoAnswer]]
      BY <1>6, AtWorks DEF Finalize, At, Final
  <2>2. task'[k].at = "render_presentation" /\ \A j \in Tasks \ {k} : task'[j] = task[j]
      BY <2>1 DEF Busy, TypeOK
  <2> QED BY <1>1, <1>6, <2>2 DEF Finalize
<1>7. ASSUME NEW k \in Tasks, NEW next \in Busy, task' = [Soiled(k) EXCEPT ![k] = next]
      PROVE  \A j \in Tasks \ {k} : OwnTask(j)'
  <2> SUFFICES ASSUME NEW j \in Tasks \ {k}, Working(j)' PROVE task'[j].clean = FALSE
      OBVIOUS
  <2>1. task'[j] = Soiled(k)[j]
      BY <1>7, SoiledType
  <2>2. task[j] \in Busy /\ task'[j] = [task[j] EXCEPT !.clean = FALSE]
      BY <2>1 DEF Soiled, Working, TypeOK
  <2> QED BY <2>2 DEF Busy
<1>8. ASSUME NEW k \in Tasks, RenderWrite(k) PROVE SlidesInv'
  <2>1. Working(k) /\ task[k] \in Busy
      BY <1>8, AtWorks DEF RenderWrite, At
  <2> DEFINE moved == [task[k] EXCEPT !.at = "compile", !.clean = TRUE]
  <2>a. moved \in Busy /\ moved.at = "compile"
      BY <2>1 DEF Busy
  <2> HIDE DEF moved
  <2>2. PICK next \in Busy : next = moved /\ next.at = "compile"
      BY <2>a
  <2>3. task' = [Soiled(k) EXCEPT ![k] = next] /\ task'[k] = next
      BY <1>8, <2>2, SoiledType DEF RenderWrite, moved
  <2>4. OwnTask(k)'
      BY <1>8, <2>2, <2>3 DEF Own, RenderWrite, TypeOK
  <2>5. \A j \in Tasks : OwnZip(j)'
      BY <1>0, <1>8 DEF RenderWrite
  <2> QED BY <1>7, <2>3, <2>4, <2>5 DEF SlidesInv
<1>9. ASSUME NEW k \in Tasks, CompileReads(k) PROVE SlidesInv'
  <2>1. task[k] \in Busy /\ Working(k)
      BY <1>9, AtWorks DEF CompileReads, At
  <2>2. /\ task'[k].at = "compiling" /\ task'[k].source = output.typ
        /\ task'[k].clean = task[k].clean
        /\ \A j \in Tasks \ {k} : task'[j] = task[j]
      BY <1>9, <2>1 DEF CompileReads, Busy, TypeOK
  <2>3. OwnTask(k)'
      BY <1>0, <1>9, <2>1, <2>2 DEF Own, CompileReads, At
  <2>4. \A j \in Tasks \ {k} : OwnTask(j)'
      BY <1>0, <1>9, <2>2 DEF Own, Working, CompileReads
  <2> QED BY <1>0, <1>9, <2>3, <2>4 DEF SlidesInv, CompileReads
<1>10. ASSUME NEW k \in Tasks, CompileWrites(k) PROVE SlidesInv'
  <2>1. Working(k) /\ task[k] \in Busy
      BY <1>10, AtWorks DEF CompileWrites, At
  <2> DEFINE moved == [task[k] EXCEPT !.at = "package_zip", !.source = Nobody]
  <2>a. moved \in Busy /\ moved.at = "package_zip" /\ moved.clean = task[k].clean
      BY <2>1 DEF Busy, Nodes
  <2> HIDE DEF moved
  <2>2. PICK next \in Busy : next = moved /\ next.at = "package_zip" /\ next.clean = task[k].clean
      BY <2>a
  <2>3. task' = [Soiled(k) EXCEPT ![k] = next] /\ task'[k] = next
      BY <1>10, <2>2, SoiledType DEF CompileWrites, moved
  <2>4. output'.typ = output.typ /\ output'.pdf = task[k].source
      BY <1>10 DEF CompileWrites, TypeOK
  <2>5. OwnTask(k)'
      BY <1>0, <1>10, <2>1, <2>2, <2>3, <2>4 DEF Own, CompileWrites, At
  <2>6. \A j \in Tasks : OwnZip(j)'
      BY <1>0, <1>10 DEF CompileWrites
  <2> QED BY <1>7, <2>3, <2>5, <2>6 DEF SlidesInv
<1>11. ASSUME NEW k \in Tasks, RenderFails(k) PROVE SlidesInv'
  <2>1. task[k] \in Busy
      BY <1>11, AtWorks DEF RenderFails, Unrendered
  <2>2. task'[k].clean = FALSE /\ \A j \in Tasks \ {k} : task'[j] = task[j]
      BY <1>11, <2>1 DEF RenderFails, Unrendered, Busy, TypeOK
  <2> QED BY <1>1, <1>11, <2>2 DEF RenderFails, Unrendered
<1>12. ASSUME NEW k \in Tasks, PackageZip(k) PROVE SlidesInv'
  <2>1. Working(k) /\ task[k] \in Busy
      BY <1>12, AtWorks DEF PackageZip, At
  <2>2. task'[k].clean = FALSE /\ \A j \in Tasks \ {k} : task'[j] = task[j]
      BY <1>12, <2>1 DEF PackageZip, Busy, TypeOK
  <2>3. task[k].clean => output.typ = k /\ output.pdf = k
      BY <1>0, <1>12, <2>1 DEF Own, PackageZip, At
  <2>4. zip' = [zip EXCEPT ![k] = Collected(k)] /\ output' = output
      BY <1>12 DEF PackageZip
  <2>5. \A j \in Tasks : OwnZip(j)'
      BY <1>0, <2>3, <2>4 DEF Collected, TypeOK
  <2>6. \A j \in Tasks : OwnTask(j)'
      BY <1>0, <2>2, <2>4 DEF Own, Working
  <2> QED BY <2>5, <2>6 DEF SlidesInv
<1>13. ASSUME NEW k \in Tasks, WriteArtifacts(k) PROVE SlidesInv'
  <2>1. task'[k] = Ended /\ \A j \in Tasks \ {k} : task'[j] = task[j]
      BY <1>13 DEF WriteArtifacts, TypeOK
  <2> QED BY <1>1, <1>13, <2>1 DEF WriteArtifacts
<1>14. CASE UNCHANGED vars
    BY <1>14 DEF vars, SlidesInv, Own, Working
<1> QED BY <1>2, <1>3, <1>4, <1>5, <1>6, <1>8, <1>9, <1>10, <1>11, <1>12, <1>13, <1>14
        DEF Next, Work

-----------------------------------------------------------------------------
LEMMA InitPInv == Init => PInv
<1> SUFFICES ASSUME Init PROVE PInv
    OBVIOUS
<1>1. TypeOK
    BY BlankState DEF Init, TypeOK, NoZip, Reports
<1>2. DecisionInv
    BY DEF Init, DecisionInv, Working, ReportFits, Answering
<1>3. OneResumeInv
    BY DEF Init, OneResumeInv
<1>4. DownloadInv
    BY DEF Init, DownloadInv, Working, DownloadFits, Blank
<1>5. SlidesInv
    BY DEF Init, SlidesInv, Working, NoZip
<1> QED BY <1>1, <1>2, <1>3, <1>4, <1>5 DEF PInv

(* The inductive invariant: what was decided, where the states lead, and   *)
(* whose files an undisturbed rendering finds (publish/nodes.py).          *)
THEOREM PublishInvariance == Spec => []PInv
<1>1. PInv /\ [Next]_vars => PInv'
    BY TypeStep, DecisionStep, OneResumeStep, DownloadStep, SlidesStep DEF PInv
<1> QED BY InitPInv, <1>1, PTL DEF Spec

(* However many resumes run side by side, the report that is published is  *)
(* one the user asked for, and holds their edits when there was one resume *)
(* (request_finalization and write_artifacts of publish/nodes.py).         *)
THEOREM DecisionPublished == Spec => []PublishedAsDecided
<1>1. PInv => PublishedAsDecided
  <2> SUFFICES ASSUME PInv, NEW t \in Threads, published[t] # Blank
               PROVE  /\ published[t].report \in decided[t] \/ t \in callbacks
                      /\ "edited" \in decided[t] =>
                            published[t].report = "edited" \/ resumes[t] > 1
      BY DEF PublishedAsDecided
  <2>1. Decided(t, published[t].report)
      BY DEF PInv, DecisionInv
  <2>2. resumes[t] \in Nat /\ decided[t] \subseteq Reports
      BY DEF PInv, TypeOK
  <2>3. ASSUME "edited" \in decided[t], resumes[t] <= 1 PROVE published[t].report = "edited"
    <3>1. resumes[t] = 1
        BY <2>2, <2>3 DEF PInv, OneResumeInv
    <3>2. "draft" \notin decided[t] /\ t \notin callbacks
        BY <2>3, <3>1 DEF PInv, OneResumeInv
    <3> QED BY <2>1, <2>2, <3>2 DEF Decided, Reports
  <2> QED BY <2>1, <2>2, <2>3 DEF Decided
<1> QED BY PublishInvariance, <1>1, PTL

(* The artifacts lead to the ZIP of their report, and to slides of another *)
(* publication only when the rendering failed or was disturbed             *)
(* (render_presentation and package_zip of publish/nodes.py).              *)
THEOREM OwnSlides == Spec => []OwnSlidesUnlessDisturbed
<1>1. PInv => OwnSlidesUnlessDisturbed
  <2> SUFFICES ASSUME PInv, NEW t \in Threads, published[t] # Blank
               PROVE  LET k == published[t].download
                      IN  /\ zip[k].report = published[t].report
                          /\ zip[k].clean => zip[k].typ = k /\ zip[k].pdf = k
      BY DEF OwnSlidesUnlessDisturbed
  <2>1. Leads(published[t])
      BY DEF PInv, DownloadInv
  <2> QED BY <2>1 DEF Leads, PInv, SlidesInv
<1> QED BY PublishInvariance, <1>1, PTL
=============================================================================
