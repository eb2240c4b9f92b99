--------------------------- MODULE PublishWorkflow ---------------------------
(***************************************************************************)
(* The publish workflow: backend/agent/workflows/publish, with the resumes *)
(* that answer its interrupt, the Typst renderer it calls and the callback *)
(* of backend/workers/tasks/ingest_document.py.                            *)
(*                                                                         *)
(* Every run or resume of a thread is a task of its own, which takes up the*)
(* thread's last checkpoint; the nodes run in threads of a pool, so that   *)
(* the tasks interleave between them, and all tasks render into the one    *)
(* directory PPT_OUTPUT_DIR.  Files and reports are known by who made them.*)
(***************************************************************************)
EXTENDS Naturals, FiniteSets

CONSTANTS Threads,
          MaxTasks,        \* bound on the tasks that run or have published
          MaxCallbacks     \* bound on the threads an ingestion calls back

ASSUME PublishAssumption == MaxTasks \in Nat /\ MaxCallbacks \in Nat

Tasks == 1..MaxTasks

VARIABLES ckpt,       \* the last checkpoint of a thread: its next node, its state
          task,       \* what a run or resume is at, and its state
          output,     \* whose slides presentation.typ and presentation.pdf hold
          zip,        \* what a task packaged
          published,  \* artifacts["publish"]: the report, who packaged the ZIP
          decided,    \* reports the user asked for, by an answer to the card
          resumes,    \* number of resumes of a thread
          callbacks   \* the threads an ingestion resumed

vars == <<ckpt, task, output, zip, published, decided, resumes, callbacks>>

Nodes == {"assemble_outline", "generate_markdown", "request_finalization",
          "render_presentation", "package_zip", "write_artifacts", "end"}

Nobody == 0
NoReport == "none"
Reports == {"draft", "edited"}
Blank == [report |-> NoReport, download |-> Nobody]
NoZip == [report |-> NoReport, typ |-> Nobody, pdf |-> Nobody, clean |-> FALSE]
NoAnswer == "none"
Unused == [at |-> "unused"]
Ended == [at |-> "end"]

Init ==
    /\ ckpt = [t \in Threads |-> [next |-> "new", state |-> Blank]]
    /\ task = [k \in Tasks |-> Unused]
    /\ output = [typ |-> Nobody, pdf |-> Nobody]
    /\ zip = [k \in Tasks |-> NoZip]
    /\ published = [t \in Threads |-> Blank]
    /\ decided = [t \in Threads |-> {}]
    /\ resumes = [t \in Threads |-> 0]
    /\ callbacks = {}

-----------------------------------------------------------------------------
(* A run or resume: a task that takes up the checkpoint.  An answer is     *)
(* kept for the next call of interrupt() (LangGraph's Command).  A task  *)
(* takes the first free number; one that stops at the interrupt or fails   *)
(* before it has rendered anything frees its own.                          *)
Begin(k, t, node, answer) ==
    /\ task[k] = Unused /\ \A j \in 1..(k - 1) : task[j] # Unused
    /\ task' = [task EXCEPT ![k] =
                  [at |-> node, thread |-> t, state |-> ckpt[t].state, answer |-> answer,
                   source |-> Nobody, clean |-> FALSE]]

Publish(k, t) ==
    /\ ckpt[t].next = "new"
    /\ Begin(k, t, "assemble_outline", NoAnswer)
    /\ ckpt' = [ckpt EXCEPT ![t].next = "assemble_outline"]
    /\ UNCHANGED <<output, zip, published, decided, resumes, callbacks>>

(* The card of the interrupt, or the canvas: approve, or submit what the   *)
(* store holds of the editor (when that is nothing, it approves).          *)
UserResumes(k, t) ==
    /\ ckpt[t].next = "request_finalization"
    /\ \E answer \in {"approve", "edited"} :
          /\ Begin(k, t, ckpt[t].next, answer)
          /\ decided' = [decided EXCEPT ![t] =
                           @ \cup {IF answer = "edited" THEN "edited" ELSE "draft"}]
    /\ resumes' = [resumes EXCEPT ![t] = @ + 1]
    /\ UNCHANGED <<ckpt, output, zip, published, callbacks>>

(* ingest_document, after it has stored a document of the thread: whatever *)
(* the thread is doing.                                                    *)
IngestionResumes(k, t) ==
    /\ ckpt[t].next \notin {"new", "end"}
    /\ t \notin callbacks /\ Cardinality(callbacks) < MaxCallbacks
    /\ Begin(k, t, ckpt[t].next, "ingestion_complete")
    /\ callbacks' = callbacks \cup {t}
    /\ resumes' = [resumes EXCEPT ![t] = @ + 1]
    /\ UNCHANGED <<ckpt, output, zip, published, decided>>

-----------------------------------------------------------------------------
(* A node is done: the task goes on, and its state is checkpointed.  Once  *)
(* a task of the thread has left the workflow, it is not resumed from the  *)
(* checkpoints of another any more.                                        *)
Checkpoint(k, node, state) ==
    ckpt' = [ckpt EXCEPT ![task[k].thread] =
               IF @.next = "end" THEN @ ELSE [next |-> node, state |-> state]]

Step(k, node, state) ==
    /\ task' = [task EXCEPT ![k].at = node, ![k].state = state]
    /\ Checkpoint(k, node, state)

At(k, node) == task[k].at = node

(* assemble_outline, generate_markdown: the model answers, or the run fails.*)
AssembleOutline(k) ==
    /\ At(k, "assemble_outline")
    /\ Step(k, "generate_markdown", task[k].state)
    /\ UNCHANGED <<output, zip, published, decided, resumes, callbacks>>

GenerateMarkdown(k) ==
    /\ At(k, "generate_markdown")
    /\ Step(k, "request_finalization", [task[k].state EXCEPT !.report = "draft"])
    /\ UNCHANGED <<output, zip, published, decided, resumes, callbacks>>

ModelFails(k) ==
    /\ At(k, "assemble_outline") \/ At(k, "generate_markdown")
    /\ task' = [task EXCEPT ![k] = Unused]
    /\ UNCHANGED <<ckpt, output, zip, published, decided, resumes, callbacks>>

(* request_finalization stops the task, or takes the answer: a non-empty   *)
(* modified_markdown replaces the report, anything else approves it.       *)
AskUser(k) ==
    /\ At(k, "request_finalization") /\ task[k].answer = NoAnswer
    /\ task' = [task EXCEPT ![k] = Unused]
    /\ UNCHANGED <<ckpt, output, zip, published, decided, resumes, callbacks>>

(* Broken: the edits are kept apart and never become the report.           *)
FinalizeKeepsDraft(k) ==
    /\ At(k, "request_finalization") /\ task[k].answer # NoAnswer
    /\ task' = [task EXCEPT ![k].at = "render_presentation", ![k].answer = NoAnswer]
    /\ Checkpoint(k, "render_presentation", task[k].state)
    /\ UNCHANGED <<output, zip, published, decided, resumes, callbacks>>

Finalize(k) ==
    /\ At(k, "request_finalization") /\ task[k].answer # NoAnswer
    /\ LET state == IF task[k].answer = "edited"
                    THEN [task[k].state EXCEPT !.report = "edited"] ELSE task[k].state
       IN  /\ task' = [task EXCEPT ![k].at = "render_presentation", ![k].state = state,
                                   ![k].answer = NoAnswer]
           /\ Checkpoint(k, "render_presentation", state)
    /\ UNCHANGED <<output, zip, published, decided, resumes, callbacks>>

-----------------------------------------------------------------------------
(* render_presentation.  clean: nothing but this task's own rendering has  *)
(* touched the directory since it wrote its source.                        *)
Soiled(k) ==
    [j \in Tasks |-> IF j # k /\ task[j] \notin {Unused, Ended} THEN [task[j] EXCEPT !.clean = FALSE]
                                                  ELSE task[j]]

(* Broken: a source that is already there is not written again.            *)
RenderWriteOnce(k) ==
    /\ At(k, "render_presentation")
    /\ output' = [output EXCEPT !.typ = IF @ = Nobody THEN k ELSE @]
    /\ task' = [Soiled(k) EXCEPT ![k].at = "compile", ![k].clean = TRUE]
    /\ UNCHANGED <<ckpt, zip, published, decided, resumes, callbacks>>

RenderWrite(k) ==
    /\ At(k, "render_presentation")
    /\ output' = [output EXCEPT !.typ = k]
    /\ task' = [Soiled(k) EXCEPT ![k].at = "compile", ![k].clean = TRUE]
    /\ UNCHANGED <<ckpt, zip, published, decided, resumes, callbacks>>

(* typst reads the source, whoever wrote it last, and writes the PDF.      *)
CompileReads(k) ==
    /\ At(k, "compile")
    /\ task' = [task EXCEPT ![k].at = "compiling", ![k].source = output.typ]
    /\ UNCHANGED <<ckpt, output, zip, published, decided, resumes, callbacks>>

CompileWrites(k) ==
    /\ At(k, "compiling")
    /\ output' = [output EXCEPT !.pdf = task[k].source]
    /\ task' = [Soiled(k) EXCEPT ![k].at = "package_zip", ![k].source = Nobody]
    /\ Checkpoint(k, "package_zip", task[k].state)
    /\ UNCHANGED <<zip, published, decided, resumes, callbacks>>

(* The renderer stops, with what the directory holds left as it is: a slide*)
(* has no known layout or not the content of its layout, the source cannot *)
(* be written, or typst is not installed, fails or times out.              *)
Unrendered(k) == task[k].at \in {"render_presentation", "compile", "compiling"}

(* Broken: the exception of the renderer ends the run.                     *)
RenderFailsRun(k) ==
    /\ Unrendered(k)
    /\ task' = [task EXCEPT ![k] = Unused]
    /\ UNCHANGED <<ckpt, output, zip, published, decided, resumes, callbacks>>

(* The node catches it, and the workflow goes on without slides of its own.*)
RenderFails(k) ==
    /\ Unrendered(k)
    /\ task' = [task EXCEPT ![k].at = "package_zip", ![k].source = Nobody, ![k].clean = FALSE]
    /\ Checkpoint(k, "package_zip", task[k].state)
    /\ UNCHANGED <<output, zip, published, decided, resumes, callbacks>>

(* package_zip takes what the directory holds, whoever rendered it, under a*)
(* key of its own (clean is remembered for the properties).  The papers and*)
(* the outputs of the sandbox it adds are those of the artifacts the run   *)
(* began with: no task of the workflow changes them.                       *)
Collected(k) ==
    [report |-> task[k].state.report, typ |-> output.typ, pdf |-> output.pdf,
     clean |-> task[k].clean]

PackageZip(k) ==
    /\ At(k, "package_zip")
    /\ zip' = [zip EXCEPT ![k] = Collected(k)]
    /\ LET state == [task[k].state EXCEPT !.download = k]
       IN  /\ task' = [task EXCEPT ![k].at = "write_artifacts", ![k].state = state,
                                   ![k].clean = FALSE]
           /\ Checkpoint(k, "write_artifacts", state)
    /\ UNCHANGED <<output, published, decided, resumes, callbacks>>

WriteArtifacts(k) ==
    /\ At(k, "write_artifacts")
    /\ published' = [published EXCEPT ![task[k].thread] = task[k].state]
    /\ task' = [task EXCEPT ![k] = Ended]
    /\ Checkpoint(k, "end", task[k].state)
    /\ UNCHANGED <<output, zip, decided, resumes, callbacks>>

Work(k) ==
    \/ AssembleOutline(k) \/ GenerateMarkdown(k) \/ ModelFails(k)
    \/ AskUser(k) \/ Finalize(k)
    \/ RenderWrite(k) \/ CompileReads(k) \/ CompileWrites(k) \/ RenderFails(k)
    \/ PackageZip(k) \/ WriteArtifacts(k)

Next ==
    \E k \in Tasks :
        \/ Work(k)
        \/ \E t \in Threads : Publish(k, t) \/ UserResumes(k, t) \/ IngestionResumes(k, t)

(* A node whose task runs gets done: the pool runs it, the model and the   *)
(* compiler answer or time out.                                            *)
Spec == Init /\ [][Next]_vars /\ \A k \in Tasks : WF_vars(Work(k))

-----------------------------------------------------------------------------
States == [report : Reports \cup {NoReport}, download : Tasks \cup {Nobody}]
Busy == [at : (Nodes \ {"end"}) \cup {"compile", "compiling"}, thread : Threads, state : States,
         answer : {NoAnswer, "approve", "edited", "ingestion_complete"},
         source : Tasks \cup {Nobody}, clean : BOOLEAN]

TypeOK ==
    /\ ckpt \in [Threads -> [next : Nodes \cup {"new"}, state : States]]
    /\ task \in [Tasks -> Busy \cup {Unused, Ended}]
    /\ output \in [typ : Tasks \cup {Nobody}, pdf : Tasks \cup {Nobody}]
    /\ zip \in [Tasks -> [report : Reports \cup {NoReport}, typ : Tasks \cup {Nobody},
                          pdf : Tasks \cup {Nobody}, clean : BOOLEAN]]
    /\ published \in [Threads -> States]
    /\ decided \in [Threads -> SUBSET Reports]
    /\ resumes \in [Threads -> Nat]
    /\ callbacks \subseteq Threads

(* The report that is published is one the user decided on in an answer to *)
(* the card, unless the ingestion of a document answered in their place;   *)
(* and the user's edits are in it unless the thread was resumed twice (two *)
(* resumes of one interrupt, or the ingestion's, run side by side and the  *)
(* last to end wins).                                                      *)
PublishedAsDecided ==
    \A t \in Threads :
        published[t] # Blank =>
            /\ published[t].report \in decided[t] \/ t \in callbacks
            /\ "edited" \in decided[t] => published[t].report = "edited" \/ resumes[t] > 1

(* The artifacts of a thread lead to the ZIP of the report they show, and  *)
(* to slides of another publication only when its own rendering failed or  *)
(* another rendered between its writing the source and its packaging: the  *)
(* directory is shared, the stale files of earlier publications stay.      *)
OwnSlidesUnlessDisturbed ==
    \A t \in Threads :
        published[t] # Blank =>
            LET k == published[t].download
            IN  /\ zip[k].report = published[t].report
                /\ zip[k].clean => zip[k].typ = k /\ zip[k].pdf = k

(* An answer of the user ends in a published report, with slides or not:   *)
(* no failure of the rendering keeps it from them.                         *)
AnsweredIsPublished ==
    \A t \in Threads : decided[t] # {} ~> published[t] # Blank

-----------------------------------------------------------------------------
(* The inductive invariants behind the two safety properties.  An answered *)
(* report of a thread was decided on, or an ingestion answered; and a      *)
(* thread resumed once was resumed by one or the other.                    *)
Working(k) == task[k] \notin {Unused, Ended}
Answering == {"render_presentation", "compile", "compiling", "package_zip",
              "write_artifacts", "end"}

Decided(t, report) == report \in decided[t] \/ t \in callbacks

ReportFits(t, node, state) ==
    /\ node = "request_finalization" => state.report = "draft"
    /\ node \in Answering => Decided(t, state.report)

AnswerFits(t, answer) ==
    /\ answer = "ingestion_complete" => t \in callbacks
    /\ answer = "approve" => "draft" \in decided[t]
    /\ answer = "edited" => "edited" \in decided[t]

DecisionInv ==
    /\ \A k \in Tasks : Working(k) =>
          /\ ReportFits(task[k].thread, task[k].at, task[k].state)
          /\ AnswerFits(task[k].thread, task[k].answer)
    /\ \A t \in Threads :
          /\ ReportFits(t, ckpt[t].next, ckpt[t].state)
          /\ published[t] # Blank => Decided(t, published[t].report)

OneResumeInv ==
    \A t \in Threads :
        /\ resumes[t] = 0 => decided[t] = {} /\ t \notin callbacks
        /\ resumes[t] = 1 /\ "edited" \in decided[t] =>
              "draft" \notin decided[t] /\ t \notin callbacks

(* The ZIP a state refers to was packaged, once, with the report of that   *)
(* state; and a task that was not disturbed finds its own files.           *)
Packaged(k) == task[k].at \in {"write_artifacts", "end"}
Leads(state) ==
    /\ state.download \in Tasks /\ Packaged(state.download)
    /\ zip[state.download].report = state.report

DownloadFits(node, state) ==
    IF node \in {"write_artifacts", "end"} THEN Leads(state) ELSE state.download = Nobody

DownloadInv ==
    /\ \A k \in Tasks : Working(k) => DownloadFits(task[k].at, task[k].state)
    /\ \A t \in Threads : /\ DownloadFits(ckpt[t].next, ckpt[t].state)
                          /\ published[t] # Blank => Leads(published[t])

Own(k) ==
    /\ task[k].at \in {"compile", "compiling", "package_zip"} => output.typ = k
    /\ task[k].at = "compiling" => task[k].source = k
    /\ task[k].at = "package_zip" => output.pdf = k

SlidesInv ==
    \A k \in Tasks : /\ Working(k) /\ task[k].clean => Own(k)
                     /\ zip[k].clean => zip[k].typ = k /\ zip[k].pdf = k

PInv == TypeOK /\ DecisionInv /\ OneResumeInv /\ DownloadInv /\ SlidesInv
=============================================================================
