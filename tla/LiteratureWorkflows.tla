------------------------ MODULE LiteratureWorkflows ------------------------
(***************************************************************************)
(* backend/agent/workflows/discovery and backend/agent/workflows/          *)
(* extraction on one thread: papers are searched for, selected by the user *)
(* and ingested as documents; the extraction then reads the documents of   *)
(* the last discovery and writes notes.  The two meet in the artifacts,    *)
(* which outlive a run; the rest of a workflow's state does not.           *)
(*                                                                         *)
(* A document is the number under which the document service has filed it. *)
(* What becomes of it meanwhile (DocumentIngestion) is a step of the       *)
(* environment here.                                                       *)
(***************************************************************************)
EXTENDS Naturals, Sequences, FiniteSets

CONSTANTS Papers,      \* arXiv identifiers
          MaxRuns,     \* bound on the workflows started on the thread
          MaxDocs      \* bound on the documents made

ASSUME LiteratureAssumption == MaxRuns \in Nat /\ MaxDocs \in Nat

VARIABLES node,        \* the node that runs next, "idle" between workflows
          runs,        \* workflows started
          candidates,  \* candidate_papers
          selected,    \* selected_paper_ids, as the user ticked them
          tasks,       \* ingestion_task_ids: documents, or Failed
          pending,     \* documents that wait_for_ingestion waits for
          discovered,  \* artifacts.discovery: selected and tasks
          todo,        \* paper_ids of the extraction
          chunks,      \* retrieved_chunks: paper and document
          notes,       \* reading_notes: paper and document, or Failed
          kept,        \* artifacts.extraction.reading_notes
          docs,        \* every document made for this thread, in order
          read         \* history: papers that a note was ever written for

discoveryVars == <<candidates, selected, tasks, pending>>
extractionVars == <<todo, chunks, notes>>
artifactVars == <<discovered, kept, read>>
vars == <<node, runs, discoveryVars, extractionVars, artifactVars, docs>>

Failed == 0            \* "failed_" and the paper's identifier
Note == [paper : Papers, doc : Nat]

DiscoveryNodes == {"search", "present_candidates", "trigger_ingestion",
                   "wait_for_ingestion", "write_discovery"}
ExtractionNodes == {"check_existing_notes", "retrieve_chunks", "generate_notes",
                    "write_notes"}

TypeOK ==
    /\ node \in DiscoveryNodes \cup ExtractionNodes \cup {"idle"}
    /\ runs \in 0..MaxRuns
    /\ candidates \subseteq Papers
    /\ selected \in Seq(Papers) /\ tasks \in Seq(Nat)
    /\ pending \subseteq Nat
    /\ discovered \in [selected : Seq(Papers), tasks : Seq(Nat)]
    /\ todo \subseteq Papers
    /\ chunks \subseteq Note /\ notes \subseteq Note /\ kept \subseteq Note
    /\ docs \in Seq([paper : Papers,
                     status : {"parsing", "failed", "completed", "stored"}])
    /\ read \subseteq Papers

Init ==
    /\ node = "idle" /\ runs = 0
    /\ candidates = {} /\ selected = <<>> /\ tasks = <<>> /\ pending = {}
    /\ discovered = [selected |-> <<>>, tasks |-> <<>>]
    /\ todo = {} /\ chunks = {} /\ notes = {} /\ kept = {}
    /\ docs = <<>> /\ read = {}

(* The state of a workflow's own is gone with it.                          *)
EndWorkflow ==
    /\ node' = "idle"
    /\ candidates' = {} /\ selected' = <<>> /\ tasks' = <<>> /\ pending' = {}
    /\ todo' = {} /\ chunks' = {} /\ notes' = {}
    /\ UNCHANGED runs

PapersOf(ns) == {n.paper : n \in ns}
Elements(s) == {s[i] : i \in DOMAIN s}

-----------------------------------------------------------------------------
(* Discovery.                                                              *)

StartDiscovery ==
    /\ node = "idle" /\ runs < MaxRuns
    /\ node' = "search" /\ runs' = runs + 1
    /\ UNCHANGED <<discoveryVars, extractionVars, artifactVars, docs>>

(* expand_query, search_apis and filter_and_rank: without duplicates, and  *)
(* without the papers that could not be evaluated.                         *)
Search ==
    /\ node = "search"
    /\ node' = "present_candidates"
    /\ candidates' \in SUBSET Papers
    /\ UNCHANGED <<runs, selected, tasks, pending, extractionVars, artifactVars, docs>>

Selections(C) ==
    {s \in UNION {[1..n -> C] : n \in 0..Cardinality(C)} :
        \A i, j \in DOMAIN s : s[i] = s[j] => i = j}

(* The answer to the interrupt; nothing if the list was closed.  The row of*)
(* feedback the node tries to write on the way is read by no one, and its  *)
(* failure is only logged.                                                 *)
PresentCandidates ==
    /\ node = "present_candidates"
    /\ node' = "trigger_ingestion"
    /\ selected' \in Selections(candidates)
    /\ UNCHANGED <<runs, candidates, tasks, pending, extractionVars, artifactVars, docs>>

NextPaper == selected[Len(tasks) + 1]
Triggering == node = "trigger_ingestion" /\ Len(tasks) < Len(selected)
File(p) ==
    /\ Len(docs) < MaxDocs
    /\ docs' = Append(docs, [paper |-> p, status |-> "parsing"])
OnlyTasks == UNCHANGED <<node, runs, candidates, selected, pending, extractionVars, artifactVars>>

(* One POST to /documents/from-arxiv.                                      *)
TriggerPaper ==
    /\ Triggering
    /\ File(NextPaper)
    /\ tasks' = Append(tasks, Len(docs) + 1)
    /\ OnlyTasks

(* It fails, or its answer is late: the document may exist all the same.   *)
TriggerFails ==
    /\ Triggering
    /\ UNCHANGED docs \/ File(NextPaper)
    /\ tasks' = Append(tasks, Failed)
    /\ OnlyTasks

(* Broken: the failed ones are filtered out here and not where the         *)
(* documents are waited for.                                               *)
TriggerDoneCompact ==
    /\ node = "trigger_ingestion" /\ Len(tasks) = Len(selected)
    /\ node' = "wait_for_ingestion"
    /\ tasks' = SelectSeq(tasks, LAMBDA d : d # Failed)
    /\ pending' = Elements(tasks')
    /\ UNCHANGED <<runs, candidates, selected, extractionVars, artifactVars, docs>>

TriggerDone ==
    /\ node = "trigger_ingestion" /\ Len(tasks) = Len(selected)
    /\ node' = "wait_for_ingestion"
    /\ pending' = Elements(tasks) \ {Failed}
    /\ UNCHANGED <<runs, candidates, selected, tasks, extractionVars, artifactVars, docs>>

(* One GET of /documents/{id}/status; one that is answered with another    *)
(* status or fails, as for a deleted document, changes nothing.            *)
Poll ==
    /\ node = "wait_for_ingestion"
    /\ \E d \in pending :
         /\ docs[d].status \in {"completed", "stored", "failed"}
         /\ pending' = pending \ {d}
    /\ UNCHANGED <<node, runs, candidates, selected, tasks, extractionVars, artifactVars, docs>>

(* Broken: no deadline.                                                    *)
WaitForAll ==
    /\ node = "wait_for_ingestion" /\ pending = {}
    /\ node' = "write_discovery"
    /\ UNCHANGED <<runs, discoveryVars, extractionVars, artifactVars, docs>>

(* Nothing is pending any more, or the deadline has passed.                *)
WaitEnds ==
    /\ node = "wait_for_ingestion"
    /\ node' = "write_discovery"
    /\ UNCHANGED <<runs, discoveryVars, extractionVars, artifactVars, docs>>

(* The lists of an earlier discovery are replaced.                         *)
WriteDiscovery ==
    /\ node = "write_discovery"
    /\ EndWorkflow
    /\ discovered' = [selected |-> selected, tasks |-> tasks]
    /\ UNCHANGED <<kept, read, docs>>

-----------------------------------------------------------------------------
(* Extraction.                                                             *)

StartExtraction ==
    /\ node = "idle" /\ runs < MaxRuns
    /\ node' = "check_existing_notes" /\ runs' = runs + 1
    /\ UNCHANGED <<discoveryVars, extractionVars, artifactVars, docs>>

(* wait_rag_ready, which only looks into the artifacts, and the check.     *)
CheckExistingNotes ==
    /\ node = "check_existing_notes"
    /\ todo' = Elements(discovered.selected) \ PapersOf(kept)
    /\ node' = IF todo' = {} THEN "write_notes" ELSE "retrieve_chunks"
    /\ UNCHANGED <<runs, discoveryVars, chunks, notes, artifactVars, docs>>

(* zip(selected_ids, ingestion_ids) without the failed ones.               *)
DocumentsOf(p) ==
    {discovered.tasks[i] : i \in {j \in DOMAIN discovered.selected :
        j \in DOMAIN discovered.tasks /\ discovered.selected[j] = p}} \ {Failed}

-----------------------------------------------------------------------------
(* RAGEngine.retrieve, for a question about evidence.  The rows of a       *)
(* document are told apart by nothing but the document.                    *)

(* An empty list of documents filters nothing.                             *)
DocumentFilter(ids) == IF ids = {} THEN DOMAIN docs ELSE ids

(* Documents with rows in the tables that are searched.                    *)
Searched(ids) == {d \in DocumentFilter(ids) : docs[d].status = "stored"}

(* The hits of the search by vector and of that by keyword, merged by      *)
(* rank.  Either may miss: rows without text have no vector.               *)
Merged(byVector, byKeyword) == byVector \cup byKeyword

(* The reranker keeps the best rows, one at least.                         *)
Reranked(coarse) == {best \in SUBSET coarse : coarse # {} => best # {}}

(* The answers that retrieve can give.                                     *)
Retrieved(ids) ==
    UNION {Reranked(Merged(v, k)) : v \in SUBSET Searched(ids), k \in SUBSET Searched(ids)}

(* A row becomes a chunk, filed under the paper it was retrieved for.      *)
Chunk(p, d) == [paper |-> p, doc |-> d]

-----------------------------------------------------------------------------
(* Papers with a document are retrieved for, one after the other.          *)
Retrievable == {p \in todo : DocumentsOf(p) # {}}

ChunksFrom(found) == UNION {{Chunk(p, d) : d \in found[p]} : p \in DOMAIN found}

Answers(papers) ==
    {found \in [papers -> SUBSET DOMAIN docs] :
        \A p \in papers : found[p] \in Retrieved(DocumentsOf(p))}

(* Broken: a paper without a document is not read at all.                  *)
RetrieveChunksOrDrop ==
    /\ node = "retrieve_chunks"
    /\ node' = "generate_notes"
    /\ todo' = Retrievable
    /\ \E found \in Answers(Retrievable) : chunks' = ChunksFrom(found)
    /\ UNCHANGED <<runs, discoveryVars, notes, artifactVars, docs>>

(* A paper without a document, or for which nothing is found, has no       *)
(* chunks.  An error of the engine ends the run.                           *)
RetrieveChunks ==
    /\ node = "retrieve_chunks"
    /\ node' = "generate_notes"
    /\ \E found \in Answers(Retrievable) : chunks' = ChunksFrom(found)
    /\ UNCHANGED <<runs, discoveryVars, todo, notes, artifactVars, docs>>

(* A note from the chunks of the paper, or from its abstract.  cross_      *)
(* compare and build_glossary work on the notes.                           *)
GenerateNotes ==
    /\ node = "generate_notes"
    /\ node' = "write_notes"
    /\ notes' = chunks \cup {[paper |-> p, doc |-> Failed] : p \in todo \ PapersOf(chunks)}
    /\ UNCHANGED <<runs, discoveryVars, todo, chunks, artifactVars, docs>>

(* The list is replaced by the notes of this extraction, if there are any  *)
(* or not.                                                                 *)
WriteNotes ==
    /\ node = "write_notes"
    /\ EndWorkflow
    /\ kept' = notes
    /\ read' = read \cup PapersOf(notes)
    /\ UNCHANGED <<discovered, docs>>

-----------------------------------------------------------------------------
(* A node fails, the run is cancelled, or a message starts another run     *)
(* while the list of candidates is shown.                                  *)
StopRun ==
    /\ node # "idle"
    /\ EndWorkflow
    /\ UNCHANGED <<artifactVars, docs>>

Become(d, status) ==
    /\ docs' = [docs EXCEPT ![d].status = status]
    /\ UNCHANGED <<node, runs, discoveryVars, extractionVars, artifactVars>>

(* The ingestion parses and, in a transaction of its own, stores; the user *)
(* retries.  One that is deleted is like one that is never completed.      *)
Ingestion ==
    \E d \in DOMAIN docs :
        \/ docs[d].status = "parsing" /\ (Become(d, "failed") \/ Become(d, "completed"))
        \/ docs[d].status = "completed" /\ Become(d, "stored")
        \/ docs[d].status = "failed" /\ Become(d, "parsing")

DiscoveryStep == Search \/ TriggerPaper \/ TriggerFails \/ TriggerDone \/ WaitEnds
                 \/ WriteDiscovery
ExtractionStep == CheckExistingNotes \/ RetrieveChunks \/ GenerateNotes \/ WriteNotes

Next ==
    \/ StartDiscovery \/ PresentCandidates \/ DiscoveryStep \/ Poll
    \/ StartExtraction \/ ExtractionStep
    \/ StopRun \/ Ingestion

(* Requests return or fail, and the deadline of the wait passes.  Nothing  *)
(* obliges the user to select, or a document to be completed.              *)
Spec == Init /\ [][Next]_vars /\ WF_vars(DiscoveryStep) /\ WF_vars(ExtractionStep)

-----------------------------------------------------------------------------
(* Correctness.                                                            *)

(* Safety.  A note that cites a document is a note on the paper which that *)
(* document was made from, also when some of the papers failed, answers    *)
(* were lost, runs were stopped half-way or several discoveries followed   *)
(* each other: the two lists that zip() pairs stay aligned.                *)
NotesAreGrounded ==
    \A n \in notes \cup kept :
        n.doc # Failed => n.doc \in DOMAIN docs /\ docs[n.doc].paper = n.paper

(* Safety.  When an extraction comes to its end, each paper selected last  *)
(* has been read by it or by an earlier one, whatever became of its        *)
(* document; none is skipped for want of one.                              *)
SelectedAreRead ==
    node = "write_notes" => Elements(discovered.selected) \subseteq read \cup PapersOf(notes)

(* Liveness.  A workflow ends or waits for its user, even when a document  *)
(* it waits for is never completed or is deleted meanwhile (the deadline   *)
(* of wait_for_ingestion).                                                 *)
WorkflowEnds == node # "idle" ~> node \in {"idle", "present_candidates"}

-----------------------------------------------------------------------------
(* The inductive invariant behind the safety properties.                   *)

Aligned(papers, ds) ==
    /\ Len(ds) <= Len(papers)
    /\ \A i \in DOMAIN ds : ds[i] # Failed =>
          ds[i] \in DOMAIN docs /\ docs[ds[i]].paper = papers[i]

AlignedInv ==
    /\ tasks # <<>> =>
          node \in {"trigger_ingestion", "wait_for_ingestion", "write_discovery"}
    /\ Aligned(selected, tasks)
    /\ Aligned(discovered.selected, discovered.tasks)
    /\ \A c \in chunks : c.doc \in DOMAIN docs /\ docs[c.doc].paper = c.paper

ReadInv ==
    /\ PapersOf(kept) \subseteq read
    /\ node \in {"retrieve_chunks", "generate_notes"} =>
          Elements(discovered.selected) \subseteq read \cup todo

LInv == TypeOK /\ AlignedInv /\ ReadInv /\ NotesAreGrounded /\ SelectedAreRead
=============================================================================
