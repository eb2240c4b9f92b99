---------------------- MODULE LiteratureWorkflows_proofs ----------------------
(***************************************************************************)
(* Theorems about discovery and extraction on one thread, for any set of   *)
(* papers and any number of workflows and documents.                       *)
(***************************************************************************)
EXTENDS LiteratureWorkflows, TLAPS

USE LiteratureAssumption

Statuses == {"parsing", "failed", "completed", "stored"}
Document == [paper : Papers, status : Statuses]

-----------------------------------------------------------------------------
(* What the document service does to the list of documents: it only grows, *)
(* and a document stays with its paper.                                    *)
Grows(old, new) ==
    /\ DOMAIN old \subseteq DOMAIN new
    /\ \A d \in DOMAIN old : new[d].paper = old[d].paper

LEMMA FileGrows ==
    ASSUME docs \in Seq(Document), NEW p \in Papers, File(p)
    PROVE  /\ docs' \in Seq(Document) /\ Grows(docs, docs')
           /\ Len(docs) + 1 \in DOMAIN docs' /\ docs'[Len(docs) + 1].paper = p
<1>1. [paper |-> p, status |-> "parsing"] \in Document
    BY DEF Document, Statuses
<1>2. docs' = Append(docs, [paper |-> p, status |-> "parsing"])
    BY DEF File
<1>3. /\ docs' \in Seq(Document) /\ Len(docs) \in Nat
      /\ DOMAIN docs = 1..Len(docs) /\ DOMAIN docs' = 1..Len(docs) + 1
      /\ \A i \in 1..Len(docs) : docs'[i] = docs[i]
      /\ docs'[Len(docs) + 1] = [paper |-> p, status |-> "parsing"]
    BY <1>1, <1>2
<1> QED BY <1>3 DEF Grows

LEMMA BecomeGrows ==
    ASSUME docs \in Seq(Document), NEW d \in DOMAIN docs, NEW st \in Statuses, Become(d, st)
    PROVE  docs' \in Seq(Document) /\ Grows(docs, docs')
<1>1. docs' = [docs EXCEPT ![d].status = st]
    BY DEF Become
<1>2. docs[d] \in Document
    OBVIOUS
<1>3. [docs[d] EXCEPT !.status = st] \in Document
    BY <1>2 DEF Document
<1>4. docs' = [docs EXCEPT ![d] = [docs[d] EXCEPT !.status = st]]
    BY <1>1
<1>5. docs' \in Seq(Document)
    BY <1>3, <1>4
<1>6. \A e \in DOMAIN docs : docs'[e].paper = docs[e].paper
    BY <1>2, <1>4 DEF Document
<1> QED BY <1>4, <1>5, <1>6 DEF Grows

LEMMA GrowsAligned ==
    ASSUME NEW papers, NEW ds, Aligned(papers, ds), Grows(docs, docs')
    PROVE  /\ Len(ds) <= Len(papers)
           /\ \A i \in DOMAIN ds : ds[i] # Failed =>
                 ds[i] \in DOMAIN docs' /\ docs'[ds[i]].paper = papers[i]
BY DEF Aligned, Grows

(* A selection is a sequence of candidates.                                *)
LEMMA SelectionType ==
    ASSUME NEW C \in SUBSET Papers, NEW s \in Selections(C)
    PROVE  s \in Seq(Papers)
<1>1. PICK n \in 0..Cardinality(C) : s \in [1..n -> C]
    BY DEF Selections
<1>2. n \in Nat
    BY <1>1
<1> QED BY <1>1, <1>2

-----------------------------------------------------------------------------
(* The engine finds nothing but what it was asked for, unless it was asked *)
(* for no document at all, which the extraction never does.                *)
LEMMA FoundIsAsked ==
    ASSUME NEW ids, ids # {}, NEW found \in Retrieved(ids)
    PROVE  found \subseteq ids
<1>1. PICK v \in SUBSET Searched(ids), k \in SUBSET Searched(ids) : found \in Reranked(Merged(v, k))
    BY DEF Retrieved
<1>2. found \subseteq Searched(ids)
    BY <1>1 DEF Reranked, Merged
<1> QED BY <1>2 DEF Searched, DocumentFilter

LEMMA ChunksOfPapers ==
    ASSUME NEW c \in chunks', RetrieveChunks
    PROVE  \E p \in todo : \E d \in DocumentsOf(p) : c = [paper |-> p, doc |-> d]
<1>1. PICK found \in Answers(Retrievable) : chunks' = ChunksFrom(found)
    BY DEF RetrieveChunks
<1>2. PICK p \in Retrievable : \E d \in found[p] : c = Chunk(p, d)
    BY <1>1 DEF ChunksFrom, Answers
<1>3. p \in todo /\ DocumentsOf(p) # {} /\ found[p] \in Retrieved(DocumentsOf(p))
    BY <1>1, <1>2 DEF Retrievable, Answers
<1>4. found[p] \subseteq DocumentsOf(p)
    BY <1>3, FoundIsAsked
<1> QED BY <1>2, <1>3, <1>4 DEF Chunk

-----------------------------------------------------------------------------
(* Type correctness.                                                       *)
LEMMA TypeStep == TypeOK /\ [Next]_vars => TypeOK'
<1> SUFFICES ASSUME TypeOK, [Next]_vars PROVE TypeOK'
    OBVIOUS
<1> USE DEF TypeOK, DiscoveryNodes, ExtractionNodes, discoveryVars, extractionVars,
            artifactVars, Document, Statuses
<1>1. CASE StartDiscovery
    BY <1>1 DEF StartDiscovery
<1>2. CASE Search
    BY <1>2 DEF Search
<1>3. CASE PresentCandidates
  <2>1. selected' \in Seq(Papers)
      BY <1>3, SelectionType DEF PresentCandidates
  <2> QED BY <1>3, <2>1 DEF PresentCandidates
<1>4. CASE TriggerPaper \/ TriggerFails
  <2>1. NextPaper \in Papers
      BY <1>4 DEF TriggerPaper, TriggerFails, Triggering, NextPaper
  <2>2. docs' \in Seq(Document)
      BY <1>4, <2>1, FileGrows DEF TriggerPaper, TriggerFails
  <2>3. tasks' \in Seq(Nat)
    <3>1. CASE TriggerPaper
        BY <3>1 DEF TriggerPaper
    <3>2. CASE TriggerFails
        BY <3>2 DEF TriggerFails, Failed
    <3> QED BY <1>4, <3>1, <3>2
  <2> QED BY <1>4, <2>2, <2>3 DEF TriggerPaper, TriggerFails, OnlyTasks
<1>5. CASE TriggerDone
  <2>1. pending' \subseteq Nat
      BY <1>5 DEF TriggerDone, Elements
  <2> QED BY <1>5, <2>1 DEF TriggerDone
<1>6. CASE Poll
    BY <1>6 DEF Poll
<1>7. CASE WaitEnds
    BY <1>7 DEF WaitEnds
<1>8. ASSUME EndWorkflow
      PROVE  /\ node' \in {"idle"} /\ runs' \in 0..MaxRuns /\ candidates' \subseteq Papers
             /\ selected' \in Seq(Papers) /\ tasks' \in Seq(Nat) /\ pending' \subseteq Nat
             /\ todo' \subseteq Papers /\ chunks' \subseteq Note /\ notes' \subseteq Note
    BY <1>8 DEF EndWorkflow
<1>9. CASE WriteDiscovery
  <2>1. discovered' \in [selected : Seq(Papers), tasks : Seq(Nat)]
      BY <1>9 DEF WriteDiscovery
  <2> QED BY <1>8, <1>9, <2>1 DEF WriteDiscovery
<1>10. CASE StartExtraction
    BY <1>10 DEF StartExtraction
<1>11. CASE CheckExistingNotes
  <2>1. todo' \subseteq Papers
      BY <1>11 DEF CheckExistingNotes, Elements
  <2>2. node' \in {"write_notes", "retrieve_chunks"}
      BY <1>11 DEF CheckExistingNotes
  <2> QED BY <1>11, <2>1, <2>2 DEF CheckExistingNotes
<1>12. CASE RetrieveChunks
  <2>1. \A p \in todo : DocumentsOf(p) \subseteq Nat
      BY DEF DocumentsOf
  <2>2. chunks' \subseteq Note
      BY <1>12, <2>1, ChunksOfPapers DEF Note
  <2> QED BY <1>12, <2>2 DEF RetrieveChunks
<1>13. CASE GenerateNotes
  <2>1. notes' \subseteq Note
      BY <1>13 DEF GenerateNotes, Note, Failed
  <2> QED BY <1>13, <2>1 DEF GenerateNotes
<1>14. CASE WriteNotes
  <2>1. read' \subseteq Papers
      BY <1>14 DEF WriteNotes, PapersOf, Note
  <2> QED BY <1>8, <1>14, <2>1 DEF WriteNotes
<1>15. CASE StopRun
    BY <1>8, <1>15 DEF StopRun
<1>16. CASE Ingestion
  <2>1. PICK d \in DOMAIN docs, st \in Statuses : Become(d, st)
      BY <1>16 DEF Ingestion
  <2>2. docs' \in Seq(Document)
      BY <2>1, BecomeGrows
  <2> QED BY <2>1, <2>2 DEF Become
<1>17. CASE UNCHANGED vars
    BY <1>17 DEF vars
<1> QED BY <1>1, <1>2, <1>3, <1>4, <1>5, <1>6, <1>7, <1>9, <1>10, <1>11, <1>12,
           <1>13, <1>14, <1>15, <1>16, <1>17 DEF Next, DiscoveryStep, ExtractionStep

(* Every step leaves the documents, and what they were made of, in place.  *)
LEMMA DocumentsStay == TypeOK /\ [Next]_vars => Grows(docs, docs')
<1> SUFFICES ASSUME TypeOK, [Next]_vars PROVE Grows(docs, docs')
    OBVIOUS
<1>1. docs \in Seq(Document)
    BY DEF TypeOK, Document, Statuses
<1>2. CASE UNCHANGED docs
    BY <1>2 DEF Grows
<1>3. CASE TriggerPaper \/ TriggerFails
  <2>1. NextPaper \in Papers
      BY <1>3 DEF TriggerPaper, TriggerFails, Triggering, NextPaper, TypeOK
  <2> QED BY <1>1, <1>2, <1>3, <2>1, FileGrows DEF TriggerPaper, TriggerFails
<1>4. CASE Ingestion
  <2>1. PICK d \in DOMAIN docs, st \in Statuses : Become(d, st)
      BY <1>4 DEF Ingestion, Statuses
  <2> QED BY <1>1, <2>1, BecomeGrows
<1> QED BY <1>2, <1>3, <1>4 DEF Next, DiscoveryStep, ExtractionStep, StartDiscovery, Search,
        PresentCandidates, TriggerDone, Poll, WaitEnds, WriteDiscovery, StartExtraction,
        CheckExistingNotes, RetrieveChunks, GenerateNotes, WriteNotes, StopRun, vars

-----------------------------------------------------------------------------
(* The lists that the extraction pairs stay aligned.                       *)
LEMMA AlignedStep ==
    TypeOK /\ AlignedInv /\ [Next]_vars => AlignedInv'
<1> SUFFICES ASSUME TypeOK, AlignedInv, [Next]_vars PROVE AlignedInv'
    OBVIOUS
<1>0. TypeOK' /\ Grows(docs, docs')
    BY TypeStep, DocumentsStay
<1>1. ASSUME UNCHANGED discovered PROVE Aligned(discovered.selected, discovered.tasks)'
  <2>1. Aligned(discovered.selected, discovered.tasks)
      BY DEF AlignedInv
  <2>2. \A i \in DOMAIN discovered.tasks : discovered.tasks[i] # Failed =>
            /\ discovered.tasks[i] \in DOMAIN docs'
            /\ docs'[discovered.tasks[i]].paper = discovered.selected[i]
      BY <1>0, <2>1, GrowsAligned
  <2> QED BY <1>1, <2>1, <2>2 DEF Aligned
<1>2. ASSUME UNCHANGED <<selected, tasks>> PROVE Aligned(selected, tasks)'
  <2>1. Aligned(selected, tasks)
      BY DEF AlignedInv
  <2>2. \A i \in DOMAIN tasks : tasks[i] # Failed =>
            tasks[i] \in DOMAIN docs' /\ docs'[tasks[i]].paper = selected[i]
      BY <1>0, <2>1, GrowsAligned
  <2> QED BY <1>2, <2>1, <2>2 DEF Aligned
<1>3. ASSUME UNCHANGED chunks
      PROVE  \A c \in chunks' : c.doc \in DOMAIN docs' /\ docs'[c.doc].paper = c.paper
    BY <1>0, <1>3 DEF AlignedInv, Grows
<1>4. ASSUME EndWorkflow
      PROVE  /\ Aligned(selected, tasks)'
             /\ \A c \in chunks' : c.doc \in DOMAIN docs' /\ docs'[c.doc].paper = c.paper
    BY <1>4 DEF EndWorkflow, Aligned
<1>5. CASE PresentCandidates
  <2>1. tasks = <<>> /\ tasks' = <<>> /\ Len(selected') \in Nat
      BY <1>0, <1>5 DEF PresentCandidates, AlignedInv, TypeOK
  <2>2. Aligned(selected, tasks)'
      BY <2>1 DEF Aligned
  <2> QED BY <1>1, <1>3, <1>5, <2>1, <2>2 DEF PresentCandidates, AlignedInv,
          extractionVars, artifactVars
<1>6. CASE TriggerPaper \/ TriggerFails
  <2>1. /\ Len(tasks) < Len(selected) /\ selected' = selected /\ node = "trigger_ingestion"
        /\ node' = node /\ discovered' = discovered /\ chunks' = chunks
      BY <1>6 DEF TriggerPaper, TriggerFails, Triggering, OnlyTasks, extractionVars,
             artifactVars
  <2>2. /\ Len(tasks) \in Nat /\ Len(selected) \in Nat /\ docs \in Seq(Document)
        /\ NextPaper \in Papers /\ NextPaper = selected[Len(tasks) + 1]
      BY <2>1 DEF TypeOK, Document, Statuses, NextPaper
  <2>3. PICK t \in Nat : /\ tasks' = Append(tasks, t)
                         /\ t # Failed => t \in DOMAIN docs' /\ docs'[t].paper = NextPaper
    <3>1. CASE TriggerPaper
        BY <2>2, <3>1, FileGrows DEF TriggerPaper
    <3>2. CASE TriggerFails
        BY <3>2 DEF TriggerFails, Failed
    <3> QED BY <1>6, <3>1, <3>2
  <2>4. /\ Len(tasks') = Len(tasks) + 1 /\ DOMAIN tasks' = 1..Len(tasks) + 1
        /\ DOMAIN tasks = 1..Len(tasks)
        /\ tasks'[Len(tasks) + 1] = t /\ \A i \in 1..Len(tasks) : tasks'[i] = tasks[i]
      BY <2>3 DEF TypeOK
  <2>5. \A i \in 1..Len(tasks) : tasks[i] # Failed =>
            tasks[i] \in DOMAIN docs' /\ docs'[tasks[i]].paper = selected[i]
      BY <1>0, <2>4, GrowsAligned DEF AlignedInv
  <2>6. \A i \in DOMAIN tasks' : i \in 1..Len(tasks) \/ i = Len(tasks) + 1
      BY <2>2, <2>4
  <2>7. Aligned(selected, tasks)'
      BY <2>1, <2>2, <2>3, <2>4, <2>5, <2>6 DEF Aligned
  <2> QED BY <1>1, <1>3, <2>1, <2>7 DEF AlignedInv
<1>7. CASE TriggerDone \/ Poll \/ WaitEnds \/ Ingestion
  <2>1. /\ UNCHANGED <<selected, tasks, chunks, discovered>>
        /\ node' = node \/ node' \in {"wait_for_ingestion", "write_discovery"}
      BY <1>7 DEF TriggerDone, Poll, WaitEnds, Ingestion, Become, discoveryVars,
             extractionVars, artifactVars
  <2> QED BY <1>1, <1>2, <1>3, <2>1 DEF AlignedInv
<1>8. CASE StartDiscovery \/ Search \/ StartExtraction \/ CheckExistingNotes \/ GenerateNotes
  <2>1. UNCHANGED <<selected, tasks, chunks, discovered>>
        /\ node \notin {"trigger_ingestion", "wait_for_ingestion", "write_discovery"}
      BY <1>8 DEF StartDiscovery, Search, StartExtraction, CheckExistingNotes, GenerateNotes,
             discoveryVars, extractionVars, artifactVars
  <2> QED BY <1>1, <1>2, <1>3, <2>1 DEF AlignedInv
<1>9. CASE RetrieveChunks
  <2>1. /\ UNCHANGED <<selected, tasks, discovered, docs>>
        /\ node = "retrieve_chunks"
      BY <1>9 DEF RetrieveChunks, discoveryVars, artifactVars
  <2>2. \A p \in todo : \A d \in DocumentsOf(p) : d \in DOMAIN docs /\ docs[d].paper = p
      BY DEF DocumentsOf, AlignedInv, Aligned
  <2>3. \A c \in chunks' : c.doc \in DOMAIN docs' /\ docs'[c.doc].paper = c.paper
      BY <1>9, <2>1, <2>2, ChunksOfPapers
  <2> QED BY <1>1, <1>2, <2>1, <2>3 DEF AlignedInv
<1>10. CASE WriteDiscovery
  <2>1. discovered' = [selected |-> selected, tasks |-> tasks] /\ UNCHANGED docs
      BY <1>10 DEF WriteDiscovery
  <2>2. Aligned(discovered.selected, discovered.tasks)'
      BY <2>1 DEF AlignedInv, Aligned
  <2> QED BY <1>4, <1>10, <2>2 DEF WriteDiscovery, AlignedInv, EndWorkflow
<1>11. CASE WriteNotes \/ StopRun
    BY <1>1, <1>4, <1>11 DEF WriteNotes, StopRun, AlignedInv, EndWorkflow, artifactVars
<1>12. CASE UNCHANGED vars
    BY <1>1, <1>2, <1>3, <1>12 DEF vars, AlignedInv, discoveryVars, extractionVars, artifactVars
<1> QED BY <1>5, <1>6, <1>7, <1>8, <1>9, <1>10, <1>11, <1>12
        DEF Next, DiscoveryStep, ExtractionStep

(* Each selected paper is read, or was read before.                        *)
LEMMA ReadStep == TypeOK /\ ReadInv /\ [Next]_vars => ReadInv'
<1> SUFFICES ASSUME TypeOK, ReadInv, [Next]_vars PROVE ReadInv'
    OBVIOUS
<1>1. CASE CheckExistingNotes
  <2>1. /\ todo' = Elements(discovered.selected) \ PapersOf(kept)
        /\ UNCHANGED <<discovered, kept, read>>
      BY <1>1 DEF CheckExistingNotes, artifactVars
  <2> QED BY <2>1 DEF ReadInv
<1>2. CASE RetrieveChunks
  <2>1. node = "retrieve_chunks" /\ UNCHANGED <<todo, discovered, kept, read>>
      BY <1>2 DEF RetrieveChunks, artifactVars
  <2> QED BY <2>1 DEF ReadInv
<1>3. CASE WriteNotes
  <2>1. node' = "idle" /\ kept' = notes /\ read' = read \cup PapersOf(notes)
      BY <1>3 DEF WriteNotes, EndWorkflow
  <2>2. PapersOf(kept') = PapersOf(notes)
      BY <2>1
  <2> QED BY <2>1, <2>2 DEF ReadInv
<1>4. CASE WriteDiscovery \/ StopRun
    BY <1>4 DEF WriteDiscovery, StopRun, EndWorkflow, artifactVars, ReadInv
<1>5. CASE UNCHANGED <<todo, discovered, kept, read>>
           /\ node' \notin {"retrieve_chunks", "generate_notes"} \cup {node}
    BY <1>5 DEF ReadInv
<1>6. CASE UNCHANGED <<node, todo, discovered, kept, read>>
    BY <1>6 DEF ReadInv
<1>7. CASE StartDiscovery \/ Search \/ PresentCandidates \/ TriggerDone \/ WaitEnds
    BY <1>5, <1>7 DEF StartDiscovery, Search, PresentCandidates, TriggerDone, WaitEnds,
       extractionVars, artifactVars
<1>8. CASE StartExtraction \/ GenerateNotes
    BY <1>5, <1>8 DEF StartExtraction, GenerateNotes, extractionVars, artifactVars
<1>9. CASE TriggerPaper \/ TriggerFails \/ Poll \/ Ingestion \/ UNCHANGED vars
    BY <1>6, <1>9 DEF TriggerPaper, TriggerFails, OnlyTasks, Poll, Ingestion, Become, vars,
       extractionVars, artifactVars
<1> QED BY <1>1, <1>2, <1>3, <1>4, <1>7, <1>8, <1>9 DEF Next, DiscoveryStep, ExtractionStep

LEMMA SelectedStep ==
    TypeOK /\ ReadInv /\ SelectedAreRead /\ [Next]_vars => SelectedAreRead'
<1> SUFFICES ASSUME TypeOK, ReadInv, SelectedAreRead, [Next]_vars, node' = "write_notes"
             PROVE  Elements(discovered'.selected) \subseteq read' \cup PapersOf(notes')
    BY DEF SelectedAreRead, Elements, PapersOf
<1>1. CASE CheckExistingNotes
  <2>1. todo' = Elements(discovered.selected) \ PapersOf(kept) /\ todo' = {}
        /\ UNCHANGED <<discovered, read>>
      BY <1>1 DEF CheckExistingNotes, artifactVars
  <2> QED BY <2>1 DEF ReadInv
<1>2. CASE GenerateNotes
  <2>1. /\ notes' = chunks \cup {[paper |-> p, doc |-> Failed] : p \in todo \ PapersOf(chunks)}
        /\ node = "generate_notes" /\ UNCHANGED <<discovered, read>>
      BY <1>2 DEF GenerateNotes, artifactVars
  <2>2. ASSUME NEW p \in todo PROVE p \in PapersOf(notes')
    <3>1. CASE p \in PapersOf(chunks)
      <4>1. PICK c \in chunks : c.paper = p
          BY <3>1 DEF PapersOf
      <4> QED BY <2>1, <4>1 DEF PapersOf
    <3>2. CASE p \notin PapersOf(chunks)
      <4> DEFINE note == [paper |-> p, doc |-> Failed]
      <4>1. note \in notes' /\ note.paper = p
          BY <2>1, <3>2
      <4> HIDE DEF note
      <4> QED BY <4>1 DEF PapersOf
    <3> QED BY <3>1, <3>2
  <2> QED BY <2>1, <2>2 DEF ReadInv
<1>3. CASE node = "write_notes" /\ UNCHANGED <<discovered, read, notes>>
    BY <1>3 DEF SelectedAreRead
<1> QED BY <1>1, <1>2, <1>3 DEF Next, DiscoveryStep, ExtractionStep, StartDiscovery, Search,
        PresentCandidates, TriggerPaper, TriggerFails, OnlyTasks, Triggering, TriggerDone, Poll,
        WaitEnds, WriteDiscovery, StartExtraction, RetrieveChunks, WriteNotes, StopRun,
        EndWorkflow, Ingestion, Become, vars, extractionVars, artifactVars

(* A note cites the document of its paper.                                 *)
LEMMA GroundedStep ==
    TypeOK /\ AlignedInv /\ NotesAreGrounded /\ [Next]_vars => NotesAreGrounded'
<1> SUFFICES ASSUME TypeOK, AlignedInv, NotesAreGrounded, [Next]_vars,
                    NEW n \in notes' \cup kept', n.doc # Failed
             PROVE  n.doc \in DOMAIN docs' /\ docs'[n.doc].paper = n.paper
    BY DEF NotesAreGrounded
<1>1. Grows(docs, docs')
    BY DocumentsStay
<1>2. CASE n \in notes \cup kept
    BY <1>1, <1>2 DEF NotesAreGrounded, Grows
<1>3. CASE GenerateNotes /\ n \notin notes \cup kept
  <2>1. n \in notes'
      BY <1>3 DEF GenerateNotes, artifactVars
  <2>2. n \in chunks \/ n.doc = Failed
      BY <1>3, <2>1 DEF GenerateNotes
  <2> QED BY <1>1, <2>2 DEF AlignedInv, Grows
<1>4. ~GenerateNotes => notes' \cup kept' \subseteq notes \cup kept
    BY DEF Next, DiscoveryStep, ExtractionStep, StartDiscovery, Search,
       PresentCandidates, TriggerPaper, TriggerFails, OnlyTasks, TriggerDone, Poll,
       WaitEnds, WriteDiscovery, StartExtraction, CheckExistingNotes, RetrieveChunks,
       WriteNotes, StopRun, EndWorkflow, Ingestion, Become, vars, extractionVars, artifactVars
<1> QED BY <1>2, <1>3, <1>4

LEMMA InitLInv == Init => LInv
<1> SUFFICES ASSUME Init PROVE LInv
    OBVIOUS
<1>1. /\ selected = <<>> /\ tasks = <<>> /\ docs = <<>> /\ Len(tasks) = 0 /\ DOMAIN tasks = {}
      /\ discovered.selected = <<>> /\ discovered.tasks = <<>>
    BY DEF Init
<1>2. TypeOK
  <2>1. discovered \in [selected : Seq(Papers), tasks : Seq(Nat)]
      BY DEF Init
  <2> QED BY <1>1, <2>1 DEF Init, TypeOK
<1>3. AlignedInv
    BY <1>1 DEF Init, AlignedInv, Aligned
<1>4. ReadInv /\ NotesAreGrounded /\ SelectedAreRead
    BY DEF Init, ReadInv, NotesAreGrounded, SelectedAreRead, PapersOf
<1> QED BY <1>2, <1>3, <1>4 DEF LInv

-----------------------------------------------------------------------------
(* LInv is an invariant, for any papers and any bounds.                    *)
THEOREM LiteratureInvariance == Spec => []LInv
<1>1. LInv /\ [Next]_vars => LInv'
    BY TypeStep, AlignedStep, ReadStep, GroundedStep, SelectedStep DEF LInv
<1> QED BY <1>1, InitLInv, PTL DEF Spec

(* A note cites only documents that were made from its paper.              *)
THEOREM NotesGrounded == Spec => []NotesAreGrounded
<1>1. LInv => NotesAreGrounded
    BY DEF LInv
<1> QED BY <1>1, LiteratureInvariance, PTL

(* No selected paper is passed over by the extractions.                    *)
THEOREM NoPaperSkipped == Spec => []SelectedAreRead
<1>1. LInv => SelectedAreRead
    BY DEF LInv
<1> QED BY <1>1, LiteratureInvariance, PTL
=============================================================================
