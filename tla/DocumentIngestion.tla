------------------------- MODULE DocumentIngestion -------------------------
(***************************************************************************)
(* One document on its way into the store: the HTTP requests of            *)
(* backend/services/document_service.py, the Celery task                   *)
(* backend/workers/tasks/ingest_document.py with the pipeline of           *)
(* parse_document.py, and the guard on parse_status in                     *)
(* backend/repositories/document_repo.py.                                  *)
(*                                                                         *)
(* One action is what a process does up to its next visible effect: a read *)
(* of the row, a commit, a call to the broker or to the object store.  The *)
(* parsed content is abstracted to the number of times it was stored.      *)
(***************************************************************************)
EXTENDS Naturals

CONSTANTS Submissions,  \* requests that confirm an upload or import from arXiv
          Reparses,     \* requests to retry a failed document
          Deletes,      \* requests to delete the document
          Workers,      \* Celery worker processes
          MaxRetries,   \* max_retries of the task (3 in the code)
          MaxCrashes    \* bound on the worker processes lost

ASSUME IngestionAssumption ==
    /\ MaxRetries \in Nat /\ MaxCrashes \in Nat
    /\ Submissions \cap Reparses = {} /\ Submissions \cap Deletes = {}
    /\ Reparses \cap Deletes = {}

Requests == Submissions \cup Reparses \cup Deletes

VARIABLES status,    \* committed parse_status, "absent" before and "deleted" after
          file,      \* is the PDF in the object store?
          stored,    \* how many times the content was stored
          queue,     \* messages that wait in the broker, by number of retries
          request,   \* where a request is
          phase,     \* where a worker is
          tries,     \* the number of retries of the message a worker holds
          loaded,    \* parse_status as a request or a worker has read it
          crashes

rowVars == <<status, file, stored>>
workerVars == <<phase, tries>>
vars == <<rowVars, queue, request, workerVars, loaded, crashes>>

Gone == {"absent", "deleted"}
Status == {"uploading", "pending", "parsing", "completed", "failed"}

(* _VALID_TRANSITIONS, and the guard of update_parse_status.               *)
ValidTransitions ==
    [uploading |-> {"pending"},
     pending |-> {"parsing", "failed"},
     parsing |-> {"completed", "failed"},
     failed |-> {"pending"}]

(* Broken: a document that is being parsed may be parsed again.            *)
AllowedReparse(current, new) ==
    \/ current \in DOMAIN ValidTransitions /\ new \in ValidTransitions[current]
    \/ current \in {"parsing", "completed"} /\ new \in {"parsing", "completed"}

Allowed(current, new) ==
    current \in DOMAIN ValidTransitions /\ new \in ValidTransitions[current]

ParsePhase == {"parse", "upload", "poll", "fallback", "fallback_again",
               "classify", "embed"}
Phase == {"idle", "begin", "begin_write", "end", "end_write",
          "fail", "fail_write", "persist", "ack"} \cup ParsePhase

TypeOK ==
    /\ status \in Status \cup Gone
    /\ file \in BOOLEAN
    /\ stored \in Nat
    /\ queue \in [0..MaxRetries -> Nat]
    /\ request \in [Requests -> {"none", "read", "flushed", "inserted", "file_gone", "done"}]
    /\ phase \in [Workers -> Phase]
    /\ tries \in [Workers -> 0..MaxRetries]
    /\ loaded \in [Requests \cup Workers -> Status \cup {"unread"}]
    /\ crashes \in 0..MaxCrashes

Init ==
    /\ status = "absent"
    /\ file = FALSE
    /\ stored = 0
    /\ queue = [n \in 0..MaxRetries |-> 0]
    /\ request = [c \in Requests |-> "none"]
    /\ phase = [w \in Workers |-> "idle"]
    /\ tries = [w \in Workers |-> 0]
    /\ loaded = [p \in Requests \cup Workers |-> "unread"]
    /\ crashes = 0

(* A request keeps its flushed UPDATE, and with it the lock on the row,    *)
(* until it commits.                                                       *)
RowFree == \A c \in Requests : request[c] # "flushed"

Load(p, value) == loaded' = [loaded EXCEPT ![p] = value]
Enqueue(n) == queue' = [queue EXCEPT ![n] = @ + 1]

-----------------------------------------------------------------------------
(* Requests.                                                               *)

InitiateUpload ==
    /\ status = "absent" /\ \A c \in Submissions : request[c] = "none"
    /\ status' = "uploading"
    /\ UNCHANGED <<file, stored, queue, request, workerVars, loaded, crashes>>

(* mock_direct_upload writes the object whatever the state of the row.     *)
Upload ==
    /\ status # "absent" /\ ~file
    /\ file' = TRUE
    /\ UNCHANGED <<status, stored, queue, request, workerVars, loaded, crashes>>

(* confirm_upload reads the row and asks the store for the object;         *)
(* retry_parse only reads the row.  Both need a status that may become     *)
(* "pending".                                                              *)
RequestRead(c) ==
    /\ request[c] = "none" /\ status \notin Gone
    /\ (c \in Submissions /\ file) \/ c \in Reparses
    /\ Load(c, status)
    /\ request' = [request EXCEPT ![c] = IF Allowed(status, "pending") THEN "read" ELSE "done"]
    /\ UNCHANGED <<rowVars, queue, workerVars, crashes>>

(* The UPDATE is flushed and the task sent to the broker, then everything  *)
(* is committed.  The UPDATE of a row that is gone fails.                  *)
RequestSend(c) ==
    /\ request[c] = "read" /\ RowFree
    /\ IF status = "deleted"
       THEN request' = [request EXCEPT ![c] = "done"] /\ UNCHANGED queue
       ELSE request' = [request EXCEPT ![c] = "flushed"] /\ Enqueue(0)
    /\ UNCHANGED <<rowVars, workerVars, loaded, crashes>>

(* create_from_arxiv downloads the file, inserts the row and sends the     *)
(* task, then commits.                                                     *)
ArxivSend(c) ==
    /\ c \in Submissions /\ request[c] = "none" /\ status = "absent"
    /\ \A d \in Submissions : request[d] = "none"
    /\ file' = TRUE
    /\ request' = [request EXCEPT ![c] = "inserted"]
    /\ Enqueue(0)
    /\ UNCHANGED <<status, stored, workerVars, loaded, crashes>>

RequestCommit(c) ==
    /\ request[c] \in {"flushed", "inserted"}
    /\ request' = [request EXCEPT ![c] = "done"]
    /\ status' = "pending"
    /\ UNCHANGED <<file, stored, queue, workerVars, loaded, crashes>>

(* The commit fails, or the request is lost with its process: the task     *)
(* stays sent.                                                             *)
RequestLost(c) ==
    /\ request[c] \in {"flushed", "inserted"}
    /\ request' = [request EXCEPT ![c] = "done"]
    /\ UNCHANGED <<rowVars, queue, workerVars, loaded, crashes>>

(* delete_document removes the object first.                               *)
DeleteFile(c) ==
    /\ c \in Deletes /\ request[c] = "none" /\ status \notin Gone
    /\ file' = FALSE
    /\ request' = [request EXCEPT ![c] = "file_gone"]
    /\ UNCHANGED <<status, stored, queue, workerVars, loaded, crashes>>

(* Broken: the foreign keys do not hold the row back.                      *)
DeleteRowUnchecked(c) ==
    /\ request[c] = "file_gone" /\ RowFree
    /\ request' = [request EXCEPT ![c] = "done"]
    /\ status' = "deleted"
    /\ UNCHANGED <<file, stored, queue, workerVars, loaded, crashes>>

(* The row goes next, unless a foreign key of stored content forbids it.   *)
DeleteRow(c) ==
    /\ request[c] = "file_gone" /\ RowFree
    /\ request' = [request EXCEPT ![c] = "done"]
    /\ status' = IF stored > 0 THEN status ELSE "deleted"
    /\ UNCHANGED <<file, stored, queue, workerVars, loaded, crashes>>

-----------------------------------------------------------------------------
(* Workers.                                                                *)

Goto(w, p) == phase' = [phase EXCEPT ![w] = p]

(* Broken: the retry is a new task.                                        *)
RetryAnew(w) == Goto(w, "idle") /\ Enqueue(0)

(* autoretry_for: the message is sent again with one more retry, until     *)
(* max_retries; then it is rejected without being requeued.                *)
Retry(w) ==
    /\ Goto(w, "idle")
    /\ IF tries[w] < MaxRetries THEN Enqueue(tries[w] + 1) ELSE UNCHANGED queue

OnlyWorker == UNCHANGED <<rowVars, request, crashes>>

Fetch(w) ==
    /\ phase[w] = "idle"
    /\ \E n \in 0..MaxRetries :
         /\ queue[n] > 0
         /\ queue' = [queue EXCEPT ![n] = @ - 1]
         /\ tries' = [tries EXCEPT ![w] = n]
    /\ Goto(w, "begin")
    /\ UNCHANGED loaded
    /\ OnlyWorker

(* update_status reads the row.  Nothing is written for a row that is not  *)
(* there, and the caller goes on; a transition that is not allowed raises. *)
ReadStatus(w, new, write, none) ==
    /\ \/ status \in Gone /\ Goto(w, none) /\ UNCHANGED loaded
       \/ status \notin Gone /\ Allowed(status, new) /\ Goto(w, write) /\ Load(w, status)
    /\ UNCHANGED <<queue, tries>>
    /\ OnlyWorker

Refuses(new) == status \notin Gone /\ ~Allowed(status, new)

GiveUp(w) == Retry(w) /\ UNCHANGED <<tries, loaded>> /\ OnlyWorker

(* The UPDATE and its commit, which fail if the row is gone by now.  A     *)
(* session that failed raises again at the next use.                       *)
WriteStatus(w, new, next) ==
    /\ RowFree
    /\ \/ /\ status \notin Gone
          /\ status' = new
          /\ Goto(w, next) /\ UNCHANGED queue
       \/ /\ status \in Gone
          /\ Retry(w) /\ UNCHANGED status
    /\ Load(w, "unread")
    /\ UNCHANGED <<file, stored, tries, request, crashes>>

(* run_parse_pipeline, up to its try statement: an exception in this       *)
(* update is not turned into "failed".                                     *)
BeginRead(w) ==
    /\ phase[w] = "begin"
    /\ ReadStatus(w, "parsing", "begin_write", "parse") \/ (Refuses("parsing") /\ GiveUp(w))

BeginWrite(w) == phase[w] = "begin_write" /\ WriteStatus(w, "parsing", "parse")

(* The stages of parsing only move the worker on.                          *)
Advance(w, here, next) ==
    /\ phase[w] = here
    /\ Goto(w, next)
    /\ UNCHANGED <<queue, tries, loaded>>
    /\ OnlyWorker

(* The path is in the row.                                                 *)
GetFilePath(w) ==
    \/ status \notin Gone /\ Advance(w, "parse", "upload")
    \/ Advance(w, "parse", "fail")

(* MinerU is asked for an address and the file is put there; without a key *)
(* for the service, or when anything fails, the text is taken from the     *)
(* file itself.                                                            *)
UploadToMinerU(w) ==
    \/ file /\ Advance(w, "upload", "poll")
    \/ Advance(w, "upload", "fallback")

(* The batch is polled until it is done, has failed or the deadline has    *)
(* passed; then the text is downloaded and its references are cut off.     *)
PollMinerU(w) ==
    \/ Advance(w, "poll", "classify")
    \/ Advance(w, "poll", "fallback")

FallbackParse(w) ==
    \/ file /\ Advance(w, "fallback", "classify")
    \/ Advance(w, "fallback", "fallback_again")

(* The fallback of the pipeline, when that of MinerUParser has failed.     *)
FallbackAgain(w) ==
    \/ file /\ Advance(w, "fallback_again", "classify")
    \/ Advance(w, "fallback_again", "fail")

(* The text is split into records for the tables of content.               *)
Classify(w) ==
    \/ Advance(w, "classify", "embed")
    \/ Advance(w, "classify", "fail")

(* No enhancer is passed; each record with text is given its embedding.    *)
Embed(w) ==
    \/ Advance(w, "embed", "end")
    \/ Advance(w, "embed", "fail")

Parse(w) ==
    \/ GetFilePath(w) \/ UploadToMinerU(w) \/ PollMinerU(w)
    \/ FallbackParse(w) \/ FallbackAgain(w) \/ Classify(w) \/ Embed(w)

EndRead(w) ==
    /\ phase[w] = "end"
    /\ \/ ReadStatus(w, "completed", "end_write", "persist")
       \/ Refuses("completed") /\ Goto(w, "fail") /\ UNCHANGED <<queue, tries, loaded>> /\ OnlyWorker

EndWrite(w) == phase[w] = "end_write" /\ WriteStatus(w, "completed", "persist")

(* The except clause.                                                      *)
FailRead(w) ==
    /\ phase[w] = "fail"
    /\ \/ status \notin Gone /\ ReadStatus(w, "failed", "fail_write", "fail")
       \/ (status \in Gone \/ Refuses("failed")) /\ GiveUp(w)

(* Broken: the except clause does not write the status.                    *)
FailWriteNothing(w) ==
    /\ phase[w] = "fail_write" /\ RowFree
    /\ Retry(w)
    /\ Load(w, "unread")
    /\ UNCHANGED <<rowVars, tries, request, crashes>>

FailWrite(w) ==
    /\ phase[w] = "fail_write" /\ RowFree
    /\ status' = IF status \in Gone THEN status ELSE "failed"
    /\ Retry(w)
    /\ Load(w, "unread")
    /\ UNCHANGED <<file, stored, tries, request, crashes>>

(* Stage 5, after "completed" was committed, in a transaction of its own.  *)
(* It can fail; it does fail if the row is gone.                           *)
Persist(w) ==
    /\ phase[w] = "persist"
    /\ \/ /\ status \notin Gone
          /\ stored' = stored + 1
          /\ Goto(w, "ack") /\ UNCHANGED queue
       \/ Retry(w) /\ UNCHANGED stored
    /\ UNCHANGED <<status, file, tries, request, loaded, crashes>>

(* The callback to the agent, whose failure is swallowed, and the late     *)
(* acknowledgement.                                                        *)
Ack(w) ==
    /\ phase[w] = "ack"
    /\ Goto(w, "idle")
    /\ UNCHANGED <<queue, tries, loaded>>
    /\ OnlyWorker

(* The worker process is lost or passes the hard time limit.  acks_late    *)
(* and reject_on_worker_lost: the broker delivers the message again.       *)
WorkerLost(w) ==
    /\ crashes < MaxCrashes /\ phase[w] # "idle"
    /\ crashes' = crashes + 1
    /\ Goto(w, "idle")
    /\ Enqueue(tries[w])
    /\ Load(w, "unread")
    /\ UNCHANGED <<rowVars, request, tries>>

-----------------------------------------------------------------------------
RequestStep(c) == RequestSend(c) \/ RequestCommit(c) \/ DeleteRow(c)

WorkerStep(w) ==
    \/ Fetch(w) \/ BeginRead(w) \/ BeginWrite(w) \/ Parse(w) \/ EndRead(w)
    \/ EndWrite(w) \/ FailRead(w) \/ FailWrite(w) \/ Persist(w) \/ Ack(w)

Next ==
    \/ InitiateUpload \/ Upload
    \/ \E c \in Requests : \/ RequestRead(c) \/ ArxivSend(c) \/ DeleteFile(c)
                           \/ RequestStep(c) \/ RequestLost(c)
    \/ \E w \in Workers : WorkerStep(w) \/ WorkerLost(w)

(* The workers consume the queue and a request that began goes on; no user *)
(* is obliged to begin one.                                                *)
Fairness ==
    /\ \A c \in Requests : WF_vars(RequestStep(c))
    /\ \A w \in Workers : WF_vars(WorkerStep(w))

Spec == Init /\ [][Next]_vars /\ Fairness

-----------------------------------------------------------------------------
(* Correctness.                                                            *)

(* At most one request for the document to be parsed was ever made.        *)
Serial ==
    \A c, d \in Requests \ Deletes : request[c] # "none" /\ request[d] # "none" => c = d

(* Safety.  The content of a document that was submitted once is stored    *)
(* once, however often its message is retried or delivered again: the      *)
(* guard on parse_status makes the task idempotent (update_parse_status).  *)
StoredOnce == Serial => stored <= 1

(* Safety.  No content outlives its document, whatever the order of a      *)
(* delete and the stages of the task (_persist_classified_content).        *)
NoOrphanContent == status \in Gone => stored = 0

(* Liveness.  Every message is used up: at some point no task is left to   *)
(* run (max_retries, the lost workers being finitely many).                *)
QueueDrains == <>[](\A n \in 0..MaxRetries : queue[n] = 0)

(* Liveness.  As long as no worker is lost, a document does not stay in    *)
(* "parsing", whatever fails in the task: the except clause of             *)
(* run_parse_pipeline moves the row on.                                    *)
ParsingEnds == status = "parsing" ~> status # "parsing" \/ crashes > 0

-----------------------------------------------------------------------------
(* The inductive invariant behind StoredOnce: as long as there was one     *)
(* request, there is one message at most, and what a worker is at fits the *)
(* status of the row.                                                      *)
Roles ==
    /\ \A c \in Requests :
          /\ request[c] = "file_gone" => c \in Deletes /\ status # "absent"
          /\ request[c] \in {"read", "flushed", "inserted"} => c \notin Deletes
    /\ status = "absent" => \A c \in Reparses : request[c] = "none"

NoMessage == /\ \A n \in 0..MaxRetries : queue[n] = 0
             /\ \A w \in Workers : phase[w] = "idle"

OneMessage ==
    /\ \A m, n \in 0..MaxRetries :
          queue[m] > 0 => queue[m] = 1 /\ (queue[n] > 0 => m = n)
    /\ \A v, w \in Workers : phase[v] # "idle" /\ phase[w] # "idle" => v = w
    /\ \A w \in Workers, n \in 0..MaxRetries : phase[w] # "idle" => queue[n] = 0

NothingSent ==
    (\A c \in Requests \ Deletes : request[c] \in {"none", "read"}) =>
        NoMessage /\ stored = 0 /\ status \in {"absent", "uploading", "deleted"}

RequestFits ==
    \A c \in Requests :
        /\ request[c] = "read" => status \in {"uploading", "deleted"}
        /\ request[c] = "flushed" => status = "uploading"
        /\ request[c] = "inserted" => status = "absent"

PhaseFits ==
    \A w \in Workers :
        /\ status = "absent" => phase[w] \in {"idle", "begin", "parse", "fail"}
        /\ status = "uploading" => phase[w] \in {"idle", "begin"}
        /\ phase[w] = "begin_write" => status \in {"pending", "deleted"}
        /\ phase[w] = "end_write" => status \in {"parsing", "deleted"}
        /\ phase[w] = "persist" => status \in {"completed", "deleted"}

StoredFits ==
    stored > 0 =>
        /\ stored = 1 /\ status = "completed"
        /\ \A w \in Workers : phase[w] \in {"idle", "begin", "ack"}
        /\ \A c \in Requests \ Deletes : request[c] \in {"none", "done"}

SerialInv == OneMessage /\ NothingSent /\ RequestFits /\ PhaseFits /\ StoredFits

DInv == TypeOK /\ Roles /\ NoOrphanContent /\ (Serial => SerialInv)
=============================================================================
