---------------------------- MODULE RunLifecycle ----------------------------
(***************************************************************************)
(* The life of the runs of one agent thread: backend/api/routers/agent.py  *)
(* and backend/services/agent_service.py over the rows of run_snapshots    *)
(* and threads.  A request or the finally clause of an SSE generator is a  *)
(* process; one action is what it does between two awaits that matter, a   *)
(* read and a commit of the database being apart.  The rows are what is    *)
(* committed; a flushed UPDATE holds its row until the commit.             *)
(*                                                                         *)
(* The runner is reduced to what a stream can learn from a queue: ordinary *)
(* events carry nothing, the last item says how the run stopped, then      *)
(* comes the sentinel (module LangGraphRunner has the queue itself).       *)
(***************************************************************************)
EXTENDS Naturals

CONSTANTS MaxRuns,       \* bound on the runs of the thread
          Streams,       \* SSE connections; a reconnection is another one
          MaxCrashes,    \* bound on the restarts of the backend
          AwareInNaive   \* does the driver store a timezone-aware datetime
                         \* in the column completed_at, which has no time zone?

ASSUME LifecycleAssumption ==
    MaxRuns \in Nat /\ MaxCrashes \in Nat /\ AwareInNaive \in BOOLEAN

RunIds == 1..MaxRuns     \* in the order of created_at

VARIABLES snap,     \* status of the row of a run in run_snapshots
          thread,   \* status of the row in threads
          request,  \* progress of the POST that creates or resumes a run
          canc,     \* progress of a POST cancel for a run
          loaded,   \* thread status a create, resume or cancel has read
          task,     \* what became of the run's task
          handles,  \* runs with a handle in the runner
          last,     \* an interrupt or error item waits in the run's queue
          sentinel, \* the sentinel waits in the run's queue
          orphans,  \* queue.get() tasks abandoned by a stream of the run
          src, pc,  \* the run a stream was opened for, and where it is
          seen,     \* was_interrupted / saw_error_event of the generator
          how,      \* how the body of the generator was left
          read,     \* the status the finally clause has read
          crashes

reqVars == <<request, canc, loaded>>
runnerVars == <<task, handles, last, sentinel, orphans>>
streamVars == <<src, pc, seen, how, read>>
vars == <<snap, thread, reqVars, runnerVars, streamVars, crashes>>

Outcomes == {"completed", "interrupted", "failed"}
Finalizing == {"save", "save_write", "mark", "mark_write"}
None == 0

TypeOK ==
    /\ snap \in [RunIds -> Outcomes \cup {"absent", "running", "cancelled"}]
    /\ thread \in {"idle", "running", "interrupted", "deleted"}
    /\ request \in [RunIds -> {"none", "started", "loaded", "resuming", "committed", "open", "lost"}]
    /\ canc \in [RunIds -> {"none", "read", "flushed", "stopped", "done", "error"}]
    /\ loaded \in [RunIds -> {"idle", "running", "interrupted", "deleted"}]
    /\ task \in [RunIds -> Outcomes \cup {"none", "running", "cancelled", "killed"}]
    /\ handles \subseteq {r \in RunIds : task[r] \notin {"none", "killed"}}
    /\ last \in [RunIds -> {"none", "interrupt", "error"}]
    /\ sentinel \in [RunIds -> BOOLEAN]
    /\ orphans \in [RunIds -> Nat]
    /\ src \in [Streams -> RunIds \cup {None}]
    /\ pc \in [Streams -> {"off", "reading", "over"} \cup Finalizing]
    /\ seen \in [Streams -> {"none", "interrupt", "error"}]
    /\ how \in [Streams -> {"open", "sentinel", "nohandle", "error", "gone"}]
    /\ read \in [Streams -> Outcomes \cup {"unread", "running", "cancelled", "idle"}]
    /\ crashes \in 0..MaxCrashes

Init ==
    /\ snap = [r \in RunIds |-> "absent"]
    /\ thread = "idle"
    /\ request = [r \in RunIds |-> "none"]
    /\ canc = [r \in RunIds |-> "none"]
    /\ loaded = [r \in RunIds |-> "idle"]
    /\ task = [r \in RunIds |-> "none"]
    /\ handles = {}
    /\ last = [r \in RunIds |-> "none"]
    /\ sentinel = [r \in RunIds |-> FALSE]
    /\ orphans = [r \in RunIds |-> 0]
    /\ src = [s \in Streams |-> None]
    /\ pc = [s \in Streams |-> "off"]
    /\ seen = [s \in Streams |-> "none"]
    /\ how = [s \in Streams |-> "open"]
    /\ read = [s \in Streams |-> "unread"]
    /\ crashes = 0

-----------------------------------------------------------------------------
(* Row locks.  Only a cancel keeps an UPDATE uncommitted across an await:  *)
(* the row of its run, and the thread's row when it changes the status.    *)
Cancelling(r) == canc[r] \in {"flushed", "stopped"}
SnapLocked(r) == Cancelling(r)
ThreadLocked == \E r \in RunIds : Cancelling(r) /\ loaded[r] # "idle"

(* Assigning an attribute the value it was loaded with emits no UPDATE.    *)
SetThread(was, new) == thread' = IF was = new \/ thread = "deleted" THEN thread ELSE new

NextRun(r) == request[r] = "none" /\ \A q \in RunIds : q < r => request[q] # "none"

-----------------------------------------------------------------------------
(* create_run: trigger_run inserts the snapshot and starts the task, the   *)
(* thread's status is read, then everything is committed.                  *)
CreateStart(r) ==
    /\ thread # "deleted" /\ NextRun(r)
    /\ request' = [request EXCEPT ![r] = "started"]
    /\ task' = [task EXCEPT ![r] = "running"]
    /\ handles' = handles \cup {r}
    /\ UNCHANGED <<snap, thread, canc, loaded, last, sentinel, orphans, streamVars, crashes>>

CreateLoad(r) ==
    /\ request[r] = "started"
    /\ request' = [request EXCEPT ![r] = "loaded"]
    /\ loaded' = [loaded EXCEPT ![r] = thread]
    /\ UNCHANGED <<snap, thread, canc, runnerVars, streamVars, crashes>>

CreateCommit(r) ==
    /\ request[r] = "loaded"
    /\ ~ThreadLocked
    /\ snap' = [snap EXCEPT ![r] = "running"]
    /\ SetThread(loaded[r], "running")
    /\ request' = [request EXCEPT ![r] = "open"]
    /\ UNCHANGED <<canc, loaded, runnerVars, streamVars, crashes>>

(* resume_run: a new run is committed first and its task started after.    *)
(* Neither the thread's status nor the resumed run is looked at.           *)
ResumeLoad(r) ==
    /\ thread # "deleted" /\ NextRun(r) /\ r > 1
    /\ request' = [request EXCEPT ![r] = "resuming"]
    /\ loaded' = [loaded EXCEPT ![r] = thread]
    /\ UNCHANGED <<snap, thread, canc, runnerVars, streamVars, crashes>>

ResumeCommit(r) ==
    /\ request[r] = "resuming"
    /\ ~ThreadLocked
    /\ snap' = [snap EXCEPT ![r] = "running"]
    /\ SetThread(loaded[r], "running")
    /\ request' = [request EXCEPT ![r] = "committed"]
    /\ UNCHANGED <<canc, loaded, runnerVars, streamVars, crashes>>

ResumeStart(r) ==
    /\ request[r] = "committed"
    /\ task' = [task EXCEPT ![r] = "running"]
    /\ handles' = handles \cup {r}
    /\ request' = [request EXCEPT ![r] = "open"]
    /\ UNCHANGED <<snap, thread, canc, loaded, last, sentinel, orphans, streamVars, crashes>>

(* cancel_run of the service: the thread and the snapshot are read.        *)
CancelRead(r) ==
    /\ thread # "deleted" /\ request[r] = "open" /\ canc[r] = "none"
    /\ canc' = [canc EXCEPT ![r] = "read"]
    /\ loaded' = [loaded EXCEPT ![r] = thread]
    /\ UNCHANGED <<snap, thread, request, runnerVars, streamVars, crashes>>

(* Broken: the row is marked and the runner is not told.                   *)
CancelFlushOnly(r) ==
    /\ canc[r] = "read" /\ ~ThreadLocked
    /\ canc' = [canc EXCEPT ![r] = "stopped"]
    /\ UNCHANGED <<snap, thread, request, loaded, runnerVars, streamVars, crashes>>

(* The flush fails when the driver refuses the timezone-aware completed_at *)
(* and the request with it, before the runner is told.  A thread deleted   *)
(* meanwhile makes the UPDATE fail, or is found to be gone.                *)
CancelFlush(r) ==
    /\ canc[r] = "read"
    /\ \/ AwareInNaive /\ ~ThreadLocked /\ canc' = [canc EXCEPT ![r] = "flushed"]
       \/ (~AwareInNaive \/ thread = "deleted") /\ canc' = [canc EXCEPT ![r] = "error"]
    /\ UNCHANGED <<snap, thread, request, loaded, runnerVars, streamVars, crashes>>

(* runner.cancel_run: the handle is popped and the task ends.              *)
CancelStop(r) ==
    /\ canc[r] = "flushed"
    /\ canc' = [canc EXCEPT ![r] = "stopped"]
    /\ handles' = handles \ {r}
    /\ IF r \in handles /\ task[r] = "running"
       THEN /\ task' = [task EXCEPT ![r] = "cancelled"]
            /\ sentinel' = [sentinel EXCEPT ![r] = TRUE]
       ELSE UNCHANGED <<task, sentinel>>
    /\ UNCHANGED <<snap, thread, request, loaded, last, orphans, streamVars, crashes>>

CancelCommit(r) ==
    /\ canc[r] = "stopped"
    /\ canc' = [canc EXCEPT ![r] = "done"]
    /\ snap' = IF snap[r] = "absent" THEN snap ELSE [snap EXCEPT ![r] = "cancelled"]
    /\ SetThread(loaded[r], "idle")
    /\ UNCHANGED <<request, loaded, runnerVars, streamVars, crashes>>

(* delete_thread: the rows go, the tasks are left alone.  It waits for row *)
(* locks and for uncommitted inserts that reference the thread.            *)
DeleteThread ==
    /\ thread # "deleted"
    /\ \A r \in RunIds : ~Cancelling(r) /\ request[r] \notin {"started", "loaded", "resuming"}
    /\ thread' = "deleted"
    /\ snap' = [r \in RunIds |-> "absent"]
    /\ UNCHANGED <<reqVars, runnerVars, streamVars, crashes>>

(* Broken: the check for an interrupt also runs after a graph that failed, *)
(* whose pending node it takes for one.                                    *)
TaskEndChecksFailed(r) ==
    /\ task[r] = "running"
    /\ \E o \in Outcomes :
         /\ task' = [task EXCEPT ![r] = o]
         /\ last' = [last EXCEPT ![r] = IF o = "completed" THEN "none" ELSE "interrupt"]
    /\ sentinel' = [sentinel EXCEPT ![r] = TRUE]
    /\ UNCHANGED <<snap, thread, reqVars, handles, orphans, streamVars, crashes>>

(* Broken: the sentinel is only put after a graph that ended well.         *)
TaskEndNoSentinel(r) ==
    /\ task[r] = "running"
    /\ \E o \in Outcomes :
         /\ task' = [task EXCEPT ![r] = o]
         /\ sentinel' = [sentinel EXCEPT ![r] = o # "failed"]
    /\ UNCHANGED <<snap, thread, reqVars, handles, last, orphans, streamVars, crashes>>

-----------------------------------------------------------------------------
(* The task ends by itself.                                                *)
TaskEnd(r) ==
    /\ task[r] = "running"
    /\ \E o \in Outcomes :
         /\ task' = [task EXCEPT ![r] = o]
         /\ last' = [last EXCEPT ![r] = CASE o = "interrupted" -> "interrupt"
                                          [] o = "failed" -> "error"
                                          [] o = "completed" -> "none"]
    /\ sentinel' = [sentinel EXCEPT ![r] = TRUE]
    /\ UNCHANGED <<snap, thread, reqVars, handles, orphans, streamVars, crashes>>

-----------------------------------------------------------------------------
(* stream_run_events: the body of event_generator.                         *)
OnlyStream == UNCHANGED <<snap, thread, reqVars, crashes>>

(* The stream of a run without a handle has no events; the generator goes  *)
(* straight to its finally clause.                                         *)
Connect(s, r) ==
    /\ pc[s] = "off" /\ thread # "deleted" /\ request[r] = "open"
    /\ src' = [src EXCEPT ![s] = r]
    /\ IF r \in handles
       THEN pc' = [pc EXCEPT ![s] = "reading"] /\ UNCHANGED how
       ELSE pc' = [pc EXCEPT ![s] = "save"] /\ how' = [how EXCEPT ![s] = "nohandle"]
    /\ UNCHANGED <<seen, read, runnerVars>>
    /\ OnlyStream

SeeLast(s) ==
    /\ pc[s] = "reading" /\ last[src[s]] # "none"
    /\ seen' = [seen EXCEPT ![s] = last[src[s]]]
    /\ last' = [last EXCEPT ![src[s]] = "none"]
    /\ UNCHANGED <<task, handles, sentinel, orphans, src, pc, how, read>>
    /\ OnlyStream

SeeSentinel(s) ==
    /\ pc[s] = "reading" /\ last[src[s]] = "none" /\ sentinel[src[s]]
    /\ sentinel' = [sentinel EXCEPT ![src[s]] = FALSE]
    /\ handles' = handles \ {src[s]}
    /\ pc' = [pc EXCEPT ![s] = "save"]
    /\ how' = [how EXCEPT ![s] = "sentinel"]
    /\ UNCHANGED <<task, last, orphans, src, seen, read>>
    /\ OnlyStream

(* An exception while an event is translated or serialised.                *)
StreamError(s) ==
    /\ pc[s] = "reading"
    /\ seen' = [seen EXCEPT ![s] = "error"]
    /\ pc' = [pc EXCEPT ![s] = "save"]
    /\ how' = [how EXCEPT ![s] = "error"]
    /\ UNCHANGED <<src, read, runnerVars>>
    /\ OnlyStream

(* The client goes away.  The finally clause runs, or is itself cancelled  *)
(* at its first await; a queue.get() that was pending is abandoned.        *)
Disconnect(s) ==
    /\ pc[s] = "reading"
    /\ \E next \in {"save", "over"}, left \in {0, 1} :
         /\ pc' = [pc EXCEPT ![s] = next]
         /\ orphans' = [orphans EXCEPT ![src[s]] = @ + left]
    /\ how' = [how EXCEPT ![s] = "gone"]
    /\ UNCHANGED <<src, seen, read, task, handles, last, sentinel>>
    /\ OnlyStream

(* The client goes away while the finally clause runs, which is cancelled; *)
(* what it has not committed is rolled back.                               *)
AbortFinally(s) ==
    /\ pc[s] \in Finalizing
    /\ pc' = [pc EXCEPT ![s] = "over"]
    /\ how' = [how EXCEPT ![s] = "gone"]
    /\ read' = [read EXCEPT ![s] = "unread"]
    /\ UNCHANGED <<src, seen, runnerVars>>
    /\ OnlyStream

(* An abandoned queue.get() takes an event, the last item or the sentinel. *)
OrphanFetch(r) ==
    /\ orphans[r] > 0
    /\ orphans' = [orphans EXCEPT ![r] = @ - 1]
    /\ \/ task[r] # "none" /\ UNCHANGED <<last, sentinel>>
       \/ last[r] # "none" /\ last' = [last EXCEPT ![r] = "none"] /\ UNCHANGED sentinel
       \/ /\ last[r] = "none" /\ sentinel[r]
          /\ sentinel' = [sentinel EXCEPT ![r] = FALSE] /\ UNCHANGED last
    /\ UNCHANGED <<task, handles, streamVars>>
    /\ OnlyStream
-----------------------------------------------------------------------------
(* The finally clause of event_generator: the snapshot, then the thread,   *)
(* each in a session of its own.                                           *)
(* Broken: an error event of the graph is not remembered.                  *)
TerminalStatusNoError(existing, saw) ==
    IF existing \in {"cancelled", "failed"} THEN existing
    ELSE IF saw = "interrupt" THEN "interrupted" ELSE "completed"

(* Broken: the status in the row is not looked at.                         *)
TerminalStatusUnprotected(existing, saw) ==
    CASE saw = "interrupt" -> "interrupted"
      [] saw = "error" -> "failed"
      [] saw = "none" -> "completed"

TerminalStatus(existing, saw) ==
    CASE existing \in {"cancelled", "failed"} -> existing
      [] existing \notin {"cancelled", "failed"} /\ saw = "interrupt" -> "interrupted"
      [] existing \notin {"cancelled", "failed"} /\ saw = "error" -> "failed"
      [] existing \notin {"cancelled", "failed"} /\ saw = "none" -> "completed"

FinallyOnly == UNCHANGED <<src, seen, how, reqVars, runnerVars, crashes>>

SaveRead(s) ==
    /\ pc[s] = "save"
    /\ IF snap[src[s]] = "absent"
       THEN pc' = [pc EXCEPT ![s] = "mark"] /\ UNCHANGED read
       ELSE /\ pc' = [pc EXCEPT ![s] = "save_write"]
            /\ read' = [read EXCEPT ![s] = snap[src[s]]]
    /\ UNCHANGED <<snap, thread>>
    /\ FinallyOnly

(* A row that was deleted meanwhile makes the UPDATE fail, which is logged.*)
SaveWrite(s) ==
    LET r == src[s]
        new == TerminalStatus(read[s], seen[s])
    IN  /\ pc[s] = "save_write"
        /\ ~SnapLocked(r)
        /\ snap' = IF new = read[s] \/ snap[r] = "absent" THEN snap ELSE [snap EXCEPT ![r] = new]
        /\ pc' = [pc EXCEPT ![s] = "mark"]
        /\ read' = [read EXCEPT ![s] = "unread"]
        /\ UNCHANGED thread
        /\ FinallyOnly

MarkRead(s) ==
    /\ pc[s] = "mark"
    /\ IF thread = "deleted"
       THEN pc' = [pc EXCEPT ![s] = "over"] /\ UNCHANGED read
       ELSE /\ pc' = [pc EXCEPT ![s] = "mark_write"]
            /\ read' = [read EXCEPT ![s] = thread]
    /\ UNCHANGED <<snap, thread>>
    /\ FinallyOnly

ThreadStatus(saw) == IF saw = "interrupt" THEN "interrupted" ELSE "idle"

(* Broken: the thread of a failed run is left as it is.                    *)
MarkWriteNotFailed(s) ==
    /\ pc[s] = "mark_write"
    /\ ~ThreadLocked
    /\ IF seen[s] = "error" THEN UNCHANGED thread
       ELSE SetThread(read[s], ThreadStatus(seen[s]))
    /\ pc' = [pc EXCEPT ![s] = "over"]
    /\ read' = [read EXCEPT ![s] = "unread"]
    /\ UNCHANGED snap
    /\ FinallyOnly

MarkWrite(s) ==
    /\ pc[s] = "mark_write"
    /\ ~ThreadLocked
    /\ SetThread(read[s], ThreadStatus(seen[s]))
    /\ pc' = [pc EXCEPT ![s] = "over"]
    /\ read' = [read EXCEPT ![s] = "unread"]
    /\ UNCHANGED snap
    /\ FinallyOnly

-----------------------------------------------------------------------------
(* The backend restarts: tasks, handles, connections and open transactions *)
(* are gone, the rows stay.                                                *)
Crash ==
    /\ crashes < MaxCrashes
    /\ crashes' = crashes + 1
    /\ task' = [r \in RunIds |-> IF task[r] = "running" THEN "killed" ELSE task[r]]
    /\ handles' = {}
    /\ last' = [r \in RunIds |-> "none"]
    /\ sentinel' = [r \in RunIds |-> FALSE]
    /\ orphans' = [r \in RunIds |-> 0]
    /\ request' = [r \in RunIds |->
                     CASE request[r] \in {"started", "loaded", "resuming"} -> "lost"
                       [] request[r] = "committed" -> "open"
                       [] OTHER -> request[r]]
    /\ canc' = [r \in RunIds |-> IF canc[r] = "read" \/ Cancelling(r) THEN "error" ELSE canc[r]]
    /\ pc' = [s \in Streams |-> IF pc[s] = "off" THEN "off" ELSE "over"]
    /\ how' = [s \in Streams |-> IF pc[s] \in {"off", "over"} THEN how[s] ELSE "gone"]
    /\ read' = [s \in Streams |-> "unread"]
    /\ UNCHANGED <<snap, thread, loaded, src, seen>>

-----------------------------------------------------------------------------
FinallyStep(s) == SaveRead(s) \/ SaveWrite(s) \/ MarkRead(s) \/ MarkWrite(s)

RequestStep(r) ==
    \/ CreateLoad(r) \/ CreateCommit(r) \/ ResumeCommit(r) \/ ResumeStart(r)
    \/ CancelFlush(r) \/ CancelStop(r) \/ CancelCommit(r)

Next ==
    \/ \E r \in RunIds : \/ CreateStart(r) \/ ResumeLoad(r) \/ CancelRead(r)
                         \/ RequestStep(r) \/ TaskEnd(r) \/ OrphanFetch(r)
    \/ \E s \in Streams : \/ \E r \in RunIds : Connect(s, r)
                          \/ SeeLast(s) \/ SeeSentinel(s) \/ StreamError(s)
                          \/ Disconnect(s) \/ AbortFinally(s) \/ FinallyStep(s)
    \/ DeleteThread \/ Crash

(* Requests and generators that can go on do go on.  Nobody is obliged to  *)
(* connect, to cancel or to stay, and no graph is obliged to end.          *)
Fairness ==
    /\ \A r \in RunIds : WF_vars(RequestStep(r)) /\ WF_vars(OrphanFetch(r))
    /\ \A s \in Streams : WF_vars(SeeLast(s) \/ SeeSentinel(s) \/ FinallyStep(s))

Spec == Init /\ [][Next]_vars /\ Fairness

-----------------------------------------------------------------------------
(* Correctness.                                                            *)

Sole(s) == src[s] # None /\ \A t \in Streams \ {s} : src[t] # src[s]

(* The generator of the stream ran to its end, finally clause included.    *)
Settled(s) == pc[s] = "over" /\ how[s] \in {"sentinel", "nohandle", "error"}

Quiet == /\ \A r \in RunIds : request[r] \in {"none", "open", "lost"}
         /\ \A r \in RunIds : request[r] = "open" =>
                \E s \in Streams : src[s] = r /\ Settled(s)

(* Safety.  However creates, resumes, cancels and the finally clauses of   *)
(* several streams interleave over the thread's row, the thread is not     *)
(* left "running" once no POST is under way and every run has had a stream *)
(* that was read to its end (update_thread_status, event_generator).       *)
QuietThreadNotRunning == Quiet => thread # "running"

(* Safety.  If the only stream of a run was read to the sentinel, the row  *)
(* says what became of the task, whatever the other runs of the thread do, *)
(* and it goes on saying so (event_generator, _determine_terminal_status). *)
SoleReaderRecordsOutcome ==
    \A s \in Streams :
        /\ Sole(s) /\ Settled(s) /\ how[s] = "sentinel"
        /\ task[src[s]] # "cancelled" /\ canc[src[s]] \in {"none", "error"}
        /\ snap[src[s]] # "absent"
        => snap[src[s]] = task[src[s]]

(* A finally clause that has read the row and not written it yet.          *)
Stale(r) == \E s \in Streams : src[s] = r /\ pc[s] = "save_write" /\ read[s] # snap[r]

(* Action property.  A run that was cancelled or has failed keeps its      *)
(* status, cancellation and deletion excepted, unless a finally clause had *)
(* read the row before: the only way to lose it is that race               *)
(* (_determine_terminal_status between the read and the commit).           *)
OnlyStaleReadClobbers ==
    [][\A r \in RunIds : snap[r] \in {"cancelled", "failed"} /\ ~Stale(r) =>
          snap'[r] \in {snap[r], "cancelled", "absent"}]_vars

(* Safety.  A row says "interrupted" only of a run whose graph did stop in *)
(* an interrupt, so that a pending interrupt offered to the user           *)
(* (get_thread_messages) is one the graph waits in.                        *)
InterruptedRowIsTrue ==
    \A r \in RunIds : snap[r] = "interrupted" => task[r] = "interrupted"

(* Liveness.  When a task ends while the only client of the run stays, the *)
(* row leaves "running" (_execute's sentinel, event_generator's finally).  *)
EndedRunIsRecorded ==
    \A s \in Streams, r \in RunIds :
        pc[s] = "reading" /\ src[s] = r /\ Sole(s) /\ task[r] # "running" ~>
            snap[r] # "running" \/ how[s] = "gone" \/ ~Sole(s)

(* What cancel_run's docstring says, "Cancel a running run.": after the    *)
(* request the run does not go on until its graph ends by itself, unless   *)
(* the thread is deleted or the backend restarts meanwhile.  It holds when *)
(* the driver takes the timezone-aware completed_at; as deployed the flush *)
(* fails and the runner is never told.                                     *)
CancelStopsRun ==
    \A r \in RunIds : canc[r] = "read" ~> task[r] # "running" \/ thread = "deleted"

-----------------------------------------------------------------------------
(* The inductive invariant behind InterruptedRowIsTrue: a row appears with *)
(* the commit of its request and an interrupt only with its task's, and a  *)
(* stream remembers what it has seen of the run it was opened for.         *)
RowInv ==
    /\ \A r \in RunIds :
          /\ request[r] \in {"none", "resuming", "committed"} => task[r] = "none"
          /\ request[r] \in {"none", "started", "loaded", "resuming"} => snap[r] = "absent"
          /\ last[r] = "interrupt" => task[r] = "interrupted"
          /\ snap[r] = "interrupted" => task[r] = "interrupted"
    /\ \A s \in Streams :
          /\ pc[s] = "off" => seen[s] = "none"
          /\ pc[s] # "off" => src[s] \in RunIds
          /\ seen[s] = "interrupt" => task[src[s]] = "interrupted"

RInv == TypeOK /\ RowInv

(* The inductive invariant behind QuietThreadNotRunning: while the thread  *)
(* is "running" there is a run that wrote so whose streams, if they have   *)
(* read the thread's status at all, have read that it runs.                *)
OriginInv ==
    \A s \in Streams :
        /\ pc[s] = "off" <=> src[s] = None
        /\ \A r \in RunIds : src[s] = r => request[r] = "open"
        /\ pc[s] \in {"off", "reading"} => how[s] = "open"

Answering(s) == ~Settled(s) /\ (pc[s] = "mark_write" => read[s] = "running")

RunningInv ==
    thread = "running" =>
        \E r \in RunIds : /\ request[r] \in {"committed", "open"}
                          /\ \A s \in Streams : src[s] = r => Answering(s)

(* The inductive invariant behind SoleReaderRecordsOutcome: the last item  *)
(* of a run is in its queue until its only stream has seen it, and the row *)
(* is "running" until the finally clause of that stream has written it.    *)
Word(o) == CASE o = "interrupted" -> "interrupt" [] o = "failed" -> "error" [] OTHER -> "none"

Unread(r) == \A s \in Streams : src[s] # r

QueueInv ==
    \A r \in RunIds :
        /\ task[r] \in {"none", "running", "killed"} => last[r] = "none" /\ ~sentinel[r]
        /\ orphans[r] > 0 => \E s \in Streams : src[s] = r /\ how[s] = "gone"
        /\ Unread(r) => /\ r \in handles => last[r] = Word(task[r])
                        /\ canc[r] # "done" => snap[r] \in {"running", "absent"}

Recorded(s, r) ==
    /\ pc[s] = "reading" => \/ seen[s] = "none" /\ last[r] = Word(task[r])
                            \/ last[r] = "none" /\ seen[s] = Word(task[r])
    /\ how[s] = "sentinel" => task[r] \in Outcomes \cup {"cancelled"} /\ seen[s] = Word(task[r])
    /\ canc[r] # "done" =>
          /\ pc[s] \in {"reading", "save", "save_write"} => snap[r] \in {"running", "absent"}
          /\ pc[s] = "save_write" => read[s] = "running"
          /\ how[s] = "sentinel" /\ pc[s] \in {"mark", "mark_write", "over"} =>
                snap[r] \in {task[r], "absent"} \/ task[r] = "cancelled"

SoleInv == \A s \in Streams, r \in RunIds : src[s] = r /\ Sole(s) => Recorded(s, r)

LInv == RInv /\ OriginInv /\ RunningInv /\ QueueInv /\ SoleInv

=============================================================================
