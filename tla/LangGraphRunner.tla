-------------------------- MODULE LangGraphRunner --------------------------
(***************************************************************************)
(* backend/clients/langgraph_runner.py: every run executes in an asyncio   *)
(* task that writes its events to a bounded queue; an SSE endpoint reads   *)
(* the queue.  One action is one step of the event loop, from one          *)
(* suspension point of a coroutine to the next.                            *)
(*                                                                         *)
(* Events are abstracted to their number within the run; the interrupt     *)
(* and error items are numbered like the others.  0 is the sentinel.       *)
(***************************************************************************)
EXTENDS Naturals, Sequences, FiniteSets

CONSTANTS RunIds,     \* run ids; uuid4, so a run id is started once
          Streams,    \* SSE connections; a reconnection is another stream
          NoRun,      \* the source of a stream that has not connected yet
          Capacity,   \* maxsize of the queue (256 in the code)
          MaxEvents   \* bound on the events the graph yields in one run

ASSUME RunnerAssumption ==
    /\ NoRun \notin RunIds
    /\ Capacity \in Nat \ {0}
    /\ MaxEvents \in Nat

Sentinel == 0

VARIABLES active,    \* run ids that have a handle in _active_runs
          paused,    \* runs whose handle has the paused flag set
          task,      \* where the task of a run is suspended
          cancel,    \* has cancel_run reached the task of a run?
          queue,     \* the queue of a run
          emitted,   \* number of items the run has produced so far
          shutdown,  \* _shutdown_event
          src,       \* the run a stream was opened for
          pc,        \* where the generator of a stream is suspended
          hand,      \* the result of the stream's finished queue.get() task
          got,       \* the items a stream has yielded
          orphans    \* queue.get() tasks of a run that nobody awaits any more

vars == <<active, paused, task, cancel, queue, emitted, shutdown,
          src, pc, hand, got, orphans>>
taskVars == <<task, cancel, queue, emitted>>
streamVars == <<src, pc, hand, got>>

(* "graph": in astream_events; "check": in aget_state; the others: blocked *)
(* in the named queue.put because the queue is full.                       *)
BlockedInPut == {"put_event", "put_interrupt", "put_error"}
Live == {"graph", "check", "put_sentinel"} \cup BlockedInPut
TaskState == {"none", "done"} \cup Live
Attached == {"waiting", "fetched", "selected", "yielding"}
StreamState == {"off", "ended", "detached"} \cup Attached

TypeOK ==
    /\ active \subseteq RunIds
    /\ paused \subseteq active
    /\ task \in [RunIds -> TaskState]
    /\ cancel \in [RunIds -> {"no", "requested", "over"}]
    /\ queue \in [RunIds -> Seq(Nat)]
    /\ emitted \in [RunIds -> Nat]
    /\ shutdown \in BOOLEAN
    /\ src \in [Streams -> RunIds \cup {NoRun}]
    /\ pc \in [Streams -> StreamState]
    /\ \A s \in Streams : pc[s] # "off" => src[s] \in RunIds
    /\ hand \in [Streams -> Nat]
    /\ got \in [Streams -> Seq(Nat)]
    /\ orphans \in [RunIds -> Nat]

Init ==
    /\ active = {}
    /\ paused = {}
    /\ task = [r \in RunIds |-> "none"]
    /\ cancel = [r \in RunIds |-> "no"]
    /\ queue = [r \in RunIds |-> <<>>]
    /\ emitted = [r \in RunIds |-> 0]
    /\ shutdown = FALSE
    /\ src = [s \in Streams |-> NoRun]
    /\ pc = [s \in Streams |-> "off"]
    /\ hand = [s \in Streams |-> Sentinel]
    /\ got = [s \in Streams |-> <<>>]
    /\ orphans = [r \in RunIds |-> 0]

-----------------------------------------------------------------------------
(* The run.                                                                *)

(* start_run and resume_run: same bookkeeping, another graph input.  The   *)
(* first step of the task precedes every later call about the run: the    *)
(* loop is first-in first-out and the run id is not known to anyone yet.   *)
(* No request is served once the application shuts down.                   *)
StartRun(r) ==
    /\ ~shutdown
    /\ task[r] = "none"
    /\ task' = [task EXCEPT ![r] = "graph"]
    /\ active' = active \cup {r}
    /\ UNCHANGED <<paused, cancel, queue, emitted, shutdown, orphans>>
    /\ UNCHANGED streamVars

HasRoom(q) == Len(q) < Capacity

(* A task that was sent a cancellation takes no other step before it.      *)
Runs(r, where) == task[r] = where /\ cancel[r] # "requested"

(* The finally clause of _execute, entered with queue contents q: the      *)
(* sentinel is put at once, or the task blocks on the full queue.          *)
Finish(r, q) ==
    IF HasRoom(q)
    THEN /\ queue' = [queue EXCEPT ![r] = Append(q, Sentinel)]
         /\ task' = [task EXCEPT ![r] = "done"]
    ELSE /\ queue' = [queue EXCEPT ![r] = q]
         /\ task' = [task EXCEPT ![r] = "put_sentinel"]

(* The item emitted last is put, then the finally clause is entered; or    *)
(* the task blocks in the put.                                             *)
PutLast(r, blocked) ==
    /\ emitted' = [emitted EXCEPT ![r] = @ + 1]
    /\ \/ HasRoom(queue[r]) /\ Finish(r, Append(queue[r], emitted[r] + 1))
       \/ /\ ~HasRoom(queue[r])
          /\ task' = [task EXCEPT ![r] = blocked]
          /\ UNCHANGED queue
    /\ UNCHANGED cancel

OnlyTask == UNCHANGED <<active, paused, shutdown, orphans>> /\ UNCHANGED streamVars

(* Broken: put_nowait, and an event that finds the queue full is dropped.  *)
GraphEventNoWait(r) ==
    /\ Runs(r, "graph")
    /\ emitted[r] < MaxEvents
    /\ emitted' = [emitted EXCEPT ![r] = @ + 1]
    /\ IF HasRoom(queue[r])
       THEN queue' = [queue EXCEPT ![r] = Append(@, emitted[r] + 1)]
       ELSE UNCHANGED queue
    /\ UNCHANGED <<task, cancel>>
    /\ OnlyTask

GraphEvent(r) ==
    /\ Runs(r, "graph")
    /\ emitted[r] < MaxEvents
    /\ emitted' = [emitted EXCEPT ![r] = @ + 1]
    /\ \/ /\ HasRoom(queue[r])
          /\ queue' = [queue EXCEPT ![r] = Append(@, emitted[r] + 1)]
          /\ UNCHANGED task
       \/ /\ ~HasRoom(queue[r])
          /\ task' = [task EXCEPT ![r] = "put_event"]
          /\ UNCHANGED queue
    /\ UNCHANGED cancel
    /\ OnlyTask

GraphEnd(r) ==
    /\ Runs(r, "graph")
    /\ task' = [task EXCEPT ![r] = "check"]
    /\ UNCHANGED <<cancel, queue, emitted>>
    /\ OnlyTask

(* aget_state found no pending node.                                       *)
NoInterrupt(r) ==
    /\ Runs(r, "check")
    /\ Finish(r, queue[r])
    /\ UNCHANGED <<cancel, emitted>>
    /\ OnlyTask

(* aget_state found pending nodes: the graph is suspended in an interrupt. *)
Interrupt(r) ==
    /\ Runs(r, "check")
    /\ PutLast(r, "put_interrupt")
    /\ OnlyTask

(* Broken: the error is reported and the sentinel forgotten.               *)
GraphErrorNoSentinel(r) ==
    /\ Runs(r, "graph") \/ Runs(r, "check")
    /\ HasRoom(queue[r])
    /\ emitted' = [emitted EXCEPT ![r] = @ + 1]
    /\ queue' = [queue EXCEPT ![r] = Append(@, emitted[r] + 1)]
    /\ task' = [task EXCEPT ![r] = "done"]
    /\ UNCHANGED cancel
    /\ OnlyTask

(* An exception out of the graph or of aget_state.                         *)
GraphError(r) ==
    /\ Runs(r, "graph") \/ Runs(r, "check")
    /\ PutLast(r, "put_error")
    /\ OnlyTask

(* Broken: a put of the last item that had to wait puts the sentinel only. *)
UnblockLosesLast(r) ==
    /\ HasRoom(queue[r])
    /\ \/ /\ Runs(r, "put_event")
          /\ queue' = [queue EXCEPT ![r] = Append(@, emitted[r])]
          /\ task' = [task EXCEPT ![r] = "graph"]
       \/ /\ Runs(r, "put_interrupt") \/ Runs(r, "put_error") \/ Runs(r, "put_sentinel")
          /\ Finish(r, queue[r])
    /\ UNCHANGED <<cancel, emitted>>
    /\ OnlyTask

(* A blocked put finds room.                                               *)
Unblock(r) ==
    /\ HasRoom(queue[r])
    /\ \/ /\ Runs(r, "put_event")
          /\ queue' = [queue EXCEPT ![r] = Append(@, emitted[r])]
          /\ task' = [task EXCEPT ![r] = "graph"]
       \/ /\ Runs(r, "put_interrupt") \/ Runs(r, "put_error")
          /\ Finish(r, Append(queue[r], emitted[r]))
       \/ /\ Runs(r, "put_sentinel")
          /\ Finish(r, queue[r])
    /\ UNCHANGED <<cancel, emitted>>
    /\ OnlyTask

(* Broken: CancelledError is caught inside the event loop of the graph.    *)
DeliverCancelSwallowed(r) ==
    /\ cancel[r] = "requested"
    /\ cancel' = [cancel EXCEPT ![r] = "over"]
    /\ task' = [task EXCEPT ![r] = "graph"]
    /\ UNCHANGED <<queue, emitted>>
    /\ OnlyTask

(* CancelledError is raised at the await the task is suspended in.  Inside *)
(* the finally clause nothing catches it and the sentinel is never put.    *)
DeliverCancel(r) ==
    /\ cancel[r] = "requested"
    /\ cancel' = [cancel EXCEPT ![r] = "over"]
    /\ \/ /\ task[r] \in Live \ {"put_sentinel"}
          /\ Finish(r, queue[r])
       \/ /\ task[r] = "put_sentinel"
          /\ task' = [task EXCEPT ![r] = "done"]
          /\ UNCHANGED queue
    /\ UNCHANGED emitted
    /\ OnlyTask

-----------------------------------------------------------------------------
(* Control of the run.                                                     *)

PauseRun(r) ==
    /\ ~shutdown
    /\ r \in active
    /\ paused' = paused \cup {r}
    /\ UNCHANGED <<active, shutdown, orphans>>
    /\ UNCHANGED taskVars /\ UNCHANGED streamVars

UnpauseRun(r) ==
    /\ ~shutdown
    /\ r \in paused
    /\ paused' = paused \ {r}
    /\ UNCHANGED <<active, shutdown, orphans>>
    /\ UNCHANGED taskVars /\ UNCHANGED streamVars

(* The handles of R are popped and their tasks sent a cancellation; there  *)
(* is nothing left to cancel in a task that is done.                       *)
CancelTasks(R) ==
    /\ active' = active \ R
    /\ paused' = paused \ R
    /\ cancel' = [r \in RunIds |->
                     CASE r \in R /\ task[r] \in Live -> "requested"
                       [] r \in R /\ task[r] \notin Live -> "over"
                       [] OTHER -> cancel[r]]

(* cancel_run, up to its await of the task.                                *)
CancelRun(r) ==
    /\ ~shutdown
    /\ r \in active
    /\ CancelTasks({r})
    /\ UNCHANGED <<task, queue, emitted, shutdown, orphans>>
    /\ UNCHANGED streamVars

(* shutdown, up to its await of the tasks.  The event is set and the       *)
(* cancel_run calls of the gather are scheduled in one step of the loop,   *)
(* before any stream that waits for the event wakes up.                    *)
Shutdown ==
    /\ ~shutdown
    /\ shutdown' = TRUE
    /\ CancelTasks(active)
    /\ UNCHANGED <<task, queue, emitted, orphans>>
    /\ UNCHANGED streamVars

-----------------------------------------------------------------------------
(* get_event_stream, driven by an SSE response.                            *)

OnlyStream == UNCHANGED taskVars /\ UNCHANGED shutdown

(* The stream of a run without a handle ends at once, without an event.    *)
Connect(s, r) ==
    /\ ~shutdown
    /\ pc[s] = "off"
    /\ task[r] # "none"
    /\ src' = [src EXCEPT ![s] = r]
    /\ pc' = [pc EXCEPT ![s] = IF r \in active THEN "waiting" ELSE "ended"]
    /\ UNCHANGED <<active, paused, hand, got, orphans>>
    /\ OnlyStream

(* The queue.get() task of the stream completes.  Getters are not served   *)
(* in any particular order here.                                           *)
Fetch(s) ==
    /\ pc[s] = "waiting"
    /\ queue[src[s]] # <<>>
    /\ hand' = [hand EXCEPT ![s] = Head(queue[src[s]])]
    /\ queue' = [queue EXCEPT ![src[s]] = Tail(@)]
    /\ pc' = [pc EXCEPT ![s] = "fetched"]
    /\ UNCHANGED <<active, paused, task, cancel, emitted, shutdown, src, got, orphans>>

(* The loop of the generator is left: the handle is dropped.               *)
EndStream(s) ==
    /\ pc' = [pc EXCEPT ![s] = "ended"]
    /\ active' = active \ {src[s]}
    /\ paused' = paused \ {src[s]}
    /\ UNCHANGED <<src, hand, got, orphans>>
    /\ OnlyStream

(* asyncio.wait returns with the get() done and the event not set; the     *)
(* pending wait for the event is cancelled and awaited.                    *)
Select(s) ==
    /\ pc[s] = "fetched"
    /\ ~shutdown
    /\ pc' = [pc EXCEPT ![s] = "selected"]
    /\ UNCHANGED <<active, paused, src, hand, got, orphans>>
    /\ OnlyStream

Yield(s) ==
    /\ pc[s] = "selected"
    /\ hand[s] # Sentinel
    /\ got' = [got EXCEPT ![s] = Append(@, hand[s])]
    /\ pc' = [pc EXCEPT ![s] = "yielding"]
    /\ UNCHANGED <<active, paused, src, hand, orphans>>
    /\ OnlyStream

SeeSentinel(s) ==
    /\ pc[s] = "selected"
    /\ hand[s] = Sentinel
    /\ EndStream(s)

(* asyncio.wait returns with the event set: whatever get() returned is     *)
(* dropped, a get() still pending is cancelled.                            *)
SeeShutdown(s) ==
    /\ pc[s] \in {"waiting", "fetched"}
    /\ shutdown
    /\ EndStream(s)

(* The response has sent the event and asks for the next one.              *)
NextRead(s) ==
    /\ pc[s] = "yielding"
    /\ pc' = [pc EXCEPT ![s] = "waiting"]
    /\ UNCHANGED <<active, paused, src, hand, got, orphans>>
    /\ OnlyStream

(* Broken: the event that could not be delivered is put back.              *)
DisconnectRequeue(s) ==
    /\ pc[s] \in Attached
    /\ pc' = [pc EXCEPT ![s] = "detached"]
    /\ queue' = IF pc[s] = "fetched" /\ HasRoom(queue[src[s]])
                THEN [queue EXCEPT ![src[s]] = Append(@, hand[s])] ELSE queue
    /\ UNCHANGED <<active, paused, task, cancel, emitted, shutdown, src, hand, got, orphans>>

(* Broken: the generator drops the handle however it is left.              *)
DisconnectPop(s) ==
    /\ pc[s] \in Attached
    /\ pc' = [pc EXCEPT ![s] = "detached"]
    /\ active' = active \ {src[s]}
    /\ paused' = paused \ {src[s]}
    /\ UNCHANGED <<src, hand, got, orphans>>
    /\ OnlyStream

(* The client goes away and the generator is thrown out of its await or    *)
(* its yield.  asyncio.wait does not cancel the tasks it was given, so a    *)
(* get() that is still pending lives on; the handle stays.                 *)
Disconnect(s) ==
    /\ pc[s] \in Attached
    /\ pc' = [pc EXCEPT ![s] = "detached"]
    /\ orphans' = IF pc[s] = "waiting"
                  THEN [orphans EXCEPT ![src[s]] = @ + 1] ELSE orphans
    /\ UNCHANGED <<active, paused, src, hand, got>>
    /\ OnlyStream

(* An abandoned get() takes an item, which nobody sees.                    *)
OrphanFetch(r) ==
    /\ orphans[r] > 0
    /\ queue[r] # <<>>
    /\ orphans' = [orphans EXCEPT ![r] = @ - 1]
    /\ queue' = [queue EXCEPT ![r] = Tail(@)]
    /\ UNCHANGED <<active, paused, task, cancel, emitted, shutdown>>
    /\ UNCHANGED streamVars

-----------------------------------------------------------------------------
RunStep(r) ==
    \/ GraphEvent(r) \/ GraphEnd(r) \/ GraphError(r)
    \/ Interrupt(r) \/ NoInterrupt(r)
    \/ Unblock(r) \/ DeliverCancel(r)

StreamStep(s) ==
    \/ Fetch(s) \/ Select(s) \/ Yield(s) \/ NextRead(s)
    \/ SeeSentinel(s) \/ SeeShutdown(s)

Next ==
    \/ \E r \in RunIds : \/ StartRun(r) \/ PauseRun(r) \/ UnpauseRun(r)
                         \/ CancelRun(r) \/ OrphanFetch(r) \/ RunStep(r)
    \/ \E s \in Streams : \/ \E r \in RunIds : Connect(s, r)
                          \/ StreamStep(s) \/ Disconnect(s)
    \/ Shutdown

(* The loop runs every callback that is ready.  A client that stays        *)
(* connected keeps reading.  Nothing is assumed of the graph, which waits  *)
(* for language models, nor of the clients' requests.                      *)
Fairness ==
    /\ \A r \in RunIds : /\ WF_vars(Unblock(r)) /\ WF_vars(DeliverCancel(r))
                         /\ WF_vars(OrphanFetch(r))
    /\ \A s \in Streams : WF_vars(StreamStep(s))

Spec == Init /\ [][Next]_vars /\ Fairness

-----------------------------------------------------------------------------
(* Correctness.                                                            *)

Items(r) == {n \in 1..emitted[r] :
                \/ \E i \in DOMAIN queue[r] : queue[r][i] = n
                \/ \E s \in Streams : /\ src[s] = r /\ hand[s] = n
                                       /\ pc[s] \in {"fetched", "selected"}
                \/ task[r] \in BlockedInPut /\ n = emitted[r]}

Sole(s) == \A t \in Streams \ {s} : src[t] # src[s]

(* Safety.  No stream yields an item twice or out of order, and no item is *)
(* yielded by two streams: a reconnected client never sees an event again  *)
(* (get_event_stream, one queue shared by every stream of the run).        *)
OrderedAtMostOnce ==
    /\ \A s \in Streams : \A j, k \in DOMAIN got[s] : j < k => got[s][j] < got[s][k]
    /\ \A s, t \in Streams : s # t /\ src[s] = src[t] =>
          \A j \in DOMAIN got[s], k \in DOMAIN got[t] : got[s][j] # got[t][k]

(* Safety.  The only stream ever opened on a run sees its items without a  *)
(* gap; and unless the run was cancelled or the application shut down, it  *)
(* ends only after every item the run produced, the interrupt or the error *)
(* at the end included (_execute, get_event_stream).                       *)
SoleReaderComplete ==
    \A s \in Streams : src[s] # NoRun /\ Sole(s) =>
        /\ \A k \in DOMAIN got[s] : got[s][k] = k
        /\ pc[s] = "ended" /\ cancel[src[s]] = "no" /\ ~shutdown =>
              task[src[s]] = "done" /\ Len(got[s]) = emitted[src[s]]

(* Safety.  A task that still executes can be reached: its handle is in    *)
(* _active_runs, or cancel_run has been called on it.  No stream that ends *)
(* or goes away leaves behind a task that nothing could cancel.            *)
NoUnreachableTask ==
    \A r \in RunIds : task[r] \in Live => r \in active \/ cancel[r] # "no"

(* Refinement: the runner implements EventStream.                          *)
Stream == INSTANCE EventStream WITH
    published <- emitted,
    avail <- [r \in RunIds |-> Items(r)],
    disturbed <- {r \in RunIds : \/ cancel[r] # "no" \/ shutdown
                                 \/ \E s \in Streams : src[s] = r /\ pc[s] = "detached"}

ImplementsEventStream == Stream!Spec

(* Liveness.  cancel_run returns as long as a stream reads what the        *)
(* cancelled task still has to put.                                        *)
CancelReturnsWithReader ==
    \A r \in RunIds, s \in Streams :
        cancel[r] # "no" /\ src[s] = r /\ pc[s] \in Attached
            ~> task[r] = "done" \/ pc[s] \notin Attached

(* Liveness.  The only stream of a run comes to its end once the run is    *)
(* over, unless the run is cancelled.                                      *)
SoleReaderEnds ==
    \A s \in Streams : pc[s] \in Attached /\ Sole(s) /\ task[src[s]] = "done" ~>
        pc[s] \notin Attached \/ ~Sole(s) \/ cancel[src[s]] # "no"

-----------------------------------------------------------------------------
(* The inductive invariant behind OrderedAtMostOnce and NoUnreachableTask: *)
(* what is still in the queue, in a hand or in a blocked put is newer than *)
(* everything handed out before it, and a sentinel means a task that is    *)
(* done.                                                                   *)

Holding(s) == pc[s] \in {"fetched", "selected"}

QueueSorted ==
    \A r \in RunIds :
        /\ \A i \in DOMAIN queue[r] : queue[r][i] <= emitted[r]
        /\ \A i, j \in DOMAIN queue[r] :
              i < j => queue[r][i] # Sentinel
                       /\ (queue[r][j] # Sentinel => queue[r][i] < queue[r][j])
        /\ \A i \in DOMAIN queue[r] : queue[r][i] = Sentinel => task[r] = "done"

PendingIsNewest ==
    \A r \in RunIds : task[r] \in BlockedInPut =>
        /\ emitted[r] > 0
        /\ \A i \in DOMAIN queue[r] : queue[r][i] < emitted[r]
        /\ \A s \in Streams : src[s] = r =>
              hand[s] < emitted[r] /\ \A k \in DOMAIN got[s] : got[s][k] < emitted[r]

QueueIsNewer ==
    \A r \in RunIds, s \in Streams : src[s] = r =>
        /\ hand[s] <= emitted[r]
        /\ \A k \in DOMAIN got[s] : got[s][k] <= emitted[r]
        /\ \A i \in DOMAIN queue[r] : queue[r][i] # Sentinel =>
              hand[s] < queue[r][i] /\ \A k \in DOMAIN got[s] : got[s][k] < queue[r][i]

HandIsNewer ==
    \A s \in Streams : Holding(s) /\ hand[s] # Sentinel =>
        /\ \A k \in DOMAIN got[s] : got[s][k] < hand[s]
        /\ \A t \in Streams \ {s} : src[t] = src[s] =>
              /\ Holding(t) => hand[t] # hand[s]
              /\ \A k \in DOMAIN got[t] : got[t][k] # hand[s]

StreamOrigin ==
    \A s \in Streams :
        /\ pc[s] = "off" => src[s] = NoRun /\ got[s] = <<>> /\ hand[s] = Sentinel
        /\ Holding(s) /\ hand[s] = Sentinel => task[src[s]] = "done"

HandlesGoneOnShutdown == shutdown => active = {}

IInv ==
    /\ TypeOK
    /\ QueueSorted /\ PendingIsNewest /\ QueueIsNewer /\ HandIsNewer
    /\ StreamOrigin /\ OrderedAtMostOnce
    /\ HandlesGoneOnShutdown /\ NoUnreachableTask

(* The inductive invariant behind SoleReaderComplete and the refinement:   *)
(* what the queue holds continues what the only reader of the run has      *)
(* taken, up to the last item that was put, unless a cancellation threw    *)
(* the task out of a put; then nothing follows but the sentinel.           *)
RunOrigin ==
    \A r \in RunIds :
        /\ r \in active => task[r] # "none" /\ cancel[r] = "no"
        /\ task[r] = "none" => cancel[r] = "no"
        /\ cancel[r] = "over" => task[r] \in {"done", "put_sentinel"}
        /\ r \in active \/ task[r] = "none" \/ cancel[r] # "no" \/ shutdown
              \/ \E s \in Streams : src[s] = r
        /\ orphans[r] > 0 => \E s \in Streams : src[s] = r /\ pc[s] = "detached"

Count(b) == IF b THEN 1 ELSE 0
Closed(r) == queue[r] # <<>> /\ queue[r][Len(queue[r])] = Sentinel
Taken(s) == Len(got[s]) + Count(Holding(s) /\ hand[s] # Sentinel)

Continues(r, n) ==
    /\ \A i \in DOMAIN queue[r] : queue[r][i] # Sentinel => queue[r][i] = n + i
    /\ cancel[r] # "over" =>
          n + Len(queue[r]) + Count(task[r] \in BlockedInPut) = emitted[r] + Count(Closed(r))

UnreadInv == \A r \in RunIds : (\A s \in Streams : src[s] # r) => Continues(r, 0)

SoleInv ==
    \A s \in Streams : src[s] # NoRun /\ Sole(s) =>
        /\ Holding(s) => IF hand[s] = Sentinel THEN queue[src[s]] = <<>>
                         ELSE hand[s] = Len(got[s]) + 1
        /\ pc[s] \in Attached => Continues(src[s], Taken(s))

CInv == IInv /\ RunOrigin /\ UnreadInv /\ SoleInv /\ SoleReaderComplete
=============================================================================
