----------------------- MODULE LangGraphRunner_proofs -----------------------
(***************************************************************************)
(* Theorems about the runner, for any runs, streams and queue capacity.    *)
(***************************************************************************)
EXTENDS LangGraphRunner, TLAPS

USE DEF Sentinel

(* Type correctness of the runner's state.                                 *)
LEMMA TypeInit == Init => TypeOK
<1> SUFFICES ASSUME Init PROVE TypeOK
    OBVIOUS
<1>1. queue \in [RunIds -> Seq(Nat)] /\ got \in [Streams -> Seq(Nat)]
    BY DEF Init
<1>2. task \in [RunIds -> TaskState]
    BY DEF Init, TaskState
<1>3. pc \in [Streams -> StreamState] /\ \A s \in Streams : pc[s] # "off" => src[s] \in RunIds
    BY DEF Init, StreamState
<1> QED BY <1>1, <1>2, <1>3 DEF Init, TypeOK

(* The finally clause keeps the queue a sequence of item numbers and sends *)
(* the task to one of its states.                                          *)
LEMMA FinishType ==
    ASSUME TypeOK, NEW r \in RunIds, NEW q \in Seq(Nat), Finish(r, q)
    PROVE  /\ queue' \in [RunIds -> Seq(Nat)]
           /\ task' \in [RunIds -> TaskState]
<1>1. Append(q, Sentinel) \in Seq(Nat)
    OBVIOUS
<1>2. queue' \in [RunIds -> Seq(Nat)]
    BY <1>1 DEF Finish, TypeOK
<1>3. task' \in [RunIds -> TaskState]
    BY DEF Finish, TypeOK, TaskState, Live
<1> QED BY <1>2, <1>3

(* Every action of the runner and of its streams keeps the types; a        *)
(* cancellation pops the handle and the paused flag with it.               *)
LEMMA TypeStep == TypeOK /\ [Next]_vars => TypeOK'
<1> SUFFICES ASSUME TypeOK, [Next]_vars PROVE TypeOK'
    OBVIOUS
<1> USE DEF TypeOK, TaskState, Live, BlockedInPut, StreamState, Attached
<1>1. ASSUME NEW r \in RunIds, StartRun(r) PROVE TypeOK'
    BY <1>1 DEF StartRun, streamVars
<1>2. ASSUME NEW r \in RunIds, PauseRun(r) \/ UnpauseRun(r) PROVE TypeOK'
    BY <1>2 DEF PauseRun, UnpauseRun, streamVars, taskVars
<1>3. ASSUME NEW r \in RunIds, CancelRun(r) PROVE TypeOK'
    BY <1>3 DEF CancelRun, CancelTasks, streamVars
<1>4. ASSUME Shutdown PROVE TypeOK'
    BY <1>4 DEF Shutdown, CancelTasks, streamVars
<1>5. ASSUME NEW r \in RunIds, OrphanFetch(r) PROVE TypeOK'
    BY <1>5 DEF OrphanFetch, streamVars
<1>6. ASSUME NEW r \in RunIds, GraphEvent(r) PROVE TypeOK'
  <2>0. Append(queue[r], emitted[r] + 1) \in Seq(Nat)
      OBVIOUS
  <2>1. queue' \in [RunIds -> Seq(Nat)]
      BY <1>6, <2>0 DEF GraphEvent
  <2>2. task' \in [RunIds -> TaskState]
      BY <1>6 DEF GraphEvent
  <2> QED BY <1>6, <2>1, <2>2 DEF GraphEvent, OnlyTask, streamVars
<1>7. ASSUME NEW r \in RunIds, GraphEnd(r) PROVE TypeOK'
    BY <1>7 DEF GraphEnd, OnlyTask, streamVars
<1>8. ASSUME NEW r \in RunIds, NoInterrupt(r) PROVE TypeOK'
    BY <1>8, FinishType DEF NoInterrupt, OnlyTask, streamVars
<1>9. ASSUME NEW r \in RunIds, Interrupt(r) \/ GraphError(r) PROVE TypeOK'
  <2>1. PutLast(r, "put_interrupt") \/ PutLast(r, "put_error")
      BY <1>9 DEF Interrupt, GraphError
  <2>2. Append(queue[r], emitted[r] + 1) \in Seq(Nat)
      OBVIOUS
  <2>3. queue' \in [RunIds -> Seq(Nat)] /\ task' \in [RunIds -> TaskState]
      BY <2>1, <2>2, FinishType DEF PutLast
  <2> QED BY <1>9, <2>1, <2>3 DEF Interrupt, GraphError, PutLast, OnlyTask, streamVars
<1>10. ASSUME NEW r \in RunIds, Unblock(r) PROVE TypeOK'
  <2>1. Append(queue[r], emitted[r]) \in Seq(Nat)
      OBVIOUS
  <2>2. queue' \in [RunIds -> Seq(Nat)] /\ task' \in [RunIds -> TaskState]
    <3>1. CASE Finish(r, Append(queue[r], emitted[r]))
        BY <2>1, <3>1, FinishType
    <3>2. CASE Finish(r, queue[r])
        BY <3>2, FinishType
    <3>3. CASE /\ queue' = [queue EXCEPT ![r] = Append(@, emitted[r])]
               /\ task' = [task EXCEPT ![r] = "graph"]
        BY <2>1, <3>3
    <3> QED BY <1>10, <3>1, <3>2, <3>3 DEF Unblock
  <2> QED BY <1>10, <2>2 DEF Unblock, OnlyTask, streamVars
<1>11. ASSUME NEW r \in RunIds, DeliverCancel(r) PROVE TypeOK'
  <2>1. queue' \in [RunIds -> Seq(Nat)] /\ task' \in [RunIds -> TaskState]
      BY <1>11, FinishType DEF DeliverCancel
  <2> QED BY <1>11, <2>1 DEF DeliverCancel, OnlyTask, streamVars
<1>12. ASSUME NEW s \in Streams, NEW r \in RunIds, Connect(s, r) PROVE TypeOK'
    BY <1>12 DEF Connect, OnlyStream, taskVars
<1>13. ASSUME NEW s \in Streams, Fetch(s) PROVE TypeOK'
  <2>1. src[s] \in RunIds /\ Head(queue[src[s]]) \in Nat /\ Tail(queue[src[s]]) \in Seq(Nat)
      BY <1>13 DEF Fetch, TypeOK
  <2> QED BY <1>13, <2>1 DEF Fetch
<1>14. ASSUME NEW s \in Streams, Select(s) \/ Yield(s) \/ NextRead(s) PROVE TypeOK'
  <2>1. Append(got[s], hand[s]) \in Seq(Nat)
      OBVIOUS
  <2>2. CASE Yield(s)
      BY <2>1, <2>2 DEF Yield, OnlyStream, taskVars
  <2>3. CASE Select(s) \/ NextRead(s)
      BY <2>3 DEF Select, NextRead, OnlyStream, taskVars
  <2> QED BY <1>14, <2>2, <2>3
<1>15. ASSUME NEW s \in Streams, SeeSentinel(s) \/ SeeShutdown(s) PROVE TypeOK'
    BY <1>15 DEF SeeSentinel, SeeShutdown, EndStream, OnlyStream, taskVars
<1>16. ASSUME NEW s \in Streams, Disconnect(s) PROVE TypeOK'
    BY <1>16 DEF Disconnect, OnlyStream, taskVars
<1>17. CASE UNCHANGED vars
    BY <1>17 DEF vars
<1> QED
    BY <1>1, <1>2, <1>3, <1>4, <1>5, <1>6, <1>7, <1>8, <1>9, <1>10, <1>11, <1>12,
       <1>13, <1>14, <1>15, <1>16, <1>17 DEF Next, RunStep, StreamStep

(* The runner's state is always of its type.                               *)
THEOREM TypeCorrect == Spec => []TypeOK
<1> QED BY TypeInit, TypeStep, PTL DEF Spec

-----------------------------------------------------------------------------
(* Lemmas on the queue.                                                    *)

(* The elements of a queue after a put: the old ones, then the new one.    *)
LEMMA AppendAt ==
    ASSUME NEW q \in Seq(Nat), NEW n \in Nat
    PROVE  /\ Append(q, n) \in Seq(Nat)
           /\ DOMAIN Append(q, n) = 1..(Len(q) + 1)
           /\ DOMAIN q = 1..Len(q)
           /\ Len(Append(q, n)) = Len(q) + 1
           /\ \A i \in 1..Len(q) : Append(q, n)[i] = q[i]
           /\ Append(q, n)[Len(q) + 1] = n
OBVIOUS

(* The elements of a queue after a get: the old ones, one place earlier.   *)
LEMMA TailAt ==
    ASSUME NEW q \in Seq(Nat), q # <<>>
    PROVE  /\ DOMAIN Tail(q) = 1..(Len(q) - 1)
           /\ DOMAIN q = 1..Len(q)
           /\ Len(q) \in Nat \ {0}
           /\ Head(q) = q[1]
           /\ \A i \in 1..(Len(q) - 1) : Tail(q)[i] = q[i + 1]
OBVIOUS

(* The part of the invariant that speaks of items.                         *)
ItemInv ==
    QueueSorted /\ PendingIsNewest /\ QueueIsNewer /\ HandIsNewer
    /\ StreamOrigin /\ OrderedAtMostOnce

(* A step of the task of run r, seen from its queue: q is the queue after  *)
(* the items of the step, last the number of the run's newest item.        *)
TaskStep(r) ==
    /\ UNCHANGED streamVars /\ UNCHANGED <<active, shutdown, orphans>>
    /\ task[r] \in Live
    /\ task[r] = "put_sentinel" => task'[r] \in {"put_sentinel", "done"}
    /\ \A x \in RunIds \ {r} : queue'[x] = queue[x] /\ emitted'[x] = emitted[x]
                               /\ task'[x] = task[x] /\ cancel'[x] = cancel[x]
    /\ \/ cancel'[r] = cancel[r] /\ cancel[r] # "requested"
       \/ /\ cancel[r] = "requested" /\ cancel'[r] = "over"
          /\ task'[r] \in {"put_sentinel", "done"}
    /\ \/ emitted'[r] = emitted[r]
       \/ /\ emitted'[r] = emitted[r] + 1
          /\ task[r] \in Live \ (BlockedInPut \cup {"put_sentinel"})
    /\ \/ /\ queue'[r] = queue[r]
          /\ task'[r] \in BlockedInPut <=> emitted'[r] > emitted[r]
          /\ task'[r] \in Live \cup {"done"}
          /\ cancel'[r] # "over" => task[r] \notin BlockedInPut
       \/ /\ queue'[r] = Append(queue[r], emitted'[r])
          /\ emitted'[r] > emitted[r] \/ task[r] \in BlockedInPut
          /\ task'[r] \in Live \ BlockedInPut
          /\ cancel'[r] = cancel[r]
       \/ /\ queue'[r] = Append(queue[r], Sentinel)
          /\ emitted'[r] = emitted[r]
          /\ task'[r] = "done"
          /\ cancel'[r] # "over" => task[r] \notin BlockedInPut
       \/ /\ queue'[r] = Append(Append(queue[r], emitted'[r]), Sentinel)
          /\ emitted'[r] > emitted[r] \/ task[r] \in BlockedInPut
          /\ task'[r] = "done"
          /\ cancel'[r] = cancel[r]

(* The new item, if there is one, is newer than everything the queue and   *)
(* the streams of the run have seen, and is put behind it.                 *)
Fresh(r) == emitted'[r] > emitted[r] \/ task[r] \in BlockedInPut

(* An item that the task puts, new or blocked until now, is newer than     *)
(* everything in the queue, in a hand or yielded.                          *)
LEMMA FreshIsNewest ==
    ASSUME TypeOK, ItemInv, NEW r \in RunIds, TaskStep(r), emitted'[r] \in Nat, Fresh(r)
    PROVE  /\ emitted'[r] > 0
           /\ \A i \in DOMAIN queue[r] : queue[r][i] < emitted'[r]
           /\ \A s \in Streams : src[s] = r =>
                 hand[s] < emitted'[r] /\ \A k \in DOMAIN got[s] : got[s][k] < emitted'[r]
<1>0. emitted[r] \in Nat /\ queue[r] \in Seq(Nat)
    BY DEF TypeOK
<1>1. CASE emitted'[r] > emitted[r]
  <2>1. \A i \in DOMAIN queue[r] : queue[r][i] <= emitted[r] /\ queue[r][i] \in Nat
      BY <1>0 DEF ItemInv, QueueSorted
  <2>2. ASSUME NEW s \in Streams, src[s] = r
        PROVE  /\ hand[s] <= emitted[r] /\ hand[s] \in Nat
               /\ \A k \in DOMAIN got[s] : got[s][k] <= emitted[r] /\ got[s][k] \in Nat
      BY <2>2 DEF ItemInv, QueueIsNewer, TypeOK
  <2> QED BY <1>0, <1>1, <2>1, <2>2
<1>2. CASE task[r] \in BlockedInPut
  <2>1. emitted'[r] = emitted[r]
      BY <1>2 DEF TaskStep
  <2> QED BY <1>0, <1>2, <2>1 DEF ItemInv, PendingIsNewest
<1> QED BY <1>1, <1>2 DEF Fresh

(* What a step of a task puts keeps the queue sorted, and the sentinel is  *)
(* only put by a task that is then done.                                   *)
LEMMA QueueAfter ==
    ASSUME TypeOK, TypeOK', ItemInv, NEW r \in RunIds, TaskStep(r)
    PROVE  /\ \A i \in DOMAIN queue[r] : queue[r][i] # Sentinel
           /\ \A i \in DOMAIN queue'[r] :
                 \/ i \in DOMAIN queue[r] /\ queue'[r][i] = queue[r][i]
                 \/ /\ i = Len(queue[r]) + 1 /\ queue'[r][i] = emitted'[r]
                    /\ Fresh(r) /\ task'[r] \notin BlockedInPut
                 \/ /\ i > Len(queue[r]) /\ i = Len(queue'[r])
                    /\ queue'[r][i] = Sentinel /\ task'[r] = "done"
<1>1. /\ queue[r] \in Seq(Nat) /\ emitted'[r] \in Nat
      /\ DOMAIN queue[r] = 1..Len(queue[r])
    BY DEF TypeOK
<1>2. \A i \in DOMAIN queue[r] : queue[r][i] # Sentinel
    BY DEF TaskStep, ItemInv, QueueSorted, Live, BlockedInPut
<1>3. CASE queue'[r] = queue[r]
    BY <1>2, <1>3
<1>4. CASE queue'[r] = Append(queue[r], emitted'[r]) /\ Fresh(r) /\ task'[r] \in Live \ BlockedInPut
    BY <1>1, <1>2, <1>4, AppendAt
<1>5. CASE queue'[r] = Append(queue[r], Sentinel) /\ task'[r] = "done"
    BY <1>1, <1>2, <1>5, AppendAt
<1>6. CASE /\ queue'[r] = Append(Append(queue[r], emitted'[r]), Sentinel)
           /\ Fresh(r) /\ task'[r] = "done"
  <2>1. Append(queue[r], emitted'[r]) \in Seq(Nat)
      BY <1>1
  <2>2. "done" \notin BlockedInPut
      BY DEF BlockedInPut
  <2> QED BY <1>1, <1>2, <1>6, <2>1, <2>2, AppendAt
<1> QED BY <1>3, <1>4, <1>5, <1>6 DEF TaskStep, Fresh

(* A step of a task keeps the items in order.                              *)
LEMMA TaskStepInv ==
    ASSUME TypeOK, TypeOK', ItemInv, NEW r \in RunIds, TaskStep(r)
    PROVE  ItemInv'
<1>0. /\ src' = src /\ pc' = pc /\ hand' = hand /\ got' = got
      /\ \A x \in RunIds \ {r} : queue'[x] = queue[x] /\ emitted'[x] = emitted[x]
                                /\ task'[x] = task[x]
    BY DEF TaskStep, streamVars
<1>1. /\ emitted[r] \in Nat /\ emitted'[r] \in Nat /\ emitted[r] <= emitted'[r]
      /\ queue[r] \in Seq(Nat) /\ queue'[r] \in Seq(Nat)
      /\ DOMAIN queue[r] = 1..Len(queue[r]) /\ DOMAIN queue'[r] = 1..Len(queue'[r])
      /\ \A i \in DOMAIN queue[r] : queue[r][i] \in Nat
      /\ Len(queue[r]) \in Nat
    BY DEF TypeOK, TaskStep
<1>2. task[r] # "done"
    BY DEF TaskStep, Live, BlockedInPut
<1>3. QueueSorted'
  <2>1. ASSUME NEW i \in DOMAIN queue'[r] PROVE queue'[r][i] <= emitted'[r]
    <3>1. \A k \in DOMAIN queue[r] : queue[r][k] <= emitted[r]
        BY DEF ItemInv, QueueSorted
    <3>2. \/ i \in DOMAIN queue[r] /\ queue'[r][i] = queue[r][i]
          \/ queue'[r][i] = emitted'[r]
          \/ queue'[r][i] = Sentinel
        BY QueueAfter
    <3>3. emitted[r] \in Nat /\ emitted'[r] \in Nat /\ emitted[r] <= emitted'[r]
        BY <1>1
    <3>4. CASE i \in DOMAIN queue[r] /\ queue'[r][i] = queue[r][i]
      <4>1. queue[r][i] \in Nat /\ queue[r][i] <= emitted[r]
          BY <1>1, <3>1, <3>4
      <4>2. queue[r][i] <= emitted'[r]
          BY <3>3, <4>1
      <4> QED BY <3>4, <4>2
    <3>5. CASE queue'[r][i] = emitted'[r] \/ queue'[r][i] = Sentinel
        BY <3>3, <3>5 DEF Sentinel
    <3> QED BY <3>2, <3>4, <3>5
  <2>2. ASSUME NEW i \in DOMAIN queue'[r], NEW j \in DOMAIN queue'[r], i < j
        PROVE  queue'[r][i] # Sentinel
    <3>1. i # Len(queue'[r])
        BY <1>1, <2>2
    <3>2. \/ i \in DOMAIN queue[r] /\ queue'[r][i] = queue[r][i] /\ queue[r][i] # Sentinel
          \/ queue'[r][i] = emitted'[r] /\ Fresh(r)
        BY <3>1, QueueAfter
    <3>3. Fresh(r) => emitted'[r] # Sentinel
        BY <1>1, FreshIsNewest DEF Sentinel
    <3> QED BY <3>2, <3>3
  <2>3. ASSUME NEW i \in DOMAIN queue'[r], NEW j \in DOMAIN queue'[r], i < j,
               queue'[r][j] # Sentinel
        PROVE  queue'[r][i] < queue'[r][j]
    <3>1. i # Len(queue'[r])
        BY <1>1, <2>3
    <3>2. j \in DOMAIN queue[r] \/ j = Len(queue[r]) + 1
        BY <1>1, <2>3, QueueAfter
    <3>2a. i <= Len(queue[r])
        BY <1>1, <2>3, <3>2
    <3>2b. queue'[r][i] = queue[r][i] /\ i \in DOMAIN queue[r]
      <4>1. \/ i \in DOMAIN queue[r] /\ queue'[r][i] = queue[r][i]
            \/ i = Len(queue[r]) + 1
            \/ i > Len(queue[r])
          BY QueueAfter
      <4> QED BY <1>1, <3>2a, <4>1
    <3>3. CASE j \in DOMAIN queue[r] /\ queue'[r][j] = queue[r][j]
        BY <2>3, <3>2b, <3>3 DEF ItemInv, QueueSorted
    <3>4. CASE queue'[r][j] = emitted'[r] /\ Fresh(r)
        BY <1>1, <3>2b, <3>4, FreshIsNewest
    <3> QED BY <2>3, <3>3, <3>4, QueueAfter
  <2>4. \A i \in DOMAIN queue'[r] : queue'[r][i] = Sentinel => task'[r] = "done"
      BY <1>1, QueueAfter, FreshIsNewest
  <2> QED BY <1>0, <2>1, <2>2, <2>3, <2>4 DEF ItemInv, QueueSorted
<1>4. PendingIsNewest'
  <2>1. ASSUME task'[r] \in BlockedInPut
        PROVE  queue'[r] = queue[r] /\ Fresh(r)
      BY <2>1 DEF TaskStep, Fresh, BlockedInPut
  <2> QED BY <1>0, <1>1, <2>1, FreshIsNewest DEF ItemInv, PendingIsNewest
<1>5. QueueIsNewer'
  <2>1. ASSUME NEW s \in Streams, src[s] = r
        PROVE  /\ hand[s] <= emitted'[r]
               /\ \A k \in DOMAIN got[s] : got[s][k] <= emitted'[r]
    <3>1. /\ hand[s] \in Nat /\ hand[s] <= emitted[r]
          /\ \A k \in DOMAIN got[s] : got[s][k] \in Nat /\ got[s][k] <= emitted[r]
        BY <2>1 DEF TypeOK, ItemInv, QueueIsNewer
    <3> QED BY <1>1, <3>1
  <2>2. ASSUME NEW s \in Streams, src[s] = r, NEW i \in DOMAIN queue'[r], queue'[r][i] # Sentinel
        PROVE  hand[s] < queue'[r][i] /\ \A k \in DOMAIN got[s] : got[s][k] < queue'[r][i]
    <3>1. CASE i \in DOMAIN queue[r] /\ queue'[r][i] = queue[r][i]
        BY <2>2, <3>1 DEF ItemInv, QueueIsNewer
    <3>2. CASE queue'[r][i] = emitted'[r] /\ Fresh(r)
        BY <1>1, <2>2, <3>2, FreshIsNewest
    <3> QED BY <2>2, <3>1, <3>2, QueueAfter
  <2> QED BY <1>0, <2>1, <2>2 DEF ItemInv, QueueIsNewer
<1>6. HandIsNewer'
    BY <1>0 DEF ItemInv, HandIsNewer, Holding
<1>7. StreamOrigin'
  <2>1. ASSUME NEW s \in Streams, Holding(s), hand[s] = Sentinel
        PROVE  task'[src[s]] = "done"
    <3>1. task[src[s]] = "done" /\ src[s] \in RunIds
        BY <2>1 DEF ItemInv, StreamOrigin, TypeOK, Holding
    <3> QED BY <1>0, <1>2, <3>1
  <2> QED BY <1>0, <2>1 DEF ItemInv, StreamOrigin, Holding
<1>8. OrderedAtMostOnce'
    BY <1>0 DEF ItemInv, OrderedAtMostOnce
<1> QED BY <1>3, <1>4, <1>5, <1>6, <1>7, <1>8 DEF ItemInv

-----------------------------------------------------------------------------
(* The steps of a task are TaskSteps.                                      *)

(* The finally clause of _execute puts the sentinel and is done, or leaves *)
(* the queue as it was given and blocks.                                   *)
LEMMA FinishIs ==
    ASSUME TypeOK, NEW r \in RunIds, NEW q \in Seq(Nat), Finish(r, q)
    PROVE  /\ \/ queue'[r] = q /\ task'[r] = "put_sentinel"
              \/ queue'[r] = Append(q, Sentinel) /\ task'[r] = "done"
           /\ \A x \in RunIds \ {r} : queue'[x] = queue[x] /\ task'[x] = task[x]
<1>1. r \in DOMAIN queue /\ r \in DOMAIN task /\ DOMAIN queue = RunIds /\ DOMAIN task = RunIds
    BY DEF TypeOK
<1> QED BY <1>1 DEF Finish

(* What the actions of a task (_execute) have in common: the streams and   *)
(* the handles stay, and a task that was sent a cancellation takes no step *)
(* before it is delivered.                                                 *)
LEMMA TaskGuard ==
    ASSUME TypeOK, TypeOK', NEW r \in RunIds, RunStep(r)
    PROVE  /\ UNCHANGED streamVars /\ UNCHANGED <<active, shutdown, orphans>>
           /\ task[r] \in Live
           /\ \A x \in RunIds \ {r} : emitted'[x] = emitted[x] /\ cancel'[x] = cancel[x]
           /\ \/ cancel' = cancel /\ cancel[r] # "requested" /\ ~DeliverCancel(r)
              \/ /\ cancel[r] = "requested" /\ cancel'[r] = "over"
                 /\ emitted' = emitted /\ DeliverCancel(r)
<1> USE DEF Live, BlockedInPut, TypeOK, OnlyTask, Runs
<1>1. CASE GraphEvent(r) \/ GraphEnd(r) \/ NoInterrupt(r)
    BY <1>1 DEF GraphEvent, GraphEnd, NoInterrupt, DeliverCancel
<1>2. CASE Interrupt(r) \/ GraphError(r)
    BY <1>2 DEF Interrupt, GraphError, PutLast, DeliverCancel
<1>3. CASE Unblock(r)
    BY <1>3 DEF Unblock, DeliverCancel
<1>4. CASE DeliverCancel(r)
    BY <1>4 DEF DeliverCancel
<1> QED BY <1>1, <1>2, <1>3, <1>4 DEF RunStep

(* Every action of a task (_execute) is a TaskStep.                        *)
LEMMA TaskActions ==
    ASSUME TypeOK, TypeOK', NEW r \in RunIds, RunStep(r)
    PROVE  TaskStep(r)
<1> USE DEF Live, BlockedInPut
<1>1. /\ queue \in [RunIds -> Seq(Nat)] /\ emitted \in [RunIds -> Nat]
      /\ task \in [RunIds -> TaskState] /\ emitted[r] \in Nat
      /\ Append(queue[r], emitted[r]) \in Seq(Nat)
      /\ Append(queue[r], emitted[r] + 1) \in Seq(Nat)
    BY DEF TypeOK
<1>2. CASE GraphEvent(r)
  <2>1. cancel' = cancel /\ cancel[r] # "requested"
      BY <1>2 DEF GraphEvent, Runs
  <2> QED BY <1>1, <1>2, <2>1, TaskGuard DEF GraphEvent, TaskStep, Runs
<1>3. CASE GraphEnd(r)
    BY <1>1, <1>3, TaskGuard DEF GraphEnd, TaskStep, Runs
<1>4. CASE NoInterrupt(r)
    BY <1>1, <1>4, TaskGuard, FinishIs DEF NoInterrupt, TaskStep, Runs
<1>5. CASE Interrupt(r) \/ GraphError(r)
  <2>1. /\ task[r] \in {"graph", "check"}
        /\ cancel' = cancel /\ cancel[r] # "requested"
        /\ PutLast(r, "put_interrupt") \/ PutLast(r, "put_error")
      BY <1>5 DEF Interrupt, GraphError, Runs, PutLast
  <2>2. emitted'[r] = emitted[r] + 1
      BY <1>1, <2>1 DEF PutLast
  <2>3. CASE Finish(r, Append(queue[r], emitted[r] + 1))
    <3>1. /\ \/ /\ queue'[r] = Append(queue[r], emitted[r] + 1)
                /\ task'[r] = "put_sentinel"
             \/ /\ queue'[r] = Append(Append(queue[r], emitted[r] + 1), Sentinel)
                /\ task'[r] = "done"
          /\ \A x \in RunIds \ {r} : queue'[x] = queue[x] /\ task'[x] = task[x]
        BY <1>1, <2>3, FinishIs
    <3> QED BY <1>1, <2>1, <2>2, <3>1, TaskGuard DEF TaskStep
  <2>4. CASE /\ queue' = queue
             /\ task' = [task EXCEPT ![r] = "put_interrupt"] \/ task' = [task EXCEPT ![r] = "put_error"]
      BY <1>1, <2>1, <2>2, <2>4, TaskGuard DEF TaskStep
  <2> QED BY <2>1, <2>3, <2>4 DEF PutLast
<1>6. CASE Unblock(r)
  <2>1. cancel' = cancel /\ emitted' = emitted /\ cancel[r] # "requested"
      BY <1>6 DEF Unblock, Runs
  <2>2. CASE task[r] = "put_event" /\ queue' = [queue EXCEPT ![r] = Append(@, emitted[r])]
             /\ task' = [task EXCEPT ![r] = "graph"]
      BY <1>1, <2>1, <2>2, TaskGuard DEF TaskStep
  <2>3. CASE task[r] \in {"put_interrupt", "put_error"} /\ Finish(r, Append(queue[r], emitted[r]))
      BY <1>1, <2>1, <2>3, FinishIs, TaskGuard DEF TaskStep
  <2>4. CASE task[r] = "put_sentinel" /\ Finish(r, queue[r])
      BY <1>1, <2>1, <2>4, FinishIs, TaskGuard DEF TaskStep
  <2> QED BY <1>6, <2>2, <2>3, <2>4 DEF Unblock, Runs
<1>7. CASE DeliverCancel(r)
  <2>1. cancel[r] = "requested" /\ cancel'[r] = "over" /\ emitted' = emitted
      BY <1>7, TaskGuard
  <2>2. CASE task[r] \in Live \ {"put_sentinel"} /\ Finish(r, queue[r])
      BY <1>1, <2>1, <2>2, FinishIs, TaskGuard DEF TaskStep
  <2>3. CASE task[r] = "put_sentinel" /\ task' = [task EXCEPT ![r] = "done"] /\ queue' = queue
      BY <1>1, <2>1, <2>3, TaskGuard DEF TaskStep
  <2> QED BY <1>7, <2>2, <2>3 DEF DeliverCancel
<1> QED BY <1>2, <1>3, <1>4, <1>5, <1>6, <1>7 DEF RunStep

-----------------------------------------------------------------------------
(* The other steps.                                                        *)

(* Steps that touch neither the items nor the streams.                     *)
LEMMA ItemFrame ==
    ASSUME ItemInv, UNCHANGED <<queue, emitted>>, UNCHANGED streamVars,
           \A r \in RunIds : task'[r] = task[r] \/ (task[r] = "none" /\ task'[r] = "graph"),
           TypeOK
    PROVE  ItemInv'
<1>1. \A r \in RunIds : /\ task[r] = "done" => task'[r] = "done"
                        /\ task'[r] \in BlockedInPut => task[r] \in BlockedInPut
    BY DEF BlockedInPut
<1>2. QueueSorted' /\ PendingIsNewest' /\ QueueIsNewer'
    BY <1>1 DEF ItemInv, QueueSorted, PendingIsNewest, QueueIsNewer, streamVars
<1>3. HandIsNewer' /\ OrderedAtMostOnce'
    BY DEF ItemInv, HandIsNewer, Holding, OrderedAtMostOnce, streamVars
<1>4. StreamOrigin'
    BY <1>1 DEF ItemInv, StreamOrigin, Holding, streamVars, TypeOK
<1> QED BY <1>2, <1>3, <1>4 DEF ItemInv

(* Opening a stream keeps the items in order: it starts with nothing read  *)
(* and nothing yielded.                                                    *)
LEMMA ConnectInv ==
    ASSUME TypeOK, ItemInv, NEW s \in Streams, NEW r \in RunIds, Connect(s, r)
    PROVE  ItemInv'
<1>1. /\ got[s] = <<>> /\ hand[s] = Sentinel /\ pc[s] = "off"
      /\ UNCHANGED <<queue, emitted, task, hand, got>>
      /\ src' = [src EXCEPT ![s] = r]
      /\ pc'[s] \in {"waiting", "ended"}
      /\ \A t \in Streams \ {s} : pc'[t] = pc[t] /\ src'[t] = src[t]
    BY DEF Connect, ItemInv, StreamOrigin, OnlyStream, taskVars, TypeOK
<1>2. src'[s] = r /\ ~Holding(s)' /\ \A t \in Streams \ {s} : Holding(t)' <=> Holding(t)
    BY <1>1 DEF TypeOK, Holding
<1>3. QueueSorted'
    BY <1>1 DEF ItemInv, QueueSorted
<1>4. DOMAIN got[s] = {}
    BY <1>1
<1>5. \A x \in RunIds : emitted[x] \in Nat /\ \A i \in DOMAIN queue[x] : queue[x][i] \in Nat
    BY DEF TypeOK
<1>6. PendingIsNewest'
    BY <1>1, <1>2, <1>4, <1>5 DEF ItemInv, PendingIsNewest
<1>7. QueueIsNewer'
    BY <1>1, <1>2, <1>4, <1>5 DEF ItemInv, QueueIsNewer
<1>8. HandIsNewer'
    BY <1>1, <1>2, <1>4 DEF ItemInv, HandIsNewer
<1>9. StreamOrigin'
    BY <1>1, <1>2 DEF ItemInv, StreamOrigin
<1>10. OrderedAtMostOnce'
    BY <1>1, <1>2, <1>4 DEF ItemInv, OrderedAtMostOnce
<1> QED BY <1>3, <1>6, <1>7, <1>8, <1>9, <1>10 DEF ItemInv

(* A stream moves on without reading or yielding.                          *)
LEMMA MoveInv ==
    ASSUME TypeOK, ItemInv, NEW s \in Streams, pc[s] # "off",
           UNCHANGED <<queue, emitted, task, src, hand, got>>,
           NEW w \in StreamState, pc' = [pc EXCEPT ![s] = w],
           w # "off", w \in {"fetched", "selected"} => Holding(s)
    PROVE  ItemInv'
<1>1. \A t \in Streams : /\ pc'[t] = "off" => pc[t] = "off"
                         /\ Holding(t)' => Holding(t)
  <2>1. pc'[s] = w /\ \A t \in Streams \ {s} : pc'[t] = pc[t]
      BY DEF TypeOK
  <2> QED BY <2>1 DEF Holding
<1>2. QueueSorted' /\ PendingIsNewest' /\ QueueIsNewer' /\ OrderedAtMostOnce'
    BY DEF ItemInv, QueueSorted, PendingIsNewest, QueueIsNewer, OrderedAtMostOnce
<1>3. HandIsNewer'
    BY <1>1 DEF ItemInv, HandIsNewer
<1>4. StreamOrigin'
    BY <1>1 DEF ItemInv, StreamOrigin
<1> QED BY <1>2, <1>3, <1>4 DEF ItemInv

(* The head of the queue of r is taken out.                                *)
Takes(r) ==
    /\ queue[r] # <<>>
    /\ queue' = [queue EXCEPT ![r] = Tail(@)]
    /\ UNCHANGED <<emitted, task, src, got>>

(* A get leaves a queue whose elements all were in it before.              *)
LEMMA TakeShrinks ==
    ASSUME TypeOK, NEW r \in RunIds, Takes(r)
    PROVE  /\ \A x \in RunIds \ {r} : queue'[x] = queue[x]
           /\ DOMAIN queue[r] = 1..Len(queue[r]) /\ Len(queue[r]) \in Nat \ {0}
           /\ DOMAIN queue'[r] = 1..(Len(queue[r]) - 1)
           /\ \A i \in DOMAIN queue'[r] : i + 1 \in DOMAIN queue[r] /\ queue'[r][i] = queue[r][i + 1]
           /\ Head(queue[r]) = queue[r][1]
<1>1. queue[r] \in Seq(Nat) /\ queue'[r] = Tail(queue[r])
    BY DEF TypeOK, Takes
<1>2. queue[r] # <<>>
    BY DEF Takes
<1>3. \A x \in RunIds \ {r} : queue'[x] = queue[x]
    BY DEF TypeOK, Takes
<1> QED BY <1>1, <1>2, <1>3, TailAt

(* A get keeps the queues sorted, and what it took is older than what      *)
(* stays.                                                                  *)
LEMMA TakeSorted ==
    ASSUME TypeOK, ItemInv, NEW r \in RunIds, Takes(r)
    PROVE  QueueSorted'
<1>1. ASSUME NEW i \in DOMAIN queue'[r]
      PROVE  /\ queue'[r][i] <= emitted'[r]
             /\ queue'[r][i] = Sentinel => task'[r] = "done"
  <2>1. i + 1 \in DOMAIN queue[r] /\ queue'[r][i] = queue[r][i + 1]
      BY TakeShrinks
  <2>2. emitted' = emitted /\ task' = task
      BY DEF Takes
  <2> QED BY <2>1, <2>2 DEF ItemInv, QueueSorted
<1>2. ASSUME NEW i \in DOMAIN queue'[r], NEW j \in DOMAIN queue'[r], i < j
      PROVE  /\ queue'[r][i] # Sentinel
             /\ queue'[r][j] # Sentinel => queue'[r][i] < queue'[r][j]
  <2>1. /\ i + 1 \in DOMAIN queue[r] /\ j + 1 \in DOMAIN queue[r] /\ i + 1 < j + 1
        /\ queue'[r][i] = queue[r][i + 1] /\ queue'[r][j] = queue[r][j + 1]
      BY <1>2, TakeShrinks
  <2> QED BY <2>1 DEF ItemInv, QueueSorted
<1> QED BY <1>1, <1>2, TakeShrinks DEF ItemInv, QueueSorted, Takes

(* An abandoned get() that takes an item keeps the remaining ones in       *)
(* order.                                                                  *)
LEMMA OrphanFetchInv ==
    ASSUME TypeOK, ItemInv, NEW r \in RunIds, Takes(r), UNCHANGED <<pc, hand>>
    PROVE  ItemInv'
<1>1. QueueSorted'
    BY TakeSorted
<1>2. \A x \in RunIds : \A i \in DOMAIN queue'[x] :
         \E j \in DOMAIN queue[x] : queue'[x][i] = queue[x][j]
    BY TakeShrinks
<1>2a. PendingIsNewest'
    BY <1>2 DEF ItemInv, PendingIsNewest, Takes
<1>2b. QueueIsNewer'
    BY <1>2 DEF ItemInv, QueueIsNewer, Takes
<1>3. HandIsNewer' /\ StreamOrigin' /\ OrderedAtMostOnce'
    BY DEF ItemInv, HandIsNewer, StreamOrigin, OrderedAtMostOnce, Holding, Takes
<1> QED BY <1>1, <1>2a, <1>2b, <1>3 DEF ItemInv

(* A stream that gets an item holds one that is newer than everything      *)
(* yielded and that no other stream holds.                                 *)
LEMMA FetchInv ==
    ASSUME TypeOK, ItemInv, NEW s \in Streams, Fetch(s)
    PROVE  ItemInv'
<1> DEFINE r == src[s]
<1>1. /\ r \in RunIds /\ Takes(r) /\ pc[s] = "waiting"
      /\ hand' = [hand EXCEPT ![s] = Head(queue[r])]
      /\ pc' = [pc EXCEPT ![s] = "fetched"]
    BY DEF Fetch, Takes, TypeOK
<1> HIDE DEF r
<1>2. /\ 1 \in DOMAIN queue[r] /\ hand'[s] = queue[r][1]
      /\ \A t \in Streams \ {s} : hand'[t] = hand[t] /\ pc'[t] = pc[t]
      /\ pc'[s] = "fetched" /\ src' = src /\ got' = got /\ emitted' = emitted /\ task' = task
    BY <1>1, TakeShrinks DEF Takes, TypeOK
<1>3. QueueSorted'
    BY <1>1, TakeSorted
<1>4. \A x \in RunIds : /\ emitted[x] \in Nat
                        /\ \A i \in DOMAIN queue[x] : queue[x][i] \in Nat
    BY DEF TypeOK
<1>5. src[s] = r
    BY DEF r
<1>6. PendingIsNewest'
    BY <1>1, <1>2, <1>5, TakeShrinks DEF ItemInv, PendingIsNewest
<1>7. QueueIsNewer'
  <2>1. ASSUME NEW i \in DOMAIN queue'[r], queue'[r][i] # Sentinel
        PROVE  hand'[s] < queue'[r][i]
    <3>1. /\ i + 1 \in DOMAIN queue[r] /\ 1 < i + 1 /\ queue'[r][i] = queue[r][i + 1]
        BY <1>1, TakeShrinks
    <3> QED BY <1>1, <1>2, <2>1, <3>1 DEF ItemInv, QueueSorted
  <2>2. hand'[s] <= emitted[r]
      BY <1>1, <1>2 DEF ItemInv, QueueSorted
  <2> QED BY <1>1, <1>2, <1>5, <2>1, <2>2, TakeShrinks DEF ItemInv, QueueIsNewer
<1>8. ASSUME hand'[s] # Sentinel, NEW t \in Streams, src[t] = r
      PROVE  /\ \A k \in DOMAIN got[t] : got[t][k] < hand'[s]
             /\ hand[t] < hand'[s]
    BY <1>1, <1>2, <1>8 DEF ItemInv, QueueIsNewer
<1>9. \A t \in Streams : hand[t] \in Nat /\ \A k \in DOMAIN got[t] : got[t][k] \in Nat
    BY DEF TypeOK
<1>10. hand'[s] \in Nat
    BY <1>1, <1>2, <1>4
<1>11. HandIsNewer'
    BY <1>2, <1>5, <1>8, <1>9, <1>10 DEF ItemInv, HandIsNewer, Holding
<1>12. StreamOrigin'
    BY <1>1, <1>2, <1>5 DEF ItemInv, StreamOrigin, QueueSorted, Holding
<1>13. OrderedAtMostOnce'
    BY <1>2 DEF ItemInv, OrderedAtMostOnce
<1> QED BY <1>3, <1>6, <1>7, <1>11, <1>12, <1>13 DEF ItemInv

(* Yielding the item in hand keeps what is yielded in order and without    *)
(* repetition across the streams of the run.                               *)
LEMMA YieldInv ==
    ASSUME TypeOK, ItemInv, NEW s \in Streams, Yield(s)
    PROVE  ItemInv'
<1>1. /\ Holding(s) /\ hand[s] # Sentinel /\ src[s] \in RunIds
      /\ UNCHANGED <<queue, emitted, task, src, hand>>
      /\ got'[s] = Append(got[s], hand[s])
      /\ \A t \in Streams \ {s} : got'[t] = got[t] /\ pc'[t] = pc[t]
      /\ pc'[s] = "yielding"
    BY DEF Yield, OnlyStream, taskVars, TypeOK, Holding
<1>2. /\ got[s] \in Seq(Nat) /\ hand[s] \in Nat
      /\ \A t \in Streams : hand[t] \in Nat /\ \A k \in DOMAIN got[t] : got[t][k] \in Nat
    BY DEF TypeOK
<1>3. /\ DOMAIN got[s] = 1..Len(got[s]) /\ Len(got[s]) \in Nat
      /\ DOMAIN got'[s] = 1..(Len(got[s]) + 1)
      /\ \A k \in DOMAIN got[s] : got'[s][k] = got[s][k]
      /\ got'[s][Len(got[s]) + 1] = hand[s]
    BY <1>1, <1>2, AppendAt
<1>4. \A k \in DOMAIN got'[s] : got'[s][k] = hand[s] \/ \E m \in DOMAIN got[s] : got'[s][k] = got[s][m]
    BY <1>3
<1>5. ~Holding(s)' /\ \A t \in Streams \ {s} : Holding(t)' <=> Holding(t)
    BY <1>1 DEF Holding
<1>6. QueueSorted'
    BY <1>1 DEF ItemInv, QueueSorted
<1>7. PendingIsNewest'
  <2>1. ASSUME task[src[s]] \in BlockedInPut, NEW k \in DOMAIN got'[s]
        PROVE  got'[s][k] < emitted[src[s]]
    <3>1. hand[s] < emitted[src[s]] /\ \A m \in DOMAIN got[s] : got[s][m] < emitted[src[s]]
        BY <1>1, <2>1 DEF ItemInv, PendingIsNewest
    <3> QED BY <1>4, <3>1
  <2> QED BY <1>1, <2>1 DEF ItemInv, PendingIsNewest
<1>8. QueueIsNewer'
  <2>1. ASSUME NEW k \in DOMAIN got'[s]
        PROVE  /\ got'[s][k] <= emitted[src[s]]
               /\ \A i \in DOMAIN queue[src[s]] :
                     queue[src[s]][i] # Sentinel => got'[s][k] < queue[src[s]][i]
    <3>1. \A n \in {hand[s]} \cup {got[s][m] : m \in DOMAIN got[s]} :
             /\ n <= emitted[src[s]]
             /\ \A i \in DOMAIN queue[src[s]] :
                   queue[src[s]][i] # Sentinel => n < queue[src[s]][i]
        BY <1>1 DEF ItemInv, QueueIsNewer
    <3>2. got'[s][k] \in {hand[s]} \cup {got[s][m] : m \in DOMAIN got[s]}
        BY <1>4
    <3> QED BY <3>1, <3>2
  <2>2. ASSUME NEW x \in RunIds, NEW t \in Streams, src[t] = x
        PROVE  /\ hand[t] <= emitted[x]
               /\ \A k \in DOMAIN got'[t] : got'[t][k] <= emitted[x]
               /\ \A i \in DOMAIN queue[x] : queue[x][i] # Sentinel =>
                     hand[t] < queue[x][i] /\ \A k \in DOMAIN got'[t] : got'[t][k] < queue[x][i]
    <3>1. /\ hand[t] <= emitted[x]
          /\ \A i \in DOMAIN queue[x] : queue[x][i] # Sentinel => hand[t] < queue[x][i]
        BY <2>2 DEF ItemInv, QueueIsNewer
    <3>2. CASE t = s
        BY <2>1, <2>2, <3>1, <3>2
    <3>3. CASE t # s
      <4>1. got'[t] = got[t]
          BY <1>1, <3>3
      <4> QED BY <2>2, <4>1 DEF ItemInv, QueueIsNewer
    <3> QED BY <3>2, <3>3
  <2>3. src' = src /\ hand' = hand /\ emitted' = emitted /\ queue' = queue
      BY <1>1
  <2> QED BY <2>2, <2>3 DEF QueueIsNewer
<1>9. ASSUME NEW t \in Streams \ {s}, src[t] = src[s]
      PROVE  /\ Holding(t) => hand[t] # hand[s]
             /\ \A k \in DOMAIN got[t] : got[t][k] # hand[s]
    BY <1>1, <1>9 DEF ItemInv, HandIsNewer
<1>10. HandIsNewer'
  <2>1. ASSUME NEW t \in Streams \ {s}, Holding(t), hand[t] # Sentinel, src[t] = src[s],
               NEW k \in DOMAIN got'[s]
        PROVE  got'[s][k] # hand[t]
      BY <1>4, <1>9, <2>1 DEF ItemInv, HandIsNewer
  <2> QED BY <1>1, <1>5, <2>1 DEF ItemInv, HandIsNewer
<1>11. StreamOrigin'
    BY <1>1, <1>5 DEF ItemInv, StreamOrigin
<1>12. OrderedAtMostOnce'
  <2>1. ASSUME NEW j \in DOMAIN got'[s], NEW k \in DOMAIN got'[s], j < k
        PROVE  got'[s][j] < got'[s][k]
    <3>1. j \in DOMAIN got[s] /\ got'[s][j] = got[s][j]
        BY <1>3, <2>1
    <3>2. CASE k \in DOMAIN got[s]
        BY <1>3, <2>1, <3>1, <3>2 DEF ItemInv, OrderedAtMostOnce
    <3>3. CASE k = Len(got[s]) + 1
        BY <1>1, <1>3, <3>1, <3>3 DEF ItemInv, HandIsNewer
    <3> QED BY <1>3, <3>2, <3>3
  <2>2. ASSUME NEW t \in Streams \ {s}, src[t] = src[s], NEW j \in DOMAIN got'[s], NEW k \in DOMAIN got[t]
        PROVE  got'[s][j] # got[t][k]
    <3>1. CASE got'[s][j] = hand[s]
        BY <1>9, <2>2, <3>1
    <3>2. CASE \E m \in DOMAIN got[s] : got'[s][j] = got[s][m]
        BY <2>2, <3>2 DEF ItemInv, OrderedAtMostOnce
    <3> QED BY <1>4, <3>1, <3>2
  <2>3. ASSUME NEW a \in Streams, NEW b \in Streams, a # b, src[a] = src[b],
               NEW j \in DOMAIN got'[a], NEW k \in DOMAIN got'[b]
        PROVE  got'[a][j] # got'[b][k]
    <3>1. CASE a = s
      <4>1. b \in Streams \ {s} /\ src[b] = src[s] /\ got'[b] = got[b]
          BY <1>1, <2>3, <3>1
      <4> QED BY <2>2, <2>3, <3>1, <4>1
    <3>2. CASE b = s
      <4>1. a \in Streams \ {s} /\ src[a] = src[s] /\ got'[a] = got[a]
          BY <1>1, <2>3, <3>2
      <4> QED BY <2>2, <2>3, <3>2, <4>1
    <3>3. CASE a # s /\ b # s
      <4>1. got'[a] = got[a] /\ got'[b] = got[b]
          BY <1>1, <3>3
      <4> QED BY <2>3, <4>1 DEF ItemInv, OrderedAtMostOnce
    <3> QED BY <3>1, <3>2, <3>3
  <2>4. ASSUME NEW t \in Streams \ {s}, NEW j \in DOMAIN got'[t], NEW k \in DOMAIN got'[t], j < k
        PROVE  got'[t][j] < got'[t][k]
      BY <1>1, <2>4 DEF ItemInv, OrderedAtMostOnce
  <2> QED BY <1>1, <2>1, <2>3, <2>4 DEF OrderedAtMostOnce
<1> QED BY <1>6, <1>7, <1>8, <1>10, <1>11, <1>12 DEF ItemInv

-----------------------------------------------------------------------------
(* The invariant.                                                          *)

(* Every step of the runner keeps the items in order, by the lemma of its  *)
(* action.                                                                 *)
LEMMA ItemStep ==
    ASSUME TypeOK, TypeOK', ItemInv, [Next]_vars
    PROVE  ItemInv'
<1>1. ASSUME NEW r \in RunIds, RunStep(r) PROVE ItemInv'
    BY <1>1, TaskActions, TaskStepInv
<1>2. ASSUME NEW r \in RunIds, StartRun(r) PROVE ItemInv'
  <2>1. \A x \in RunIds : task'[x] = task[x] \/ (task[x] = "none" /\ task'[x] = "graph")
      BY <1>2 DEF StartRun, TypeOK
  <2> QED BY <1>2, <2>1, ItemFrame DEF StartRun
<1>3. ASSUME NEW r \in RunIds, PauseRun(r) \/ UnpauseRun(r) PROVE ItemInv'
    BY <1>3, ItemFrame DEF PauseRun, UnpauseRun, taskVars
<1>4. ASSUME NEW r \in RunIds, CancelRun(r) PROVE ItemInv'
    BY <1>4, ItemFrame DEF CancelRun
<1>5. ASSUME Shutdown PROVE ItemInv'
    BY <1>5, ItemFrame DEF Shutdown
<1>6. ASSUME NEW r \in RunIds, OrphanFetch(r) PROVE ItemInv'
    BY <1>6, OrphanFetchInv DEF OrphanFetch, Takes, streamVars
<1>7. ASSUME NEW s \in Streams, NEW r \in RunIds, Connect(s, r) PROVE ItemInv'
    BY <1>7, ConnectInv
<1>8. ASSUME NEW s \in Streams, Fetch(s) PROVE ItemInv'
    BY <1>8, FetchInv
<1>9. ASSUME NEW s \in Streams, Yield(s) PROVE ItemInv'
    BY <1>9, YieldInv
<1>10. ASSUME NEW s \in Streams, Select(s) PROVE ItemInv'
    BY <1>10, MoveInv DEF Select, OnlyStream, taskVars, StreamState, Attached, Holding
<1>11. ASSUME NEW s \in Streams, NextRead(s) PROVE ItemInv'
    BY <1>11, MoveInv DEF NextRead, OnlyStream, taskVars, StreamState, Attached
<1>12. ASSUME NEW s \in Streams, SeeSentinel(s) \/ SeeShutdown(s) PROVE ItemInv'
    BY <1>12, MoveInv DEF SeeSentinel, SeeShutdown, EndStream, OnlyStream, taskVars, StreamState
<1>13. ASSUME NEW s \in Streams, Disconnect(s) PROVE ItemInv'
    BY <1>13, MoveInv DEF Disconnect, OnlyStream, taskVars, StreamState, Attached
<1>14. ASSUME UNCHANGED vars PROVE ItemInv'
    BY <1>14, ItemFrame DEF vars, streamVars
<1> QED
    BY <1>1, <1>2, <1>3, <1>4, <1>5, <1>6, <1>7, <1>8, <1>9, <1>10, <1>11, <1>12,
       <1>13, <1>14 DEF Next, StreamStep

(* Initially no item exists.                                               *)
LEMMA ItemInit == Init => ItemInv
<1> SUFFICES ASSUME Init PROVE ItemInv
    OBVIOUS
<1>1. /\ \A r \in RunIds : DOMAIN queue[r] = {} /\ task[r] = "none"
      /\ \A s \in Streams : /\ DOMAIN got[s] = {} /\ got[s] = <<>> /\ src[s] = NoRun
                            /\ pc[s] = "off" /\ hand[s] = Sentinel
      /\ \A r \in RunIds : emitted[r] = 0
    BY DEF Init
<1>2. QueueSorted /\ PendingIsNewest /\ QueueIsNewer
    BY <1>1 DEF QueueSorted, PendingIsNewest, QueueIsNewer, BlockedInPut
<1>3. HandIsNewer /\ StreamOrigin /\ OrderedAtMostOnce
    BY <1>1 DEF HandIsNewer, StreamOrigin, OrderedAtMostOnce, Holding
<1> QED BY <1>2, <1>3 DEF ItemInv

(* The handles: what is not in _active_runs is done or being cancelled.    *)
HandleInv == HandlesGoneOnShutdown /\ NoUnreachableTask

(* A handle is only dropped by a cancellation, by the shutdown, or by a    *)
(* stream that saw the sentinel of a task that is done or the shutdown.    *)
LEMMA HandleStep ==
    ASSUME TypeOK, TypeOK', ItemInv, HandleInv, [Next]_vars
    PROVE  HandleInv'
<1> USE DEF HandleInv, HandlesGoneOnShutdown, NoUnreachableTask
<1>1. ASSUME NEW r \in RunIds, RunStep(r) PROVE HandleInv'
  <2>1. TaskStep(r)
      BY <1>1, TaskActions
  <2>2. /\ active' = active /\ shutdown' = shutdown
        /\ \A x \in RunIds : cancel'[x] = cancel[x] \/ cancel'[x] = "over"
      BY <1>1 DEF RunStep, GraphEvent, GraphEnd, NoInterrupt, Interrupt, GraphError, PutLast,
                  Unblock, DeliverCancel, OnlyTask, TypeOK
  <2>3. \A x \in RunIds : task'[x] \in Live => task[x] \in Live
      BY <2>1 DEF TaskStep
  <2> QED BY <2>2, <2>3
<1>2. ASSUME NEW r \in RunIds, StartRun(r) PROVE HandleInv'
    BY <1>2 DEF StartRun, TypeOK
<1>3. ASSUME NEW r \in RunIds, PauseRun(r) \/ UnpauseRun(r) \/ OrphanFetch(r) PROVE HandleInv'
    BY <1>3 DEF PauseRun, UnpauseRun, OrphanFetch, taskVars
<1>4. ASSUME NEW R \in SUBSET RunIds, CancelTasks(R), task' = task, R = active \/ shutdown' = FALSE
      PROVE  HandleInv'
    BY <1>4 DEF CancelTasks, TypeOK
<1>5. ASSUME NEW r \in RunIds, CancelRun(r) PROVE HandleInv'
    BY <1>4, <1>5 DEF CancelRun, TypeOK
<1>6. ASSUME Shutdown PROVE HandleInv'
    BY <1>4, <1>6 DEF Shutdown, TypeOK
<1>7. ASSUME NEW s \in Streams, NEW r \in RunIds, Connect(s, r) PROVE HandleInv'
    BY <1>7 DEF Connect, OnlyStream, taskVars
<1>8. ASSUME NEW s \in Streams,
             Fetch(s) \/ Select(s) \/ Yield(s) \/ NextRead(s) \/ Disconnect(s)
      PROVE  HandleInv'
    BY <1>8 DEF Fetch, Select, Yield, NextRead, Disconnect, OnlyStream, taskVars
<1>9. ASSUME NEW s \in Streams, SeeSentinel(s) PROVE HandleInv'
  <2>1. task[src[s]] = "done"
      BY <1>9 DEF SeeSentinel, ItemInv, StreamOrigin, Holding
  <2>2. "done" \notin Live
      BY DEF Live, BlockedInPut
  <2> QED BY <1>9, <2>1, <2>2 DEF SeeSentinel, EndStream, OnlyStream, taskVars
<1>10. ASSUME NEW s \in Streams, SeeShutdown(s) PROVE HandleInv'
    BY <1>10 DEF SeeShutdown, EndStream, OnlyStream, taskVars
<1>11. ASSUME UNCHANGED vars PROVE HandleInv'
    BY <1>11 DEF vars
<1> QED
    BY <1>1, <1>2, <1>3, <1>5, <1>6, <1>7, <1>8, <1>9, <1>10, <1>11
    DEF Next, StreamStep

(* The inductive invariant of the runner: types, the order of the items,   *)
(* and a handle or a cancellation for every task that executes.            *)
THEOREM Invariance == Spec => []IInv
<1>1. Init => IInv
  <2>1. Init => HandleInv
      BY DEF Init, HandleInv, HandlesGoneOnShutdown, NoUnreachableTask, Live, BlockedInPut
  <2> QED BY <2>1, TypeInit, ItemInit DEF IInv, ItemInv, HandleInv
<1>2. IInv /\ [Next]_vars => IInv'
    BY TypeStep, ItemStep, HandleStep DEF IInv, ItemInv, HandleInv
<1> QED BY <1>1, <1>2, PTL DEF Spec

(* No item is yielded twice or out of order, whatever the number of        *)
(* connections, their disconnects, cancellations and the shutdown.         *)
THEOREM DeliveryInOrder == Spec => []OrderedAtMostOnce
<1>1. IInv => OrderedAtMostOnce
    BY DEF IInv
<1> QED BY <1>1, Invariance, PTL

(* A task that still runs can be reached through its handle or has been    *)
(* sent a cancellation.                                                    *)
THEOREM TasksReachable == Spec => []NoUnreachableTask
<1>1. IInv => NoUnreachableTask
    BY DEF IInv
<1> QED BY <1>1, Invariance, PTL

-----------------------------------------------------------------------------
(* The invariant behind SoleReaderComplete.                                *)

(* A cancellation is sent to a handle; a run without a handle ended, was   *)
(* cancelled, or has had a stream; an abandoned get() has a stream that    *)
(* left it behind.                                                         *)
LEMMA OriginStep ==
    ASSUME TypeOK, TypeOK', ItemInv, RunOrigin, [Next]_vars
    PROVE  RunOrigin'
<1> USE DEF RunOrigin
<1>0. /\ NoRun \notin RunIds
      /\ \A s \in Streams : pc[s] = "off" => src[s] = NoRun
    BY RunnerAssumption DEF ItemInv, StreamOrigin
<1>1. ASSUME NEW r \in RunIds, RunStep(r) PROVE RunOrigin'
  <2>1. TaskStep(r)
      BY <1>1, TaskActions
  <2>2. /\ task[r] # "none" /\ task'[r] # "none"
        /\ cancel'[r] = "over" => task'[r] \in {"put_sentinel", "done"}
        /\ r \in active' => cancel'[r] = "no"
        /\ cancel[r] # "no" => cancel'[r] # "no"
    <3>1. CASE cancel'[r] = cancel[r]
        BY <2>1, <3>1 DEF TaskStep, Live, BlockedInPut
    <3>2. CASE cancel[r] = "requested" /\ cancel'[r] = "over"
        BY <2>1, <3>2 DEF TaskStep, Live, BlockedInPut
    <3> QED BY <2>1, <3>1, <3>2 DEF TaskStep
  <2> QED BY <2>1, <2>2 DEF TaskStep, streamVars
<1>2. ASSUME NEW r \in RunIds, StartRun(r) PROVE RunOrigin'
    BY <1>2 DEF StartRun, TypeOK, streamVars
<1>3. ASSUME NEW r \in RunIds, PauseRun(r) \/ UnpauseRun(r) PROVE RunOrigin'
    BY <1>3 DEF PauseRun, UnpauseRun, taskVars, streamVars
<1>4. ASSUME NEW r \in RunIds, OrphanFetch(r) PROVE RunOrigin'
    BY <1>4 DEF OrphanFetch, streamVars, TypeOK
<1>5. ASSUME NEW R \in SUBSET RunIds, R \subseteq active, CancelTasks(R),
             UNCHANGED <<task, orphans>>, UNCHANGED streamVars, shutdown => shutdown'
      PROVE  RunOrigin'
  <2>1. \A r \in R : task[r] \notin Live => task[r] = "done"
      BY <1>5 DEF TypeOK, TaskState
  <2> QED BY <1>5, <2>1 DEF CancelTasks, streamVars
<1>6. ASSUME NEW r \in RunIds, CancelRun(r) PROVE RunOrigin'
    BY <1>5, <1>6 DEF CancelRun
<1>7. ASSUME Shutdown PROVE RunOrigin'
    BY <1>5, <1>7 DEF Shutdown, TypeOK
<1>8. ASSUME NEW s \in Streams, NEW r \in RunIds, Connect(s, r) PROVE RunOrigin'
  <2>1. /\ UNCHANGED <<active, task, cancel, shutdown, orphans>> /\ src[s] = NoRun /\ pc[s] = "off"
        /\ \A t \in Streams : t # s => src'[t] = src[t] /\ pc'[t] = pc[t]
      BY <1>0, <1>8 DEF Connect, OnlyStream, taskVars
  <2>2. ASSUME NEW x \in RunIds, NEW t \in Streams, src[t] = x
        PROVE  src'[t] = x /\ (pc[t] = "detached" => pc'[t] = "detached")
      BY <1>0, <2>1, <2>2
  <2> QED BY <2>1, <2>2
<1>9. ASSUME NEW s \in Streams,
             Fetch(s) \/ Select(s) \/ Yield(s) \/ NextRead(s) \/ SeeSentinel(s) \/ SeeShutdown(s)
      PROVE  RunOrigin'
  <2>1. /\ UNCHANGED <<task, cancel, shutdown, orphans, src>>
        /\ active' = active \/ active' = active \ {src[s]}
        /\ \A t \in Streams : pc[t] = "detached" => pc'[t] = "detached"
      BY <1>9 DEF Fetch, Select, Yield, NextRead, SeeSentinel, SeeShutdown, EndStream,
                  OnlyStream, taskVars, TypeOK
  <2> QED BY <2>1
<1>10. ASSUME NEW s \in Streams, Disconnect(s) PROVE RunOrigin'
    BY <1>10 DEF Disconnect, OnlyStream, taskVars, TypeOK
<1>11. ASSUME UNCHANGED vars PROVE RunOrigin'
    BY <1>11 DEF vars
<1> QED
    BY <1>1, <1>2, <1>3, <1>4, <1>6, <1>7, <1>8, <1>9, <1>10, <1>11 DEF Next, StreamStep

(* What a task puts continues what its queue held, unless it is thrown out *)
(* of a put by a cancellation.                                             *)
LEMMA ContinuesTask ==
    ASSUME TypeOK, TypeOK', ItemInv, RunOrigin, NEW r \in RunIds, TaskStep(r),
           NEW n \in Nat, Continues(r, n)
    PROVE  Continues(r, n)'
<1> DEFINE b == Count(task[r] \in BlockedInPut)
<1>1. /\ queue[r] \in Seq(Nat) /\ queue'[r] \in Seq(Nat) /\ Len(queue[r]) \in Nat
      /\ emitted[r] \in Nat /\ emitted'[r] \in Nat
      /\ DOMAIN queue[r] = 1..Len(queue[r])
      /\ b \in {0, 1} /\ (b = 1 <=> task[r] \in BlockedInPut)
    BY DEF TypeOK, Count
<1>2. ~Closed(r) /\ Count(Closed(r)) = 0
  <2>1. queue[r] # <<>> => Len(queue[r]) \in DOMAIN queue[r]
      BY <1>1
  <2> QED BY <2>1, QueueAfter DEF Closed, Count
<1>3. cancel[r] # "over" => n + Len(queue[r]) + b = emitted[r]
    BY <1>1, <1>2 DEF Continues
<1>4. Fresh(r) /\ cancel'[r] = cancel[r] => cancel[r] # "over" /\ emitted'[r] = n + Len(queue[r]) + 1
  <2>1. Fresh(r) /\ cancel'[r] = cancel[r] => task[r] \notin {"done", "put_sentinel"}
      BY <1>1 DEF Fresh, TaskStep, Live, BlockedInPut
  <2>2. Fresh(r) => emitted'[r] + b = emitted[r] + 1
      BY <1>1 DEF Fresh, TaskStep
  <2> QED BY <1>1, <1>3, <2>1, <2>2 DEF RunOrigin
<1>5. \A i \in DOMAIN queue'[r] : queue'[r][i] # Sentinel => queue'[r][i] = n + i
  <2>1. \A i \in DOMAIN queue[r] : queue[r][i] = n + i
      BY QueueAfter DEF Continues
  <2>2. ASSUME NEW i \in DOMAIN queue'[r], queue'[r][i] # Sentinel,
               i = Len(queue[r]) + 1, queue'[r][i] = emitted'[r], Fresh(r)
        PROVE  cancel'[r] = cancel[r]
    <3>1. queue'[r] # queue[r]
        BY <1>1, <2>2
    <3>2. queue'[r] # Append(queue[r], Sentinel)
        BY <1>1, <2>2, AppendAt
    <3> QED BY <3>1, <3>2 DEF TaskStep
  <2>3. ASSUME NEW i \in DOMAIN queue'[r], queue'[r][i] # Sentinel
        PROVE  queue'[r][i] = n + i
    <3>1. CASE i \in DOMAIN queue[r] /\ queue'[r][i] = queue[r][i]
        BY <2>1, <3>1
    <3>2. CASE i = Len(queue[r]) + 1 /\ queue'[r][i] = emitted'[r] /\ Fresh(r)
        BY <1>1, <1>4, <2>2, <2>3, <3>2
    <3> QED BY <2>3, <3>1, <3>2, QueueAfter
  <2> QED BY <2>3
<1>6. ASSUME cancel'[r] # "over"
      PROVE  n + Len(queue'[r]) + Count(task'[r] \in BlockedInPut) = emitted'[r] + Count(Closed(r)')
  <2>0. cancel'[r] = cancel[r]
      BY <1>6 DEF TaskStep
  <2>1. CASE /\ queue'[r] = queue[r] /\ task[r] \notin BlockedInPut
             /\ task'[r] \in BlockedInPut <=> emitted'[r] > emitted[r]
    <3>1. Count(Closed(r)') = 0
        BY <1>2, <2>1 DEF Closed, Count
    <3>2. Count(task'[r] \in BlockedInPut) = emitted'[r] - emitted[r]
        BY <1>1, <2>1 DEF TaskStep, Count
    <3> QED BY <1>1, <1>3, <1>6, <2>0, <2>1, <3>1, <3>2
  <2>2. CASE queue'[r] = Append(queue[r], emitted'[r]) /\ Fresh(r) /\ task'[r] \notin BlockedInPut
    <3>1. emitted'[r] # Sentinel
        BY <1>1, <2>2, FreshIsNewest
    <3>2. Count(Closed(r)') = 0 /\ Len(queue'[r]) = Len(queue[r]) + 1
        BY <1>1, <2>2, <3>1, AppendAt DEF Closed, Count
    <3> QED BY <1>1, <1>4, <2>0, <2>2, <3>2 DEF Count
  <2>3. CASE /\ queue'[r] = Append(queue[r], Sentinel) /\ task[r] \notin BlockedInPut
             /\ emitted'[r] = emitted[r] /\ task'[r] = "done"
    <3>1. queue'[r] # <<>> /\ Len(queue'[r]) = Len(queue[r]) + 1 /\ queue'[r][Len(queue'[r])] = Sentinel
        BY <1>1, <2>3, AppendAt
    <3>2. Count(Closed(r)') = 1 /\ Count(task'[r] \in BlockedInPut) = 0
        BY <2>3, <3>1 DEF Closed, Count, BlockedInPut
    <3> QED BY <1>1, <1>3, <1>6, <2>0, <2>3, <3>1, <3>2
  <2>4. CASE /\ queue'[r] = Append(Append(queue[r], emitted'[r]), Sentinel) /\ Fresh(r)
             /\ task'[r] = "done"
    <3>1. Append(queue[r], emitted'[r]) \in Seq(Nat) /\ Len(Append(queue[r], emitted'[r])) = Len(queue[r]) + 1
        BY <1>1
    <3>2. queue'[r] # <<>> /\ Len(queue'[r]) = Len(queue[r]) + 2 /\ queue'[r][Len(queue'[r])] = Sentinel
        BY <1>1, <2>4, <3>1, AppendAt
    <3>3. Count(Closed(r)') = 1 /\ Count(task'[r] \in BlockedInPut) = 0
        BY <2>4, <3>2 DEF Closed, Count, BlockedInPut
    <3> QED BY <1>1, <1>4, <2>0, <2>4, <3>2, <3>3
  <2> QED BY <1>6, <2>1, <2>2, <2>3, <2>4 DEF TaskStep, Fresh
<1> QED BY <1>5, <1>6 DEF Continues

(* A queue that goes on from item n: what its head is, and what it looks   *)
(* like without it.                                                        *)
LEMMA TailContinues ==
    ASSUME NEW q \in Seq(Nat), q # <<>>, NEW n \in Nat,
           \A i \in DOMAIN q : q[i] # Sentinel => q[i] = n + i,
           \A i, j \in DOMAIN q : i < j => q[i] # Sentinel
    PROVE  /\ Len(q) \in Nat \ {0} /\ Len(Tail(q)) = Len(q) - 1
           /\ Head(q) = Sentinel => Tail(q) = <<>> /\ q[Len(q)] = Sentinel
           /\ Head(q) # Sentinel =>
                 /\ Head(q) = n + 1
                 /\ \A i \in DOMAIN Tail(q) : Tail(q)[i] # Sentinel => Tail(q)[i] = (n + 1) + i
                 /\ Tail(q) # <<>> /\ Tail(q)[Len(Tail(q))] = Sentinel <=> q[Len(q)] = Sentinel
<1>1. /\ Len(q) \in Nat \ {0} /\ DOMAIN q = 1..Len(q) /\ Head(q) = q[1]
      /\ DOMAIN Tail(q) = 1..(Len(q) - 1) /\ Len(Tail(q)) = Len(q) - 1
      /\ \A i \in 1..(Len(q) - 1) : Tail(q)[i] = q[i + 1]
  <2>1. Tail(q) \in Seq(Nat) /\ Len(Tail(q)) = Len(q) - 1
      OBVIOUS
  <2> QED BY <2>1, TailAt
<1>1a. Tail(q) = <<>> <=> Len(q) = 1
  <2>1. Tail(q) \in Seq(Nat) /\ \A t \in Seq(Nat) : t = <<>> <=> Len(t) = 0
      OBVIOUS
  <2> QED BY <1>1, <2>1
<1>1b. \A i \in 1..Len(q) : q[i] # Sentinel => q[i] = n + i
    BY <1>1
<1>2. ASSUME Head(q) = Sentinel PROVE Len(q) = 1
  <2>1. Len(q) # 1 => 1 \in 1..Len(q) /\ 2 \in 1..Len(q)
      BY <1>1
  <2> QED BY <1>1, <1>2, <2>1
<1>3. ASSUME Head(q) # Sentinel
      PROVE  /\ Head(q) = n + 1
             /\ \A i \in DOMAIN Tail(q) : Tail(q)[i] # Sentinel => Tail(q)[i] = (n + 1) + i
  <2>1. 1 \in 1..Len(q)
      BY <1>1
  <2>2. ASSUME NEW i \in 1..(Len(q) - 1), Tail(q)[i] # Sentinel PROVE Tail(q)[i] = (n + 1) + i
    <3>1. i + 1 \in 1..Len(q)
        BY <1>1
    <3>2. q[i + 1] = n + (i + 1)
        BY <1>1, <1>1b, <2>2, <3>1
    <3> QED BY <1>1, <3>2
  <2> QED BY <1>1, <1>1b, <1>3, <2>1, <2>2
<1>4. ASSUME Head(q) # Sentinel
      PROVE  Tail(q) # <<>> /\ Tail(q)[Len(Tail(q))] = Sentinel <=> q[Len(q)] = Sentinel
  <2>1. CASE Len(q) = 1
      BY <1>1, <1>1a, <1>4, <2>1
  <2>2. CASE Len(q) # 1
    <3>1. Len(q) - 1 \in 1..(Len(q) - 1) /\ (Len(q) - 1) + 1 = Len(q)
        BY <1>1, <2>2
    <3> QED BY <1>1, <1>1a, <2>2, <3>1
  <2> QED BY <2>1, <2>2
<1> QED BY <1>1, <1>1a, <1>2, <1>3, <1>4

(* A get of an item takes the next one, and a get of the sentinel leaves   *)
(* nothing.                                                                *)
LEMMA ContinuesTake ==
    ASSUME TypeOK, ItemInv, NEW r \in RunIds, Takes(r), UNCHANGED cancel,
           NEW n \in Nat, Continues(r, n)
    PROVE  IF Head(queue[r]) = Sentinel
           THEN Continues(r, n)' /\ queue'[r] = <<>>
           ELSE Continues(r, n + 1)' /\ Head(queue[r]) = n + 1
<1>0. /\ queue[r] \in Seq(Nat) /\ queue'[r] = Tail(queue[r]) /\ emitted[r] \in Nat
      /\ emitted' = emitted /\ task' = task /\ queue[r] # <<>>
    BY DEF TypeOK, Takes
<1>1. /\ \A i \in DOMAIN queue[r] : queue[r][i] # Sentinel => queue[r][i] = n + i
      /\ \A i, j \in DOMAIN queue[r] : i < j => queue[r][i] # Sentinel
    BY DEF ItemInv, QueueSorted, Continues
<1>2. /\ Count(task[r] \in BlockedInPut) \in Nat
      /\ Count(task'[r] \in BlockedInPut) = Count(task[r] \in BlockedInPut)
    BY <1>0 DEF Count
<1>3. cancel[r] # "over" =>
         n + Len(queue[r]) + Count(task[r] \in BlockedInPut) = emitted[r] + Count(Closed(r))
    BY DEF Continues
<1>4. Len(queue[r]) \in Nat \ {0} /\ Len(queue'[r]) = Len(queue[r]) - 1
    BY <1>0, <1>1, TailContinues
<1>5. CASE Head(queue[r]) = Sentinel
  <2>1. queue'[r] = <<>> /\ Count(Closed(r)) = 1 /\ Count(Closed(r)') = 0
      BY <1>0, <1>1, <1>5, TailContinues DEF Closed, Count
  <2>2. \A i \in DOMAIN queue'[r] : queue'[r][i] # Sentinel => queue'[r][i] = n + i
      BY <2>1
  <2>3. cancel'[r] # "over" =>
           n + Len(queue'[r]) + Count(task'[r] \in BlockedInPut) = emitted'[r] + Count(Closed(r)')
    <3>1. SUFFICES ASSUME cancel'[r] # "over"
                   PROVE  n + Len(queue'[r]) + Count(task[r] \in BlockedInPut) = emitted[r]
        BY <1>0, <1>2, <2>1
    <3>2. n + Len(queue[r]) + Count(task[r] \in BlockedInPut) = emitted[r] + 1
        BY <1>3, <2>1, <3>1
    <3>3. Len(queue'[r]) = Len(queue[r]) - 1 /\ Len(queue[r]) \in Nat /\ emitted[r] \in Nat
        BY <1>0, <1>4
    <3>4. PICK l \in Nat : l = Len(queue[r]) /\ Len(queue'[r]) = l - 1
        BY <3>3
    <3>5. PICK c \in Nat : c = Count(task[r] \in BlockedInPut)
        BY <1>2
    <3>6. n + l + c = emitted[r] + 1
        BY <3>2, <3>4, <3>5
    <3>7. n + (l - 1) + c = emitted[r]
        BY <3>3, <3>6
    <3> QED BY <3>4, <3>5, <3>7
  <2> QED BY <1>5, <2>1, <2>2, <2>3 DEF Continues
<1>6. CASE Head(queue[r]) # Sentinel
  <2>1. Head(queue[r]) = n + 1
      BY <1>0, <1>1, <1>6, TailContinues
  <2>2. \A i \in DOMAIN queue'[r] : queue'[r][i] # Sentinel => queue'[r][i] = (n + 1) + i
    <3>1. \A i \in DOMAIN Tail(queue[r]) :
             Tail(queue[r])[i] # Sentinel => Tail(queue[r])[i] = (n + 1) + i
        BY <1>0, <1>1, <1>6, TailContinues
    <3> QED BY <1>0, <3>1
  <2>3. Closed(r)' <=> Closed(r)
      BY <1>0, <1>1, <1>6, TailContinues DEF Closed
  <2>4. Count(Closed(r)') = Count(Closed(r)) /\ Count(Closed(r)) \in Nat
      BY <2>3 DEF Count
  <2>5. cancel'[r] # "over" =>
           (n + 1) + Len(queue'[r]) + Count(task'[r] \in BlockedInPut) = emitted'[r] + Count(Closed(r)')
    <3>1. SUFFICES ASSUME cancel'[r] # "over"
                   PROVE  (n + 1) + Len(queue'[r]) + Count(task[r] \in BlockedInPut)
                             = emitted[r] + Count(Closed(r))
        BY <1>0, <1>2, <2>4
    <3>2. n + Len(queue[r]) + Count(task[r] \in BlockedInPut) = emitted[r] + Count(Closed(r))
        BY <1>3, <3>1
    <3>3. Len(queue'[r]) = Len(queue[r]) - 1 /\ Len(queue[r]) \in Nat /\ emitted[r] \in Nat
        BY <1>0, <1>4
    <3>4. PICK l \in Nat : l = Len(queue[r]) /\ Len(queue'[r]) = l - 1
        BY <3>3
    <3>5. PICK c \in Nat, d \in Nat : c = Count(task[r] \in BlockedInPut) /\ d = Count(Closed(r))
        BY <1>2, <2>4
    <3>6. n + l + c = emitted[r] + d
        BY <3>2, <3>4, <3>5
    <3>7. (n + 1) + (l - 1) + c = emitted[r] + d
        BY <3>3, <3>6
    <3> QED BY <3>4, <3>5, <3>7
  <2> QED BY <1>6, <2>1, <2>2, <2>5 DEF Continues
<1> QED BY <1>5, <1>6

(* The part of the invariant that speaks of what readers miss.             *)
ReadInv == UnreadInv /\ SoleInv /\ SoleReaderComplete

(* Steps that touch neither the items nor the streams.                     *)
LEMMA ReadFrame ==
    ASSUME ReadInv, UNCHANGED <<queue, emitted>>, UNCHANGED streamVars, shutdown => shutdown',
           \A r \in RunIds : /\ task'[r] \in BlockedInPut <=> task[r] \in BlockedInPut
                             /\ task[r] = "done" => task'[r] = "done"
                             /\ cancel'[r] # "over" => cancel[r] # "over"
                             /\ cancel'[r] = "no" => cancel[r] = "no",
           TypeOK
    PROVE  ReadInv'
<1>0. \A s \in Streams : src[s] # NoRun => src[s] \in RunIds
    BY DEF TypeOK
<1>1. ASSUME NEW r \in RunIds, NEW n, Continues(r, n) PROVE Continues(r, n)'
  <2>1. Closed(r)' <=> Closed(r)
      BY DEF Closed
  <2>2. /\ Count(Closed(r)') = Count(Closed(r))
        /\ Count(task'[r] \in BlockedInPut) = Count(task[r] \in BlockedInPut)
      BY <2>1 DEF Count
  <2> QED BY <1>1, <2>2 DEF Continues
<1>2. \A s \in Streams : /\ Holding(s)' <=> Holding(s)
                         /\ Taken(s)' = Taken(s)
                         /\ Sole(s)' <=> Sole(s)
    BY DEF Holding, Taken, Sole, Count, streamVars
<1>3. UnreadInv'
    BY <1>1 DEF ReadInv, UnreadInv, streamVars
<1>4. SoleInv'
  <2> SUFFICES ASSUME NEW s \in Streams, src[s] # NoRun, Sole(s)
               PROVE  /\ Holding(s) => IF hand[s] = Sentinel THEN queue[src[s]] = <<>>
                                       ELSE hand[s] = Len(got[s]) + 1
                      /\ pc[s] \in Attached => Continues(src[s], Taken(s))'
      BY <1>2 DEF SoleInv, streamVars
  <2>1. ASSUME pc[s] \in Attached PROVE Continues(src[s], Taken(s))'
    <3>1. PICK n : n = Taken(s)
        OBVIOUS
    <3>2. PICK r \in RunIds : r = src[s]
        BY <1>0
    <3>3. Continues(r, n)
        BY <2>1, <3>1, <3>2 DEF ReadInv, SoleInv
    <3>4. Continues(r, n)' /\ src'[s] = r /\ Taken(s)' = n
        BY <1>1, <1>2, <3>1, <3>2, <3>3 DEF streamVars
    <3> QED BY <3>4 DEF Continues
  <2> QED BY <2>1 DEF ReadInv, SoleInv
<1>5. SoleReaderComplete'
    BY <1>0, <1>2 DEF ReadInv, SoleReaderComplete, streamVars
<1> QED BY <1>3, <1>4, <1>5 DEF ReadInv

(* A step of a task: what it puts continues what was read, and a reader    *)
(* that came to its end left no task that executes.                        *)
LEMMA ReadTask ==
    ASSUME TypeOK, TypeOK', ItemInv, RunOrigin, ReadInv, NEW r \in RunIds, TaskStep(r)
    PROVE  ReadInv'
<1>0. /\ src' = src /\ pc' = pc /\ hand' = hand /\ got' = got /\ shutdown' = shutdown
      /\ \A s \in Streams : src[s] # NoRun => src[s] \in RunIds
    BY DEF TypeOK, TaskStep, streamVars
<1>1. ASSUME NEW x \in RunIds, NEW n \in Nat, Continues(x, n) PROVE Continues(x, n)'
  <2>1. CASE x = r
      BY <1>1, <2>1, ContinuesTask
  <2>2. CASE x # r
    <3>1. queue'[x] = queue[x] /\ emitted'[x] = emitted[x] /\ task'[x] = task[x] /\ cancel'[x] = cancel[x]
        BY <2>2 DEF TaskStep
    <3>2. Closed(x)' <=> Closed(x)
        BY <3>1 DEF Closed
    <3>3. /\ Count(Closed(x)') = Count(Closed(x))
          /\ Count(task'[x] \in BlockedInPut) = Count(task[x] \in BlockedInPut)
        BY <3>1, <3>2 DEF Count
    <3> QED BY <1>1, <3>1, <3>3 DEF Continues
  <2> QED BY <2>1, <2>2
<1>2. \A s \in Streams : /\ Holding(s)' <=> Holding(s)
                         /\ Taken(s)' = Taken(s) /\ Taken(s) \in Nat
                         /\ Sole(s)' <=> Sole(s)
    BY <1>0 DEF Holding, Taken, Sole, Count, TypeOK
<1>3. UnreadInv'
    BY <1>0, <1>1 DEF ReadInv, UnreadInv
<1>4. SoleInv'
  <2> SUFFICES ASSUME NEW s \in Streams, src[s] # NoRun, Sole(s)
               PROVE  /\ Holding(s) => IF hand[s] = Sentinel THEN queue'[src[s]] = <<>>
                                       ELSE hand[s] = Len(got[s]) + 1
                      /\ pc[s] \in Attached => Continues(src[s], Taken(s))'
      BY <1>0, <1>2 DEF SoleInv
  <2>1. ASSUME pc[s] \in Attached PROVE Continues(src[s], Taken(s))'
    <3>1. PICK n \in Nat : n = Taken(s)
        BY <1>2
    <3>2. PICK x \in RunIds : x = src[s]
        BY <1>0
    <3>3. Continues(x, n)
        BY <2>1, <3>1, <3>2 DEF ReadInv, SoleInv
    <3>4. Continues(x, n)' /\ src'[s] = x /\ Taken(s)' = n
        BY <1>0, <1>1, <1>2, <3>1, <3>2, <3>3
    <3> QED BY <3>4 DEF Continues
  <2>2. ASSUME Holding(s), hand[s] = Sentinel PROVE queue'[src[s]] = <<>>
    <3>1. task[src[s]] = "done" /\ src[s] # r
        BY <2>2 DEF ItemInv, StreamOrigin, TaskStep, Live, BlockedInPut
    <3> QED BY <1>0, <2>2, <3>1 DEF TaskStep, ReadInv, SoleInv
  <2> QED BY <2>1, <2>2 DEF ReadInv, SoleInv
<1>5. SoleReaderComplete'
  <2>1. \A x \in RunIds : /\ cancel'[x] = "no" => cancel[x] = "no"
                          /\ task[x] = "done" => task'[x] = "done" /\ emitted'[x] = emitted[x]
      BY DEF TaskStep, Live, BlockedInPut
  <2> QED BY <1>0, <1>2, <2>1 DEF ReadInv, SoleReaderComplete
<1> QED BY <1>3, <1>4, <1>5 DEF ReadInv

(* A stream moves on without reading or yielding, or leaves; it ends where *)
(* its completeness is shown separately.                                   *)
LEMMA ReadMove ==
    ASSUME TypeOK, ReadInv, NEW s \in Streams, pc[s] # "off",
           UNCHANGED <<queue, emitted, task, cancel, shutdown, src, hand, got>>,
           NEW w \in StreamState, pc' = [pc EXCEPT ![s] = w],
           w \in Attached => /\ pc[s] \in Attached
                             /\ w \in {"fetched", "selected"} <=> Holding(s),
           w = "ended" /\ Sole(s) /\ cancel[src[s]] = "no" /\ ~shutdown =>
              task[src[s]] = "done" /\ Len(got[s]) = emitted[src[s]]
    PROVE  ReadInv'
<1>0. /\ \A t \in Streams : src[t] # NoRun => src[t] \in RunIds
      /\ pc'[s] = w /\ \A t \in Streams \ {s} : pc'[t] = pc[t]
    BY DEF TypeOK
<1>1. \A t \in Streams : pc'[t] \in Attached =>
         pc[t] \in Attached /\ (Holding(t)' <=> Holding(t)) /\ Taken(t)' = Taken(t)
    BY <1>0 DEF Holding, Taken, Count
<1>2. \A t \in Streams : (Sole(t)' <=> Sole(t)) /\ (Holding(t)' => Holding(t))
    BY <1>0 DEF Sole, Holding, Attached
<1>3. \A r \in RunIds : \A n : Continues(r, n)' <=> Continues(r, n)
    BY DEF Continues, Closed
<1>4. UnreadInv'
    BY <1>3 DEF ReadInv, UnreadInv
<1>5. SoleInv'
  <2>1. ASSUME NEW t \in Streams, src[t] # NoRun, Sole(t), pc'[t] \in Attached
        PROVE  Continues(src[t], Taken(t))'
    <3>1. PICK n : n = Taken(t)
        OBVIOUS
    <3>2. PICK x \in RunIds : x = src[t]
        BY <1>0, <2>1
    <3>3. Continues(x, n) /\ src'[t] = x /\ Taken(t)' = n
        BY <1>1, <2>1, <3>1, <3>2 DEF ReadInv, SoleInv
    <3>4. Continues(x, n)'
        BY <1>3, <3>3
    <3> QED BY <3>3, <3>4 DEF Continues
  <2> QED BY <1>2, <2>1 DEF ReadInv, SoleInv
<1>6. SoleReaderComplete'
    BY <1>0, <1>2 DEF ReadInv, SoleReaderComplete
<1> QED BY <1>4, <1>5, <1>6 DEF ReadInv

(* A run that has a stream is not unread, and opening a stream on a run    *)
(* that nobody has read continues from its first item.                     *)
LEMMA ReadConnect ==
    ASSUME TypeOK, ItemInv, RunOrigin, ReadInv, NEW s \in Streams, NEW r \in RunIds, Connect(s, r)
    PROVE  ReadInv'
<1>1. /\ UNCHANGED <<queue, emitted, task, cancel, shutdown, hand, got>>
      /\ ~shutdown /\ task[r] # "none"
      /\ src[s] = NoRun /\ got[s] = <<>> /\ hand[s] = Sentinel
      /\ src'[s] = r /\ pc'[s] = (IF r \in active THEN "waiting" ELSE "ended")
      /\ \A t \in Streams \ {s} : pc'[t] = pc[t] /\ src'[t] = src[t]
    BY DEF Connect, OnlyStream, taskVars, TypeOK, ItemInv, StreamOrigin
<1>2. \A t \in Streams : src[t] # NoRun => src[t] \in RunIds /\ t # s
    BY <1>1 DEF TypeOK
<1>3. NoRun \notin RunIds
    BY RunnerAssumption
<1>4. \A x \in RunIds : \A n : Continues(x, n)' <=> Continues(x, n)
    BY <1>1 DEF Continues, Closed
<1>5. \A t \in Streams \ {s} : /\ Holding(t)' <=> Holding(t)
                               /\ Taken(t)' = Taken(t)
                               /\ src[t] # NoRun /\ Sole(t)' => Sole(t) /\ src[t] # r
    BY <1>1, <1>2 DEF Holding, Taken, Count, Sole
<1>6. ~Holding(s)' /\ Taken(s)' = 0
    BY <1>1 DEF Holding, Taken, Count
<1>7. Sole(s)' => \A t \in Streams : src[t] # r
    BY <1>1, <1>3 DEF Sole
<1>8. UnreadInv'
    BY <1>1, <1>2, <1>3, <1>4 DEF ReadInv, UnreadInv
<1>9. SoleInv'
  <2>1. ASSUME NEW t \in Streams \ {s}, src[t] # NoRun, Sole(t)', pc[t] \in Attached
        PROVE  Continues(src[t], Taken(t))'
    <3>1. PICK n : n = Taken(t)
        OBVIOUS
    <3>2. PICK x \in RunIds : x = src[t]
        BY <1>2, <2>1
    <3>3. Continues(x, n) /\ src'[t] = x /\ Taken(t)' = n
        BY <1>1, <1>5, <2>1, <3>1, <3>2 DEF ReadInv, SoleInv
    <3>4. Continues(x, n)'
        BY <1>4, <3>3
    <3> QED BY <3>3, <3>4 DEF Continues
  <2>2. ASSUME Sole(s)' PROVE Continues(src[s], Taken(s))'
    <3>1. Continues(r, 0)'
        BY <1>4, <1>7, <2>2 DEF ReadInv, UnreadInv
    <3> QED BY <1>1, <1>6, <3>1 DEF Continues
  <2>3. \A t \in Streams \ {s} : src[t] # NoRun /\ Sole(t)' /\ Holding(t) =>
           IF hand[t] = Sentinel THEN queue[src[t]] = <<>> ELSE hand[t] = Len(got[t]) + 1
      BY <1>5 DEF ReadInv, SoleInv
  <2> QED BY <1>1, <1>5, <1>6, <2>1, <2>2, <2>3 DEF SoleInv
<1>10. SoleReaderComplete'
  <2>1. ASSUME Sole(s)', r \notin active PROVE cancel[r] # "no"
      BY <1>1, <1>7, <2>1 DEF RunOrigin
  <2>2. DOMAIN got[s] = {}
      BY <1>1
  <2>3. \A t \in Streams \ {s} : src[t] # NoRun /\ Sole(t)' =>
          /\ \A k \in DOMAIN got[t] : got[t][k] = k
          /\ pc[t] = "ended" /\ cancel[src[t]] = "no" /\ ~shutdown =>
                task[src[t]] = "done" /\ Len(got[t]) = emitted[src[t]]
      BY <1>5 DEF ReadInv, SoleReaderComplete
  <2> QED BY <1>1, <2>1, <2>2, <2>3 DEF SoleReaderComplete
<1> QED BY <1>8, <1>9, <1>10 DEF ReadInv

(* An abandoned get() belongs to a stream that left: the run has no other  *)
(* stream that is its only one.                                            *)
LEMMA ReadOrphan ==
    ASSUME TypeOK, RunOrigin, ReadInv, NEW r \in RunIds, OrphanFetch(r)
    PROVE  ReadInv'
<1>1. /\ UNCHANGED <<emitted, task, cancel, shutdown, src, pc, hand, got>>
      /\ \A x \in RunIds \ {r} : queue'[x] = queue[x]
      /\ \A t \in Streams : src[t] # NoRun => src[t] \in RunIds
    BY DEF OrphanFetch, streamVars, TypeOK
<1>2. PICK d \in Streams : src[d] = r /\ pc[d] = "detached"
    BY DEF OrphanFetch, RunOrigin, TypeOK
<1>3. \A t \in Streams : Sole(t) /\ src[t] = r => ~Holding(t) /\ pc[t] \notin Attached
    BY <1>2 DEF Sole, Holding, Attached
<1>4. \A x \in RunIds \ {r} : \A n : Continues(x, n)' <=> Continues(x, n)
    BY <1>1 DEF Continues, Closed
<1>5. \A t \in Streams : /\ Holding(t)' <=> Holding(t)
                         /\ Taken(t)' = Taken(t)
                         /\ Sole(t)' <=> Sole(t)
    BY <1>1 DEF Holding, Taken, Sole, Count
<1>6. UnreadInv'
    BY <1>1, <1>2, <1>4 DEF ReadInv, UnreadInv
<1>7. SoleInv'
  <2>1. ASSUME NEW t \in Streams, src[t] # NoRun, Sole(t), pc[t] \in Attached
        PROVE  Continues(src[t], Taken(t))'
    <3>1. PICK n : n = Taken(t)
        OBVIOUS
    <3>2. PICK x \in RunIds : x = src[t]
        BY <1>1, <2>1
    <3>3. Continues(x, n) /\ src'[t] = x /\ Taken(t)' = n
        BY <1>1, <1>5, <2>1, <3>1, <3>2 DEF ReadInv, SoleInv
    <3>4. Continues(x, n)'
        BY <1>3, <1>4, <2>1, <3>2, <3>3
    <3> QED BY <3>3, <3>4 DEF Continues
  <2>2. \A t \in Streams : src[t] # NoRun /\ Sole(t) /\ Holding(t) => queue'[src[t]] = queue[src[t]]
      BY <1>1, <1>3
  <2> QED BY <1>1, <1>5, <2>1, <2>2 DEF ReadInv, SoleInv
<1>8. SoleReaderComplete'
    BY <1>1, <1>5 DEF ReadInv, SoleReaderComplete
<1> QED BY <1>6, <1>7, <1>8 DEF ReadInv

(* The only reader of a run gets its next item, or the sentinel that       *)
(* nothing follows.                                                        *)
LEMMA ReadFetch ==
    ASSUME TypeOK, ItemInv, ReadInv, NEW s \in Streams, Fetch(s)
    PROVE  ReadInv'
<1>0. PICK r \in RunIds : r = src[s]
    BY DEF Fetch, TypeOK
<1>1. /\ Takes(r) /\ UNCHANGED <<emitted, task, cancel, shutdown, src, got>>
      /\ pc[s] = "waiting" /\ pc'[s] = "fetched" /\ hand'[s] = Head(queue[r])
      /\ \A t \in Streams \ {s} : pc'[t] = pc[t] /\ hand'[t] = hand[t]
      /\ \A x \in RunIds \ {r} : queue'[x] = queue[x]
    BY <1>0 DEF Fetch, Takes, TypeOK
<1>2. \A t \in Streams : src[t] # NoRun => src[t] \in RunIds
    BY DEF TypeOK
<1>3. \A x \in RunIds \ {r} : \A n : Continues(x, n)' <=> Continues(x, n)
    BY <1>1 DEF Continues, Closed
<1>4. \A t \in Streams \ {s} : /\ Holding(t)' <=> Holding(t)
                               /\ Taken(t)' = Taken(t)
                               /\ Sole(t) => src[t] # r
    BY <1>0, <1>1 DEF Holding, Taken, Sole, Count
<1>5. /\ Taken(s) = Len(got[s]) /\ Len(got[s]) \in Nat /\ Holding(s)'
      /\ Taken(s)' = Len(got[s]) + (IF hand'[s] = Sentinel THEN 0 ELSE 1)
    BY <1>1 DEF Holding, Taken, Count, TypeOK
<1>6. \A t \in Streams : Sole(t)' <=> Sole(t)
    BY <1>1 DEF Sole
<1>7. UnreadInv'
    BY <1>0, <1>1, <1>3 DEF ReadInv, UnreadInv
<1>8. ASSUME Sole(s)
      PROVE  /\ IF hand'[s] = Sentinel THEN queue'[r] = <<>> ELSE hand'[s] = Len(got[s]) + 1
             /\ Continues(r, Taken(s))'
  <2>1. PICK n \in Nat : n = Len(got[s])
      BY <1>5
  <2>2. Continues(r, n)
    <3>1. src[s] # NoRun /\ pc[s] \in Attached
        BY <1>0, <1>1, RunnerAssumption DEF Attached
    <3> QED BY <1>0, <1>5, <1>8, <2>1, <3>1 DEF ReadInv, SoleInv
  <2>3. CASE hand'[s] = Sentinel
    <3>1. Continues(r, n)' /\ queue'[r] = <<>>
        BY <1>1, <2>2, <2>3, ContinuesTake
    <3>2. Taken(s)' = n
        BY <1>5, <2>1, <2>3
    <3> QED BY <2>3, <3>1, <3>2 DEF Continues
  <2>4. CASE hand'[s] # Sentinel
    <3>1. Continues(r, n + 1)' /\ hand'[s] = n + 1 /\ Taken(s)' = n + 1
        BY <1>1, <1>5, <2>1, <2>2, <2>4, ContinuesTake
    <3> QED BY <2>1, <2>4, <3>1 DEF Continues
  <2> QED BY <2>3, <2>4
<1>9. SoleInv'
  <2>1. ASSUME NEW t \in Streams \ {s}, src[t] # NoRun, Sole(t), pc[t] \in Attached
        PROVE  Continues(src[t], Taken(t))'
    <3>1. PICK n : n = Taken(t)
        OBVIOUS
    <3>2. PICK x \in RunIds \ {r} : x = src[t]
        BY <1>2, <1>4, <2>1
    <3>3. Continues(x, n) /\ src'[t] = x /\ Taken(t)' = n
        BY <1>1, <1>4, <2>1, <3>1, <3>2 DEF ReadInv, SoleInv
    <3>4. Continues(x, n)'
        BY <1>3, <3>3
    <3> QED BY <3>3, <3>4 DEF Continues
  <2>2. ASSUME Sole(s) PROVE Continues(src[s], Taken(s))'
      BY <1>0, <1>1, <1>8, <2>2 DEF Continues
  <2>3. \A t \in Streams \ {s} : src[t] # NoRun /\ Sole(t) /\ Holding(t) =>
           IF hand[t] = Sentinel THEN queue'[src[t]] = <<>> ELSE hand[t] = Len(got[t]) + 1
      BY <1>1, <1>2, <1>4 DEF ReadInv, SoleInv
  <2> QED BY <1>0, <1>1, <1>4, <1>6, <1>8, <2>1, <2>2, <2>3 DEF SoleInv
<1>10. SoleReaderComplete'
    BY <1>1, <1>6 DEF ReadInv, SoleReaderComplete
<1> QED BY <1>7, <1>9, <1>10 DEF ReadInv

(* Yielding the item in hand extends what the only reader yielded by its   *)
(* next number.                                                            *)
LEMMA ReadYield ==
    ASSUME TypeOK, ReadInv, NEW s \in Streams, Yield(s)
    PROVE  ReadInv'
<1>1. /\ UNCHANGED <<queue, emitted, task, cancel, shutdown, src, hand>>
      /\ Holding(s) /\ hand[s] # Sentinel /\ pc'[s] = "yielding" /\ pc[s] \in Attached
      /\ got'[s] = Append(got[s], hand[s])
      /\ \A t \in Streams \ {s} : pc'[t] = pc[t] /\ got'[t] = got[t]
    BY DEF Yield, OnlyStream, taskVars, TypeOK, Holding, Attached
<1>2. \A t \in Streams : (src[t] # NoRun => src[t] \in RunIds) /\ (Sole(t)' <=> Sole(t))
    BY <1>1 DEF TypeOK, Sole
<1>3. /\ Len(got[s]) \in Nat /\ DOMAIN got[s] = 1..Len(got[s])
      /\ DOMAIN got'[s] = 1..(Len(got[s]) + 1) /\ Len(got'[s]) = Len(got[s]) + 1
      /\ \A k \in 1..Len(got[s]) : got'[s][k] = got[s][k]
      /\ got'[s][Len(got[s]) + 1] = hand[s]
  <2>1. got[s] \in Seq(Nat) /\ hand[s] \in Nat
      BY DEF TypeOK
  <2>2. Len(got[s]) \in Nat
      BY <2>1
  <2> QED BY <1>1, <2>1, <2>2, AppendAt
<1>4. /\ ~Holding(s)' /\ Taken(s)' = Taken(s)
      /\ \A t \in Streams \ {s} : (Holding(t)' <=> Holding(t)) /\ Taken(t)' = Taken(t)
  <2>1. ~Holding(s)' /\ \A t \in Streams \ {s} : Holding(t)' <=> Holding(t)
      BY <1>1 DEF Holding
  <2>2. Taken(s) = Len(got[s]) + 1 /\ Taken(s)' = Len(got'[s]) + 0
      BY <1>1, <2>1 DEF Taken, Count
  <2>3. \A t \in Streams \ {s} : Taken(t)' = Taken(t)
      BY <1>1, <2>1 DEF Taken, Count
  <2> QED BY <1>3, <2>1, <2>2, <2>3
<1>5. \A x \in RunIds : \A n : Continues(x, n)' <=> Continues(x, n)
    BY <1>1 DEF Continues, Closed
<1>6. UnreadInv'
    BY <1>1, <1>5 DEF ReadInv, UnreadInv
<1>7. SoleInv'
  <2>1. ASSUME NEW t \in Streams, src[t] # NoRun, Sole(t), pc'[t] \in Attached
        PROVE  Continues(src[t], Taken(t))'
    <3>1. PICK n : n = Taken(t)
        OBVIOUS
    <3>2. PICK x \in RunIds : x = src[t]
        BY <1>2, <2>1
    <3>3. Continues(x, n) /\ src'[t] = x /\ Taken(t)' = n
        BY <1>1, <1>4, <2>1, <3>1, <3>2 DEF ReadInv, SoleInv
    <3>4. Continues(x, n)'
        BY <1>5, <3>3
    <3> QED BY <3>3, <3>4 DEF Continues
  <2>2. \A t \in Streams : src[t] # NoRun /\ Sole(t) /\ Holding(t)' =>
           t # s /\ IF hand[t] = Sentinel THEN queue[src[t]] = <<>> ELSE hand[t] = Len(got[t]) + 1
      BY <1>4 DEF ReadInv, SoleInv
  <2> QED BY <1>1, <1>2, <2>1, <2>2 DEF SoleInv
<1>8. SoleReaderComplete'
  <2>1. ASSUME src[s] # NoRun, Sole(s) PROVE \A k \in DOMAIN got'[s] : got'[s][k] = k
    <3>1. hand[s] = Len(got[s]) + 1
        BY <1>1, <2>1 DEF ReadInv, SoleInv
    <3>2. \A k \in 1..Len(got[s]) : got[s][k] = k
        BY <1>3, <2>1 DEF ReadInv, SoleReaderComplete
    <3> QED BY <1>3, <3>1, <3>2
  <2>2. \A t \in Streams \ {s} : src[t] # NoRun /\ Sole(t) =>
          /\ \A k \in DOMAIN got[t] : got[t][k] = k
          /\ pc[t] = "ended" /\ cancel[src[t]] = "no" /\ ~shutdown =>
                task[src[t]] = "done" /\ Len(got[t]) = emitted[src[t]]
      BY DEF ReadInv, SoleReaderComplete
  <2> QED BY <1>1, <1>2, <2>1, <2>2 DEF SoleReaderComplete
<1> QED BY <1>6, <1>7, <1>8 DEF ReadInv

(* When its only reader sees the sentinel, the run is done and every item  *)
(* it produced was yielded, unless it was cancelled.                       *)
LEMMA ReadEnd ==
    ASSUME TypeOK, ItemInv, RunOrigin, ReadInv, NEW s \in Streams, SeeSentinel(s)
    PROVE  ReadInv'
<1>1. /\ UNCHANGED <<queue, emitted, task, cancel, shutdown, src, hand, got>>
      /\ pc[s] = "selected" /\ hand[s] = Sentinel /\ pc' = [pc EXCEPT ![s] = "ended"]
    BY DEF SeeSentinel, EndStream, OnlyStream, taskVars
<1>2. src[s] \in RunIds /\ src[s] # NoRun /\ Holding(s) /\ task[src[s]] = "done"
    BY <1>1, RunnerAssumption DEF ItemInv, StreamOrigin, TypeOK, Holding
<1>3. ASSUME Sole(s), cancel[src[s]] = "no" PROVE Len(got[s]) = emitted[src[s]]
  <2>1. PICK r \in RunIds, n \in Nat : r = src[s] /\ n = Len(got[s])
      BY <1>2 DEF TypeOK
  <2>2. Taken(s) = n
      BY <1>1, <2>1 DEF Taken, Count
  <2>3. queue[r] = <<>> /\ Continues(r, n)
      BY <1>1, <1>2, <1>3, <2>1, <2>2 DEF ReadInv, SoleInv, Attached
  <2>4. ~Closed(r) /\ Len(queue[r]) = 0 /\ task[r] \notin BlockedInPut /\ cancel[r] # "over"
      BY <1>2, <1>3, <2>1, <2>3 DEF Closed, BlockedInPut
  <2>5. emitted[r] \in Nat
      BY DEF TypeOK
  <2> QED BY <2>1, <2>3, <2>4, <2>5 DEF Continues, Count
<1> QED BY <1>1, <1>2, <1>3, ReadMove DEF StreamState, Attached

(* Every step keeps what readers miss at nothing.                          *)
LEMMA ReadStep ==
    ASSUME TypeOK, TypeOK', ItemInv, RunOrigin, ReadInv, [Next]_vars
    PROVE  ReadInv'
<1>1. ASSUME NEW r \in RunIds, RunStep(r) PROVE ReadInv'
    BY <1>1, TaskActions, ReadTask
<1>2. ASSUME NEW r \in RunIds, StartRun(r) PROVE ReadInv'
  <2>1. \A x \in RunIds : task'[x] = task[x] \/ (task[x] = "none" /\ task'[x] = "graph")
      BY <1>2 DEF StartRun, TypeOK
  <2> QED BY <1>2, <2>1, ReadFrame DEF StartRun, BlockedInPut
<1>3. ASSUME NEW r \in RunIds, PauseRun(r) \/ UnpauseRun(r) PROVE ReadInv'
    BY <1>3, ReadFrame DEF PauseRun, UnpauseRun, taskVars
<1>4. ASSUME NEW R \in SUBSET RunIds, R \subseteq active, CancelTasks(R)
      PROVE  \A x \in RunIds : /\ cancel'[x] # "over" => cancel[x] # "over"
                               /\ cancel'[x] = "no" => cancel[x] = "no"
    BY <1>4 DEF CancelTasks, RunOrigin
<1>5. ASSUME NEW r \in RunIds, CancelRun(r) PROVE ReadInv'
    BY <1>4, <1>5, ReadFrame DEF CancelRun
<1>6. ASSUME Shutdown PROVE ReadInv'
    BY <1>4, <1>6, ReadFrame DEF Shutdown, TypeOK
<1>7. ASSUME NEW r \in RunIds, OrphanFetch(r) PROVE ReadInv'
    BY <1>7, ReadOrphan
<1>8. ASSUME NEW s \in Streams, NEW r \in RunIds, Connect(s, r) PROVE ReadInv'
    BY <1>8, ReadConnect
<1>9. ASSUME NEW s \in Streams, Fetch(s) PROVE ReadInv'
    BY <1>9, ReadFetch
<1>10. ASSUME NEW s \in Streams, Yield(s) PROVE ReadInv'
    BY <1>10, ReadYield
<1>11. ASSUME NEW s \in Streams, Select(s) PROVE ReadInv'
    BY <1>11, ReadMove DEF Select, OnlyStream, taskVars, StreamState, Attached, Holding
<1>12. ASSUME NEW s \in Streams, NextRead(s) PROVE ReadInv'
    BY <1>12, ReadMove DEF NextRead, OnlyStream, taskVars, StreamState, Attached, Holding
<1>13. ASSUME NEW s \in Streams, SeeSentinel(s) PROVE ReadInv'
    BY <1>13, ReadEnd
<1>14. ASSUME NEW s \in Streams, SeeShutdown(s) PROVE ReadInv'
    BY <1>14, ReadMove DEF SeeShutdown, EndStream, OnlyStream, taskVars, StreamState, Attached
<1>15. ASSUME NEW s \in Streams, Disconnect(s) PROVE ReadInv'
    BY <1>15, ReadMove DEF Disconnect, OnlyStream, taskVars, StreamState, Attached
<1>16. ASSUME UNCHANGED vars PROVE ReadInv'
    BY <1>16, ReadFrame DEF vars, streamVars
<1> QED
    BY <1>1, <1>2, <1>3, <1>5, <1>6, <1>7, <1>8, <1>9, <1>10, <1>11, <1>12, <1>13,
       <1>14, <1>15, <1>16 DEF Next, StreamStep

(* Initially nothing was produced and nobody reads.                        *)
LEMMA ReadInit == Init => RunOrigin /\ ReadInv
<1> SUFFICES ASSUME Init PROVE RunOrigin /\ ReadInv
    OBVIOUS
<1>1. /\ \A r \in RunIds : /\ queue[r] = <<>> /\ task[r] = "none" /\ emitted[r] = 0
                            /\ cancel[r] = "no" /\ orphans[r] = 0
      /\ \A s \in Streams : src[s] = NoRun
      /\ active = {}
    BY DEF Init
<1>2. RunOrigin
    BY <1>1 DEF RunOrigin
<1>3. UnreadInv
  <2>1. ASSUME NEW r \in RunIds PROVE Continues(r, 0)
    <3>1. DOMAIN queue[r] = {} /\ Len(queue[r]) = 0 /\ task[r] \notin BlockedInPut
        BY <1>1 DEF BlockedInPut
    <3> QED BY <1>1, <3>1 DEF Continues, Closed, Count
  <2> QED BY <2>1 DEF UnreadInv
<1>4. SoleInv /\ SoleReaderComplete
    BY <1>1 DEF SoleInv, SoleReaderComplete
<1> QED BY <1>2, <1>3, <1>4 DEF ReadInv

(* The whole invariant of the runner.                                      *)
THEOREM Continuity == Spec => []CInv
<1>1. Init => CInv
  <2>1. Init => HandleInv
      BY DEF Init, HandleInv, HandlesGoneOnShutdown, NoUnreachableTask, Live, BlockedInPut
  <2> QED BY <2>1, TypeInit, ItemInit, ReadInit DEF CInv, IInv, ItemInv, HandleInv, ReadInv
<1>2. CInv /\ [Next]_vars => CInv'
  <2> SUFFICES ASSUME CInv, [Next]_vars PROVE CInv'
      OBVIOUS
  <2>1. TypeOK /\ ItemInv /\ HandleInv /\ RunOrigin /\ ReadInv
      BY DEF CInv, IInv, ItemInv, HandleInv, ReadInv
  <2>2. TypeOK'
      BY <2>1, TypeStep
  <2>3. ItemInv' /\ HandleInv' /\ RunOrigin' /\ ReadInv'
      BY <2>1, <2>2, ItemStep, HandleStep, OriginStep, ReadStep
  <2> QED BY <2>2, <2>3 DEF CInv, IInv, ItemInv, HandleInv, ReadInv
<1> QED BY <1>1, <1>2, PTL DEF Spec

(* The only stream ever opened on a run sees its items without a gap, and  *)
(* ends only after all of them unless the run was cancelled or the         *)
(* application shut down.                                                  *)
THEOREM NoItemMissed == Spec => []SoleReaderComplete
<1>1. CInv => SoleReaderComplete
    BY DEF CInv
<1> QED BY <1>1, Continuity, PTL

-----------------------------------------------------------------------------
(* The runner implements EventStream.                                      *)

(* The runs whose items may be lost.                                       *)
Disturbed == {r \in RunIds : \/ cancel[r] # "no" \/ shutdown
                             \/ \E s \in Streams : src[s] = r /\ pc[s] = "detached"}

(* A step that produces and yields nothing is a step of the abstract       *)
(* specification if only disturbed runs lose items by it.                  *)
LEMMA IsDisturb ==
    ASSUME UNCHANGED <<emitted, src, got>>, Disturbed \subseteq Disturbed',
           \A r \in RunIds : /\ Items(r)' \subseteq Items(r)
                             /\ Items(r)' # Items(r) => r \in Disturbed'
    PROVE  Stream!Next
<1>1. Stream!Disturb
    BY DEF Stream!Disturb, Disturbed
<1> QED BY <1>1 DEF Stream!Next

(* What the items of a run depend on.                                      *)
LEMMA ItemsFrame ==
    ASSUME NEW r \in RunIds, queue'[r] = queue[r], emitted'[r] = emitted[r],
           task'[r] \in BlockedInPut <=> task[r] \in BlockedInPut,
           \A s \in Streams : src'[s] = r /\ Holding(s)' <=> src[s] = r /\ Holding(s),
           \A s \in Streams : src[s] = r /\ Holding(s) => hand'[s] = hand[s]
    PROVE  Items(r)' = Items(r)
BY DEF Items, Holding

(* A step of a task adds the item it produced, and loses one only to a     *)
(* cancellation.                                                           *)
LEMMA ItemsTask ==
    ASSUME TypeOK, TypeOK', ItemInv, RunOrigin, NEW r \in RunIds, TaskStep(r)
    PROVE  /\ \A x \in RunIds \ {r} : Items(x)' = Items(x)
           /\ cancel'[r] = cancel[r] =>
                 Items(r)' = Items(r) \cup (IF emitted'[r] > emitted[r] THEN {emitted'[r]} ELSE {})
           /\ cancel'[r] # cancel[r] => emitted'[r] = emitted[r] /\ Items(r)' \subseteq Items(r)
<1>0. /\ src' = src /\ pc' = pc /\ hand' = hand
      /\ \A s \in Streams : Holding(s)' <=> Holding(s)
    BY DEF TaskStep, streamVars, Holding
<1>1. \A x \in RunIds \ {r} : Items(x)' = Items(x)
    BY <1>0 DEF Items, TaskStep
<1>2. /\ queue[r] \in Seq(Nat) /\ emitted[r] \in Nat /\ emitted'[r] \in Nat
      /\ DOMAIN queue[r] = 1..Len(queue[r]) /\ Len(queue[r]) \in Nat
    BY DEF TypeOK
<1>3. \A n \in Nat \ {0} : (\E i \in DOMAIN queue'[r] : queue'[r][i] = n) =>
         \/ \E i \in DOMAIN queue[r] : queue[r][i] = n
         \/ n = emitted'[r] /\ Fresh(r)
    BY QueueAfter
<1>4. \A i \in DOMAIN queue[r] : i \in DOMAIN queue'[r] /\ queue'[r][i] = queue[r][i]
  <2>1. CASE queue'[r] = queue[r]
      BY <2>1
  <2>2. CASE queue'[r] = Append(queue[r], emitted'[r]) \/ queue'[r] = Append(queue[r], Sentinel)
      BY <1>2, <2>2, AppendAt
  <2>3. CASE queue'[r] = Append(Append(queue[r], emitted'[r]), Sentinel)
    <3>1. Append(queue[r], emitted'[r]) \in Seq(Nat)
        BY <1>2
    <3> QED BY <1>2, <2>3, <3>1, AppendAt
  <2> QED BY <2>1, <2>2, <2>3 DEF TaskStep
<1>5. ASSUME Fresh(r), cancel'[r] # "over" \/ emitted'[r] > emitted[r]
      PROVE  \/ \E i \in DOMAIN queue'[r] : queue'[r][i] = emitted'[r]
             \/ task'[r] \in BlockedInPut /\ emitted'[r] > emitted[r]
  <2>1. Append(queue[r], emitted'[r]) \in Seq(Nat)
      BY <1>2
  <2>2. ASSUME \/ queue'[r] = Append(queue[r], emitted'[r])
               \/ queue'[r] = Append(Append(queue[r], emitted'[r]), Sentinel)
        PROVE  \E i \in DOMAIN queue'[r] : queue'[r][i] = emitted'[r]
    <3>0. /\ Len(queue[r]) + 1 \in DOMAIN Append(queue[r], emitted'[r])
          /\ Append(queue[r], emitted'[r])[Len(queue[r]) + 1] = emitted'[r]
        BY <1>2, AppendAt
    <3>1. PICK q \in Seq(Nat) : /\ q = Append(queue[r], emitted'[r])
                                /\ Len(queue[r]) + 1 \in DOMAIN q
                                /\ q[Len(queue[r]) + 1] = emitted'[r]
        BY <2>1, <3>0
    <3>2. CASE queue'[r] = q
        BY <3>1, <3>2
    <3>3. CASE queue'[r] = Append(q, Sentinel)
      <4>1. \A i \in DOMAIN q : i \in DOMAIN queue'[r] /\ queue'[r][i] = q[i]
          BY <3>3, AppendAt, Sentinel \in Nat DEF Sentinel
      <4> QED BY <3>1, <4>1
    <3> QED BY <2>2, <3>1, <3>2, <3>3
  <2>3. emitted'[r] > emitted[r] => task[r] \notin BlockedInPut
      BY <1>2 DEF TaskStep
  <2> QED BY <1>2, <1>5, <2>2, <2>3 DEF Fresh, TaskStep
<1>6. Fresh(r) => \/ emitted'[r] > emitted[r]
                  \/ emitted'[r] = emitted[r] /\ emitted[r] > 0 /\ task[r] \in BlockedInPut
    BY <1>2 DEF Fresh, TaskStep, ItemInv, PendingIsNewest
<1>7. /\ \A i \in DOMAIN queue[r] : queue[r][i] \in Nat /\ queue[r][i] <= emitted[r]
      /\ \A s \in Streams : src[s] = r => hand[s] \in Nat /\ hand[s] <= emitted[r]
    BY DEF TypeOK, ItemInv, QueueSorted, QueueIsNewer
<1>8. task'[r] \in BlockedInPut => emitted'[r] > emitted[r]
    BY DEF TaskStep, BlockedInPut
<1>9. ASSUME NEW n \in Items(r)'
      PROVE  n \in Items(r) \/ (n = emitted'[r] /\ emitted'[r] > emitted[r])
  <2>0. n \in 1..emitted'[r]
      BY <1>9 DEF Items
  <2>1. CASE \E i \in DOMAIN queue'[r] : queue'[r][i] = n
    <3>1. CASE \E i \in DOMAIN queue[r] : queue[r][i] = n
        BY <1>2, <1>7, <2>0, <3>1 DEF Items
    <3>2. CASE n = emitted'[r] /\ Fresh(r)
        BY <1>2, <1>6, <2>0, <3>2 DEF Items
    <3> QED BY <1>3, <2>0, <2>1, <3>1, <3>2
  <2>2. CASE \E s \in Streams : src[s] = r /\ hand[s] = n /\ Holding(s)
      BY <1>2, <1>7, <2>0, <2>2 DEF Items, Holding
  <2>3. CASE task'[r] \in BlockedInPut /\ n = emitted'[r]
      BY <1>8, <2>3
  <2> QED BY <1>0, <1>9, <2>1, <2>2, <2>3 DEF Items, Holding
<1>10. ASSUME cancel'[r] = cancel[r]
       PROVE  Items(r) \cup (IF emitted'[r] > emitted[r] THEN {emitted'[r]} ELSE {}) \subseteq Items(r)'
  <2>1. task[r] \in BlockedInPut => cancel'[r] # "over" /\ emitted'[r] = emitted[r]
      BY <1>10 DEF RunOrigin, BlockedInPut, TaskStep
  <2>2. task[r] \in BlockedInPut => \E i \in DOMAIN queue'[r] : queue'[r][i] = emitted[r]
      BY <1>2, <1>5, <2>1 DEF Fresh
  <2>3. ASSUME NEW n \in Items(r) PROVE n \in Items(r)'
      BY <1>0, <1>2, <1>4, <2>2, <2>3 DEF Items, Holding, TaskStep
  <2>4. ASSUME emitted'[r] > emitted[r] PROVE emitted'[r] \in Items(r)'
    <3>1. emitted'[r] \in 1..emitted'[r]
        BY <1>2, <2>4
    <3> QED BY <1>5, <2>4, <3>1 DEF Fresh, Items
  <2> QED BY <2>3, <2>4
<1>11. ASSUME cancel'[r] # cancel[r] PROVE emitted'[r] = emitted[r]
    BY <1>2, <1>11 DEF TaskStep, BlockedInPut
<1> QED BY <1>1, <1>2, <1>9, <1>10, <1>11

(* A run stays disturbed.                                                  *)
LEMMA DisturbedTask ==
    ASSUME TypeOK, NEW r \in RunIds, TaskStep(r)
    PROVE  /\ Disturbed \subseteq Disturbed'
           /\ cancel'[r] = cancel[r] => Disturbed' = Disturbed
           /\ cancel'[r] # cancel[r] => r \in Disturbed'
<1>1. src' = src /\ pc' = pc /\ shutdown' = shutdown
    BY DEF TaskStep, streamVars
<1>2. \A x \in RunIds \ {r} : cancel'[x] = cancel[x]
    BY DEF TaskStep
<1>3. cancel'[r] # cancel[r] => cancel'[r] = "over"
    BY DEF TaskStep
<1> QED BY <1>1, <1>2, <1>3 DEF Disturbed

(* A step of a task publishes an item, is not seen at all, or is the       *)
(* delivery of a cancellation.                                             *)
LEMMA TaskRefines ==
    ASSUME TypeOK, TypeOK', ItemInv, RunOrigin, NEW r \in RunIds, TaskStep(r)
    PROVE  Stream!Next
<1>1. src' = src /\ got' = got
    BY DEF TaskStep, streamVars
<1>2. \A x \in RunIds \ {r} : emitted'[x] = emitted[x]
    BY DEF TaskStep
<1>3. CASE emitted'[r] = emitted[r]
  <2>1. emitted' = emitted
      BY <1>2, <1>3 DEF TypeOK
  <2>2. ~(emitted'[r] > emitted[r])
      BY <1>3 DEF TypeOK
  <2>3. cancel'[r] = cancel[r] => Items(r)' = Items(r)
      BY <2>2, ItemsTask
  <2>4. Items(r)' \subseteq Items(r) /\ \A x \in RunIds \ {r} : Items(x)' = Items(x)
      BY <2>3, ItemsTask
  <2> QED BY <1>1, <2>1, <2>3, <2>4, DisturbedTask, IsDisturb
<1>4. CASE emitted'[r] # emitted[r]
  <2>1. /\ emitted'[r] = emitted[r] + 1 /\ emitted'[r] > emitted[r]
        /\ cancel'[r] = cancel[r]
      BY <1>4, ItemsTask DEF TaskStep, TypeOK
  <2>2. emitted' = [emitted EXCEPT ![r] = @ + 1]
      BY <1>2, <2>1 DEF TypeOK
  <2>3. /\ Items(r)' = Items(r) \cup {emitted[r] + 1}
        /\ \A x \in RunIds \ {r} : Items(x)' = Items(x)
      BY <2>1, ItemsTask
  <2>4. [x \in RunIds |-> Items(x)]'
           = [[x \in RunIds |-> Items(x)] EXCEPT ![r] = @ \cup {emitted[r] + 1}]
      BY <2>3
  <2>5. Disturbed' = Disturbed
      BY <2>1, DisturbedTask
  <2>6. Stream!Publish(r)
      BY <1>1, <2>2, <2>4, <2>5 DEF Stream!Publish, Disturbed
  <2> QED BY <2>6 DEF Stream!Next
<1> QED BY <1>3, <1>4

(* A stream that opens attaches to its run.                                *)
LEMMA ConnectRefines ==
    ASSUME TypeOK, ItemInv, NEW s \in Streams, NEW r \in RunIds, Connect(s, r)
    PROVE  Stream!Next
<1>1. /\ UNCHANGED <<queue, emitted, task, cancel, shutdown, hand, got>>
      /\ src[s] = NoRun /\ pc[s] = "off"
      /\ src' = [src EXCEPT ![s] = r] /\ pc'[s] \in {"waiting", "ended"}
      /\ src'[s] = r
      /\ \A t \in Streams \ {s} : pc'[t] = pc[t] /\ src'[t] = src[t]
    BY DEF Connect, OnlyStream, taskVars, TypeOK, ItemInv, StreamOrigin
<1>2. ~Holding(s) /\ ~Holding(s)' /\ \A t \in Streams \ {s} : Holding(t)' <=> Holding(t)
    BY <1>1 DEF Holding
<1>3. \A x \in RunIds : Items(x)' = Items(x)
    BY <1>1, <1>2, ItemsFrame
<1>4. Disturbed' = Disturbed
    BY <1>1 DEF Disturbed
<1>5. Stream!Attach(s, r)
    BY <1>1, <1>3, <1>4 DEF Stream!Attach, Disturbed
<1> QED BY <1>5 DEF Stream!Next

(* The get() of a stream moves the head of the queue into its hand.        *)
LEMMA FetchRefines ==
    ASSUME TypeOK, NEW s \in Streams, Fetch(s)
    PROVE  Stream!Next
<1>0. PICK r \in RunIds : r = src[s]
    BY DEF Fetch, TypeOK
<1>1. /\ Takes(r) /\ UNCHANGED <<emitted, task, cancel, shutdown, src, got>>
      /\ pc[s] = "waiting" /\ pc'[s] = "fetched" /\ hand'[s] = Head(queue[r])
      /\ \A t \in Streams \ {s} : pc'[t] = pc[t] /\ hand'[t] = hand[t]
      /\ \A x \in RunIds \ {r} : queue'[x] = queue[x]
    BY <1>0 DEF Fetch, Takes, TypeOK
<1>2. ~Holding(s) /\ Holding(s)' /\ \A t \in Streams \ {s} : Holding(t)' <=> Holding(t)
    BY <1>1 DEF Holding
<1>3. \A x \in RunIds \ {r} : Items(x)' = Items(x)
    BY <1>0, <1>1, <1>2, ItemsFrame
<1>4. Items(r)' \subseteq Items(r)
  <2>1. 1 \in DOMAIN queue[r] /\ hand'[s] = queue[r][1]
      BY <1>1, TakeShrinks
  <2>2. \A n : (\E i \in DOMAIN queue'[r] : queue'[r][i] = n) => \E i \in DOMAIN queue[r] : queue[r][i] = n
      BY <1>1, TakeShrinks
  <2> QED BY <1>0, <1>1, <1>2, <2>1, <2>2 DEF Items, Holding
<1>5. Items(r) \subseteq Items(r)'
  <2>1. ASSUME NEW i \in DOMAIN queue[r]
        PROVE  queue[r][i] = hand'[s] \/ \E j \in DOMAIN queue'[r] : queue'[r][j] = queue[r][i]
    <3>1. CASE i = 1
        BY <1>1, <3>1, TakeShrinks
    <3>2. CASE i # 1
      <4>1. i - 1 \in DOMAIN queue'[r] /\ queue'[r][i - 1] = queue[r][i]
          BY <1>1, <2>1, <3>2, TakeShrinks
      <4> QED BY <4>1
    <3> QED BY <3>1, <3>2
  <2> QED BY <1>0, <1>1, <1>2, <2>1 DEF Items, Holding
<1>6. Disturbed' = Disturbed
    BY <1>1 DEF Disturbed
<1> QED BY <1>1, <1>3, <1>4, <1>5, <1>6, IsDisturb

(* What an abandoned get() takes belongs to a run whose stream left.       *)
LEMMA OrphanRefines ==
    ASSUME TypeOK, RunOrigin, NEW r \in RunIds, OrphanFetch(r)
    PROVE  Stream!Next
<1>1. /\ UNCHANGED <<emitted, task, cancel, shutdown, src, pc, hand, got>> /\ Takes(r)
      /\ \A x \in RunIds \ {r} : queue'[x] = queue[x]
    BY DEF OrphanFetch, streamVars, TypeOK, Takes
<1>2. r \in Disturbed /\ Disturbed' = Disturbed
    BY <1>1 DEF OrphanFetch, RunOrigin, TypeOK, Disturbed
<1>3. \A x \in RunIds \ {r} : Items(x)' = Items(x)
    BY <1>1 DEF Items
<1>4. \A n : (\E i \in DOMAIN queue'[r] : queue'[r][i] = n) => \E i \in DOMAIN queue[r] : queue[r][i] = n
    BY <1>1, TakeShrinks
<1>5. Items(r)' \subseteq Items(r)
    BY <1>1, <1>4 DEF Items
<1> QED BY <1>1, <1>2, <1>3, <1>5, IsDisturb

(* Yielding delivers the item in hand, which is nowhere else.              *)
LEMMA YieldRefines ==
    ASSUME TypeOK, ItemInv, NEW s \in Streams, Yield(s)
    PROVE  Stream!Next
<1>0. PICK r \in RunIds : r = src[s]
    BY DEF Yield, TypeOK
<1>1. /\ UNCHANGED <<queue, emitted, task, cancel, shutdown, src, hand>>
      /\ Holding(s) /\ hand[s] # Sentinel /\ pc'[s] = "yielding" /\ ~Holding(s)'
      /\ got' = [got EXCEPT ![s] = Append(@, hand[s])]
      /\ \A t \in Streams \ {s} : pc'[t] = pc[t] /\ (Holding(t)' <=> Holding(t))
    BY DEF Yield, OnlyStream, taskVars, TypeOK, Holding
<1>2. PICK n \in Nat : n = hand[s]
    BY DEF TypeOK
<1>3. n \in 1..emitted[r] /\ \A k \in DOMAIN got[s] : got[s][k] < n
    BY <1>0, <1>1, <1>2 DEF ItemInv, QueueIsNewer, HandIsNewer, TypeOK
<1>4. n \in Items(r)
    BY <1>0, <1>1, <1>2, <1>3 DEF Items, Holding
<1>5. /\ \A i \in DOMAIN queue[r] : queue[r][i] # n
      /\ \A t \in Streams \ {s} : src[t] = r /\ Holding(t) => hand[t] # n
      /\ task[r] \in BlockedInPut => n # emitted[r]
  <2>1. \A i \in DOMAIN queue[r] : queue[r][i] # n
      BY <1>0, <1>1, <1>2 DEF ItemInv, QueueIsNewer, TypeOK
  <2>2. \A t \in Streams \ {s} : src[t] = r /\ Holding(t) => hand[t] # n
      BY <1>0, <1>1, <1>2 DEF ItemInv, HandIsNewer
  <2>3. task[r] \in BlockedInPut => n # emitted[r]
      BY <1>0, <1>1, <1>2 DEF ItemInv, PendingIsNewest, TypeOK
  <2> QED BY <2>1, <2>2, <2>3
<1>6. Items(r)' = Items(r) \ {n}
    BY <1>0, <1>1, <1>2, <1>5 DEF Items, Holding
<1>7. \A x \in RunIds \ {r} : Items(x)' = Items(x)
    BY <1>0, <1>1 DEF Items, Holding
<1>8. [x \in RunIds |-> Items(x)]' = [[x \in RunIds |-> Items(x)] EXCEPT ![r] = @ \ {n}]
    BY <1>6, <1>7
<1>9. Disturbed' = Disturbed
  <2>1. \A t \in Streams : pc'[t] = "detached" <=> pc[t] = "detached"
      BY <1>1 DEF Holding
  <2> QED BY <1>1, <2>1 DEF Disturbed
<1>10. src[s] # NoRun
    BY <1>0, RunnerAssumption
<1>11. Stream!Deliver(s, n)
    BY <1>0, <1>1, <1>2, <1>3, <1>4, <1>8, <1>9, <1>10 DEF Stream!Deliver, Disturbed
<1> QED BY <1>0, <1>4, <1>10, <1>11 DEF Stream!Next

(* A stream that moves on, ends or leaves yields nothing; what it drops    *)
(* with an item in its hand is an item of a run that is disturbed by it.   *)
LEMMA MoveRefines ==
    ASSUME TypeOK, NEW s \in Streams, pc[s] # "off",
           UNCHANGED <<queue, emitted, task, cancel, shutdown, src, hand, got>>,
           NEW w \in StreamState, pc' = [pc EXCEPT ![s] = w], pc[s] # "detached",
           w \in {"fetched", "selected"} => Holding(s),
           shutdown \/ hand[s] = Sentinel \/ w = "detached"
              \/ (w \in {"fetched", "selected"} <=> Holding(s))
    PROVE  Stream!Next
<1>1. /\ pc'[s] = w /\ src[s] \in RunIds
      /\ \A t \in Streams \ {s} : pc'[t] = pc[t] /\ (Holding(t)' <=> Holding(t))
      /\ Holding(s)' <=> w \in {"fetched", "selected"}
    BY DEF TypeOK, Holding
<1>2. Disturbed \subseteq Disturbed' /\ (shutdown \/ w = "detached" => src[s] \in Disturbed')
    BY <1>1 DEF Disturbed
<1>3. \A x \in RunIds \ {src[s]} : Items(x)' = Items(x)
    BY <1>1 DEF Items, Holding
<1>4. Items(src[s])' \subseteq Items(src[s])
    BY <1>1 DEF Items, Holding
<1>5. hand[s] = Sentinel \/ (Holding(s)' <=> Holding(s)) => Items(src[s])' = Items(src[s])
    BY <1>1 DEF Items, Holding
<1> QED BY <1>1, <1>2, <1>3, <1>4, <1>5, IsDisturb

(* Every step of the runner is a step of EventStream or is not seen by it. *)
LEMMA StepRefines ==
    ASSUME TypeOK, TypeOK', ItemInv, RunOrigin, [Next]_vars
    PROVE  [Stream!Next]_(Stream!vars)
<1>1. ASSUME NEW r \in RunIds, RunStep(r) PROVE Stream!Next
    BY <1>1, TaskActions, TaskRefines
<1>2. ASSUME UNCHANGED <<queue, emitted, src, pc, hand, got>>, shutdown => shutdown',
             \A x \in RunIds : /\ task'[x] \in BlockedInPut <=> task[x] \in BlockedInPut
                               /\ cancel[x] # "no" => cancel'[x] # "no"
      PROVE  Stream!Next
  <2>1. Disturbed \subseteq Disturbed'
      BY <1>2 DEF Disturbed
  <2>2. \A x \in RunIds : Items(x)' = Items(x)
      BY <1>2 DEF Items
  <2> QED BY <1>2, <2>1, <2>2, IsDisturb
<1>3. ASSUME NEW r \in RunIds, StartRun(r) PROVE Stream!Next
  <2>1. \A x \in RunIds : task'[x] = task[x] \/ (task[x] = "none" /\ task'[x] = "graph")
      BY <1>3 DEF StartRun, TypeOK
  <2> QED BY <1>2, <1>3, <2>1 DEF StartRun, BlockedInPut, streamVars
<1>4. ASSUME NEW r \in RunIds, PauseRun(r) \/ UnpauseRun(r) PROVE Stream!Next
    BY <1>2, <1>4 DEF PauseRun, UnpauseRun, taskVars, streamVars
<1>5. ASSUME NEW R \in SUBSET RunIds, CancelTasks(R)
      PROVE  \A x \in RunIds : cancel[x] # "no" => cancel'[x] # "no"
    BY <1>5 DEF CancelTasks
<1>6. ASSUME NEW r \in RunIds, CancelRun(r) PROVE Stream!Next
    BY <1>2, <1>5, <1>6 DEF CancelRun, streamVars
<1>7. ASSUME Shutdown PROVE Stream!Next
    BY <1>2, <1>5, <1>7 DEF Shutdown, streamVars, TypeOK
<1>8. ASSUME NEW r \in RunIds, OrphanFetch(r) PROVE Stream!Next
    BY <1>8, OrphanRefines
<1>9. ASSUME NEW s \in Streams, NEW r \in RunIds, Connect(s, r) PROVE Stream!Next
    BY <1>9, ConnectRefines
<1>10. ASSUME NEW s \in Streams, Fetch(s) PROVE Stream!Next
    BY <1>10, FetchRefines
<1>11. ASSUME NEW s \in Streams, Yield(s) PROVE Stream!Next
    BY <1>11, YieldRefines
<1>12. ASSUME NEW s \in Streams, Select(s) \/ NextRead(s) PROVE Stream!Next
    BY <1>12, MoveRefines DEF Select, NextRead, OnlyStream, taskVars, StreamState, Attached, Holding
<1>13. ASSUME NEW s \in Streams, SeeSentinel(s) \/ SeeShutdown(s) PROVE Stream!Next
    BY <1>13, MoveRefines DEF SeeSentinel, SeeShutdown, EndStream, OnlyStream, taskVars, StreamState
<1>14. ASSUME NEW s \in Streams, Disconnect(s) PROVE Stream!Next
    BY <1>14, MoveRefines DEF Disconnect, OnlyStream, taskVars, StreamState, Attached
<1>15. ASSUME UNCHANGED vars PROVE Stream!Next
    BY <1>2, <1>15 DEF vars
<1> QED
    BY <1>1, <1>3, <1>4, <1>6, <1>7, <1>8, <1>9, <1>10, <1>11, <1>12, <1>13, <1>14, <1>15
    DEF Next, StreamStep

(* The runner implements EventStream: a run publishes numbered items, each *)
(* is handed to at most one stream, in order, and none vanishes unless the *)
(* run was cancelled, a client left it, or the application shut down.      *)
THEOREM Refinement == Spec => ImplementsEventStream
<1>1. Init => Stream!Init
  <2> SUFFICES ASSUME Init PROVE Stream!Init
      OBVIOUS
  <2>1. \A r \in RunIds : Items(r) = {}
      BY DEF Init, Items
  <2>2. Disturbed = {}
      BY DEF Init, Disturbed
  <2> QED BY <2>1, <2>2 DEF Init, Stream!Init, Disturbed
<1>2. CInv /\ CInv' /\ [Next]_vars => [Stream!Next]_(Stream!vars)
    BY StepRefines DEF CInv, IInv, ItemInv
<1> QED BY <1>1, <1>2, Continuity, PTL DEF Spec, ImplementsEventStream, Stream!Spec
=============================================================================
