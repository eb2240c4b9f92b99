------------------------- MODULE RunLifecycle_proofs -------------------------
(***************************************************************************)
(* Theorems about the rows of runs and threads, for any number of runs,    *)
(* streams and restarts.                                                   *)
(***************************************************************************)
EXTENDS RunLifecycle, TLAPS

USE LifecycleAssumption

-----------------------------------------------------------------------------
(* Type correctness.                                                       *)
LEMMA TypeStep == RInv /\ [Next]_vars => TypeOK'
<1> SUFFICES ASSUME RInv, [Next]_vars PROVE TypeOK'
    OBVIOUS
<1> USE DEF reqVars, runnerVars, streamVars, RInv
<1>1. ASSUME NEW r \in RunIds, CreateStart(r) PROVE TypeOK'
    BY <1>1 DEF CreateStart, NextRun, TypeOK, RowInv, Outcomes, Finalizing, Cancelling
<1>2. ASSUME NEW r \in RunIds, CreateLoad(r) PROVE TypeOK'
    BY <1>2 DEF CreateLoad, TypeOK, RowInv, Outcomes, Finalizing, Cancelling
<1>3. ASSUME NEW r \in RunIds, CreateCommit(r) PROVE TypeOK'
    BY <1>3 DEF CreateCommit, SetThread, TypeOK, RowInv, Outcomes, Finalizing, Cancelling
<1>4. ASSUME NEW r \in RunIds, ResumeLoad(r) PROVE TypeOK'
    BY <1>4 DEF ResumeLoad, NextRun, TypeOK, RowInv, Outcomes, Finalizing, Cancelling
<1>5. ASSUME NEW r \in RunIds, ResumeCommit(r) PROVE TypeOK'
    BY <1>5 DEF ResumeCommit, SetThread, TypeOK, RowInv, Outcomes, Finalizing, Cancelling
<1>6. ASSUME NEW r \in RunIds, ResumeStart(r) PROVE TypeOK'
    BY <1>6 DEF ResumeStart, TypeOK, RowInv, Outcomes, Finalizing, Cancelling
<1>7. ASSUME NEW r \in RunIds, CancelRead(r) PROVE TypeOK'
    BY <1>7 DEF CancelRead, TypeOK, RowInv, Outcomes, Finalizing, Cancelling
<1>8. ASSUME NEW r \in RunIds, CancelFlush(r) PROVE TypeOK'
    BY <1>8 DEF CancelFlush, TypeOK, RowInv, Outcomes, Finalizing, Cancelling
<1>9. ASSUME NEW r \in RunIds, CancelStop(r) PROVE TypeOK'
  <2>1. CASE r \in handles /\ task[r] = "running"
    <3>1. task' \in [RunIds -> Outcomes \cup {"none", "running", "cancelled", "killed"}]
        BY <1>9, <2>1 DEF CancelStop, TypeOK
    <3>2. handles' \subseteq {q \in RunIds : task'[q] \notin {"none", "killed"}}
        BY <1>9, <2>1 DEF CancelStop, TypeOK
    <3>3. sentinel' \in [RunIds -> BOOLEAN]
        BY <1>9, <2>1 DEF CancelStop, TypeOK
    <3>4. canc' \in [RunIds -> {"none", "read", "flushed", "stopped", "done", "error"}]
        BY <1>9 DEF CancelStop, TypeOK
    <3>5. UNCHANGED <<snap, thread, request, loaded, last, orphans, streamVars, crashes>>
        BY <1>9 DEF CancelStop
    <3> QED BY <3>1, <3>2, <3>3, <3>4, <3>5 DEF TypeOK, streamVars
  <2>2. CASE ~(r \in handles /\ task[r] = "running")
      BY <1>9, <2>2 DEF CancelStop, TypeOK
  <2> QED BY <2>1, <2>2
<1>10. ASSUME NEW r \in RunIds, CancelCommit(r) PROVE TypeOK'
    BY <1>10 DEF CancelCommit, SetThread, TypeOK, RowInv, Outcomes, Finalizing, Cancelling
<1>11. ASSUME NEW r \in RunIds, TaskEnd(r) PROVE TypeOK'
    BY <1>11 DEF TaskEnd, TypeOK, RowInv, Outcomes, Finalizing, Cancelling
<1>12. ASSUME NEW r \in RunIds, OrphanFetch(r) PROVE TypeOK'
  <2>1. orphans' \in [RunIds -> Nat]
      BY <1>12 DEF OrphanFetch, TypeOK
  <2>2. /\ last' \in [RunIds -> {"none", "interrupt", "error"}]
        /\ sentinel' \in [RunIds -> BOOLEAN]
    <3>1. \/ last' = last \/ last' = [last EXCEPT ![r] = "none"]
        BY <1>12 DEF OrphanFetch
    <3>2. \/ sentinel' = sentinel \/ sentinel' = [sentinel EXCEPT ![r] = FALSE]
        BY <1>12 DEF OrphanFetch
    <3>3. /\ last \in [RunIds -> {"none", "interrupt", "error"}]
          /\ sentinel \in [RunIds -> BOOLEAN]
        BY DEF TypeOK
    <3>4. last' \in [RunIds -> {"none", "interrupt", "error"}]
        BY <3>1, <3>3
    <3>5. sentinel' \in [RunIds -> BOOLEAN]
        BY <3>2, <3>3
    <3> QED BY <3>4, <3>5
  <2> QED BY <1>12, <2>1, <2>2 DEF OrphanFetch, OnlyStream, TypeOK
<1>13. ASSUME NEW s \in Streams, SeeLast(s) PROVE TypeOK'
    BY <1>13 DEF SeeLast, OnlyStream, TypeOK, RowInv, Outcomes, Finalizing, Cancelling
<1>14. ASSUME NEW s \in Streams, SeeSentinel(s) PROVE TypeOK'
    BY <1>14 DEF SeeSentinel, OnlyStream, TypeOK, RowInv, Outcomes, Finalizing, Cancelling
<1>15. ASSUME NEW s \in Streams, StreamError(s) PROVE TypeOK'
    BY <1>15 DEF StreamError, OnlyStream, TypeOK, RowInv, Outcomes, Finalizing, Cancelling
<1>16. ASSUME NEW s \in Streams, Disconnect(s) PROVE TypeOK'
    BY <1>16 DEF Disconnect, OnlyStream, TypeOK, RowInv, Outcomes, Finalizing, Cancelling
<1>17. ASSUME NEW s \in Streams, AbortFinally(s) PROVE TypeOK'
    BY <1>17 DEF AbortFinally, OnlyStream, Finalizing, TypeOK, RowInv, Outcomes, Finalizing,
           Cancelling
<1>18. ASSUME NEW s \in Streams, SaveRead(s) PROVE TypeOK'
  <2>1. src[s] \in RunIds
      BY <1>18 DEF SaveRead, RowInv
  <2>2. CASE snap[src[s]] = "absent"
      BY <1>18, <2>2 DEF SaveRead, FinallyOnly, TypeOK, Finalizing
  <2>3. CASE snap[src[s]] # "absent"
    <3>1. /\ read' \in [Streams -> Outcomes \cup {"unread", "running", "cancelled", "idle"}]
          /\ pc' \in [Streams -> {"off", "reading", "over"} \cup Finalizing]
        BY <1>18, <2>1, <2>3 DEF SaveRead, TypeOK, Outcomes, Finalizing
    <3> QED BY <1>18, <2>3, <3>1 DEF SaveRead, FinallyOnly, TypeOK
  <2> QED BY <2>2, <2>3
<1>19. ASSUME NEW s \in Streams, SaveWrite(s) PROVE TypeOK'
    BY <1>19 DEF SaveWrite, TerminalStatus, FinallyOnly, TypeOK, RowInv, Outcomes, Finalizing,
           Cancelling
<1>20. ASSUME NEW s \in Streams, MarkRead(s) PROVE TypeOK'
  <2>1. CASE thread = "deleted"
      BY <1>20, <2>1 DEF MarkRead, FinallyOnly, TypeOK, Finalizing
  <2>2. CASE thread # "deleted"
    <3>1. /\ read' \in [Streams -> Outcomes \cup {"unread", "running", "cancelled", "idle"}]
          /\ pc' \in [Streams -> {"off", "reading", "over"} \cup Finalizing]
        BY <1>20, <2>2 DEF MarkRead, TypeOK, Outcomes, Finalizing
    <3> QED BY <1>20, <2>2, <3>1 DEF MarkRead, FinallyOnly, TypeOK
  <2> QED BY <2>1, <2>2
<1>21. ASSUME NEW s \in Streams, MarkWrite(s) PROVE TypeOK'
    BY <1>21 DEF MarkWrite, SetThread, ThreadStatus, FinallyOnly, TypeOK, RowInv, Outcomes,
           Finalizing, Cancelling
<1>22. ASSUME NEW s \in Streams, NEW r \in RunIds, Connect(s, r) PROVE TypeOK'
  <2>1. /\ src' \in [Streams -> RunIds \cup {None}]
        /\ pc' \in [Streams -> {"off", "reading", "over"} \cup Finalizing]
        /\ how' \in [Streams -> {"open", "sentinel", "nohandle", "error", "gone"}]
      BY <1>22 DEF Connect, TypeOK, Finalizing
  <2> QED BY <1>22, <2>1 DEF Connect, OnlyStream, TypeOK
<1>23. CASE DeleteThread
    BY <1>23 DEF DeleteThread, TypeOK, RowInv, Outcomes, Finalizing, Cancelling
<1>24. CASE Crash
    BY <1>24 DEF Crash, TypeOK, RowInv, Outcomes, Finalizing, Cancelling
<1>25. CASE UNCHANGED vars
    BY <1>25 DEF vars, TypeOK, RowInv, Outcomes, Finalizing, Cancelling
<1> QED BY <1>1, <1>2, <1>3, <1>4, <1>5, <1>6, <1>7, <1>8, <1>9, <1>10, <1>11, <1>12, <1>13,
           <1>14, <1>15, <1>16, <1>17, <1>18, <1>19, <1>20, <1>21, <1>22, <1>23, <1>24,
           <1>25 DEF Next, RequestStep, FinallyStep

(* A row says what became of its task.                                     *)
LEMMA RowStep == RInv /\ [Next]_vars => RowInv'
<1> SUFFICES ASSUME RInv, [Next]_vars PROVE RowInv'
    OBVIOUS
<1> USE DEF reqVars, runnerVars, streamVars, RInv
<1>1. ASSUME NEW r \in RunIds, CreateStart(r) PROVE RowInv'
    BY <1>1 DEF CreateStart, NextRun, TypeOK, RowInv, Finalizing, Outcomes
<1>2. ASSUME NEW r \in RunIds, CreateLoad(r) PROVE RowInv'
    BY <1>2 DEF CreateLoad, TypeOK, RowInv, Finalizing, Outcomes
<1>3. ASSUME NEW r \in RunIds, CreateCommit(r) PROVE RowInv'
    BY <1>3 DEF CreateCommit, SetThread, TypeOK, RowInv, Finalizing, Outcomes
<1>4. ASSUME NEW r \in RunIds, ResumeLoad(r) PROVE RowInv'
    BY <1>4 DEF ResumeLoad, NextRun, TypeOK, RowInv, Finalizing, Outcomes
<1>5. ASSUME NEW r \in RunIds, ResumeCommit(r) PROVE RowInv'
    BY <1>5 DEF ResumeCommit, SetThread, TypeOK, RowInv, Finalizing, Outcomes
<1>6. ASSUME NEW r \in RunIds, ResumeStart(r) PROVE RowInv'
    BY <1>6 DEF ResumeStart, TypeOK, RowInv, Finalizing, Outcomes
<1>7. ASSUME NEW r \in RunIds, CancelRead(r) PROVE RowInv'
    BY <1>7 DEF CancelRead, TypeOK, RowInv, Finalizing, Outcomes
<1>8. ASSUME NEW r \in RunIds, CancelFlush(r) PROVE RowInv'
    BY <1>8 DEF CancelFlush, TypeOK, RowInv, Finalizing, Outcomes
<1>9. ASSUME NEW r \in RunIds, CancelStop(r) PROVE RowInv'
    BY <1>9 DEF CancelStop, TypeOK, RowInv, Finalizing, Outcomes
<1>10. ASSUME NEW r \in RunIds, CancelCommit(r) PROVE RowInv'
    BY <1>10 DEF CancelCommit, SetThread, TypeOK, RowInv, Finalizing, Outcomes
<1>11. ASSUME NEW r \in RunIds, TaskEnd(r) PROVE RowInv'
    BY <1>11 DEF TaskEnd, TypeOK, RowInv, Finalizing, Outcomes
<1>12. ASSUME NEW r \in RunIds, OrphanFetch(r) PROVE RowInv'
    BY <1>12 DEF OrphanFetch, OnlyStream, TypeOK, RowInv, Finalizing, Outcomes
<1>13. ASSUME NEW s \in Streams, SeeLast(s) PROVE RowInv'
    BY <1>13 DEF SeeLast, OnlyStream, TypeOK, RowInv, Finalizing, Outcomes
<1>14. ASSUME NEW s \in Streams, SeeSentinel(s) PROVE RowInv'
    BY <1>14 DEF SeeSentinel, OnlyStream, TypeOK, RowInv, Finalizing, Outcomes
<1>15. ASSUME NEW s \in Streams, StreamError(s) PROVE RowInv'
    BY <1>15 DEF StreamError, OnlyStream, TypeOK, RowInv, Finalizing, Outcomes
<1>16. ASSUME NEW s \in Streams, Disconnect(s) PROVE RowInv'
    BY <1>16 DEF Disconnect, OnlyStream, TypeOK, RowInv, Finalizing, Outcomes
<1>17. ASSUME NEW s \in Streams, AbortFinally(s) PROVE RowInv'
    BY <1>17 DEF AbortFinally, OnlyStream, Finalizing, TypeOK, RowInv, Finalizing, Outcomes
<1>18. ASSUME NEW s \in Streams, SaveRead(s) PROVE RowInv'
    BY <1>18 DEF SaveRead, FinallyOnly, TypeOK, RowInv, Finalizing, Outcomes
<1>19. ASSUME NEW s \in Streams, SaveWrite(s) PROVE RowInv'
    BY <1>19 DEF SaveWrite, TerminalStatus, FinallyOnly, TypeOK, RowInv, Finalizing, Outcomes
<1>20. ASSUME NEW s \in Streams, MarkRead(s) PROVE RowInv'
    BY <1>20 DEF MarkRead, FinallyOnly, TypeOK, RowInv, Finalizing, Outcomes
<1>21. ASSUME NEW s \in Streams, MarkWrite(s) PROVE RowInv'
    BY <1>21 DEF MarkWrite, SetThread, ThreadStatus, FinallyOnly, TypeOK, RowInv, Finalizing,
           Outcomes
<1>22. ASSUME NEW s \in Streams, NEW r \in RunIds, Connect(s, r) PROVE RowInv'
    BY <1>22 DEF Connect, OnlyStream, TypeOK, RowInv, Finalizing, Outcomes
<1>23. CASE DeleteThread
    BY <1>23 DEF DeleteThread, TypeOK, RowInv, Finalizing, Outcomes
<1>24. CASE Crash
    BY <1>24 DEF Crash, TypeOK, RowInv, Finalizing, Outcomes
<1>25. CASE UNCHANGED vars
    BY <1>25 DEF vars, TypeOK, RowInv, Finalizing, Outcomes
<1> QED BY <1>1, <1>2, <1>3, <1>4, <1>5, <1>6, <1>7, <1>8, <1>9, <1>10, <1>11, <1>12, <1>13,
           <1>14, <1>15, <1>16, <1>17, <1>18, <1>19, <1>20, <1>21, <1>22, <1>23, <1>24,
           <1>25 DEF Next, RequestStep, FinallyStep

(* A thread starts with no rows, no tasks and no streams.                  *)
LEMMA InitRInv == Init => RInv
BY DEF Init, RInv, TypeOK, RowInv

(* The inductive invariant of the rows, tasks and streams of a thread      *)
(* (backend/api/routers/agent.py).                                         *)
THEOREM RowInvariance == Spec => []RInv
<1>1. RInv /\ [Next]_vars => RInv'
    BY TypeStep, RowStep DEF RInv
<1> QED BY InitRInv, <1>1, PTL DEF Spec

(* Whatever creates, resumes, cancels, streams and restarts do, a row says *)
(* "interrupted" only of a run that stopped in an interrupt                *)
(* (_determine_terminal_status, get_thread_messages of agent.py).          *)
THEOREM InterruptsAreTrue == Spec => []InterruptedRowIsTrue
<1>1. RInv => InterruptedRowIsTrue
    BY DEF RInv, RowInv, InterruptedRowIsTrue
<1> QED BY RowInvariance, <1>1, PTL

(* What a step does to the row of a run that was cancelled or has failed.  *)
Kept(r) == snap[r] \in {"cancelled", "failed"} /\ ~Stale(r) =>
              snap'[r] \in {snap[r], "cancelled", "absent"}

LEMMA KeptStep == RInv /\ [Next]_vars => \A q \in RunIds : Kept(q)
<1> SUFFICES ASSUME RInv, [Next]_vars PROVE \A q \in RunIds : Kept(q)
    OBVIOUS
<1> USE DEF reqVars, runnerVars, streamVars, RInv
<1>1. ASSUME NEW r \in RunIds, CreateStart(r) PROVE \A q \in RunIds : Kept(q)
    BY <1>1 DEF CreateStart, NextRun, TypeOK, RowInv, Kept, Stale, Finalizing, Outcomes
<1>2. ASSUME NEW r \in RunIds, CreateLoad(r) PROVE \A q \in RunIds : Kept(q)
    BY <1>2 DEF CreateLoad, TypeOK, RowInv, Kept, Stale, Finalizing, Outcomes
<1>3. ASSUME NEW r \in RunIds, CreateCommit(r) PROVE \A q \in RunIds : Kept(q)
    BY <1>3 DEF CreateCommit, SetThread, TypeOK, RowInv, Kept, Stale, Finalizing, Outcomes
<1>4. ASSUME NEW r \in RunIds, ResumeLoad(r) PROVE \A q \in RunIds : Kept(q)
    BY <1>4 DEF ResumeLoad, NextRun, TypeOK, RowInv, Kept, Stale, Finalizing, Outcomes
<1>5. ASSUME NEW r \in RunIds, ResumeCommit(r) PROVE \A q \in RunIds : Kept(q)
    BY <1>5 DEF ResumeCommit, SetThread, TypeOK, RowInv, Kept, Stale, Finalizing, Outcomes
<1>6. ASSUME NEW r \in RunIds, ResumeStart(r) PROVE \A q \in RunIds : Kept(q)
    BY <1>6 DEF ResumeStart, TypeOK, RowInv, Kept, Stale, Finalizing, Outcomes
<1>7. ASSUME NEW r \in RunIds, CancelRead(r) PROVE \A q \in RunIds : Kept(q)
    BY <1>7 DEF CancelRead, TypeOK, RowInv, Kept, Stale, Finalizing, Outcomes
<1>8. ASSUME NEW r \in RunIds, CancelFlush(r) PROVE \A q \in RunIds : Kept(q)
    BY <1>8 DEF CancelFlush, TypeOK, RowInv, Kept, Stale, Finalizing, Outcomes
<1>9. ASSUME NEW r \in RunIds, CancelStop(r) PROVE \A q \in RunIds : Kept(q)
    BY <1>9 DEF CancelStop, TypeOK, RowInv, Kept, Stale, Finalizing, Outcomes
<1>10. ASSUME NEW r \in RunIds, CancelCommit(r) PROVE \A q \in RunIds : Kept(q)
    BY <1>10 DEF CancelCommit, SetThread, TypeOK, RowInv, Kept, Stale, Finalizing, Outcomes
<1>11. ASSUME NEW r \in RunIds, TaskEnd(r) PROVE \A q \in RunIds : Kept(q)
    BY <1>11 DEF TaskEnd, TypeOK, RowInv, Kept, Stale, Finalizing, Outcomes
<1>12. ASSUME NEW r \in RunIds, OrphanFetch(r) PROVE \A q \in RunIds : Kept(q)
    BY <1>12 DEF OrphanFetch, OnlyStream, TypeOK, RowInv, Kept, Stale, Finalizing, Outcomes
<1>13. ASSUME NEW s \in Streams, SeeLast(s) PROVE \A q \in RunIds : Kept(q)
    BY <1>13 DEF SeeLast, OnlyStream, TypeOK, RowInv, Kept, Stale, Finalizing, Outcomes
<1>14. ASSUME NEW s \in Streams, SeeSentinel(s) PROVE \A q \in RunIds : Kept(q)
    BY <1>14 DEF SeeSentinel, OnlyStream, TypeOK, RowInv, Kept, Stale, Finalizing, Outcomes
<1>15. ASSUME NEW s \in Streams, StreamError(s) PROVE \A q \in RunIds : Kept(q)
    BY <1>15 DEF StreamError, OnlyStream, TypeOK, RowInv, Kept, Stale, Finalizing, Outcomes
<1>16. ASSUME NEW s \in Streams, Disconnect(s) PROVE \A q \in RunIds : Kept(q)
    BY <1>16 DEF Disconnect, OnlyStream, TypeOK, RowInv, Kept, Stale, Finalizing, Outcomes
<1>17. ASSUME NEW s \in Streams, AbortFinally(s) PROVE \A q \in RunIds : Kept(q)
    BY <1>17 DEF AbortFinally, OnlyStream, Finalizing, TypeOK, RowInv, Kept, Stale,
           Finalizing, Outcomes
<1>18. ASSUME NEW s \in Streams, SaveRead(s) PROVE \A q \in RunIds : Kept(q)
    BY <1>18 DEF SaveRead, FinallyOnly, TypeOK, RowInv, Kept, Stale, Finalizing, Outcomes
<1>19. ASSUME NEW s \in Streams, SaveWrite(s) PROVE \A q \in RunIds : Kept(q)
    BY <1>19 DEF SaveWrite, TerminalStatus, FinallyOnly, TypeOK, RowInv, Kept, Stale,
           Finalizing, Outcomes
<1>20. ASSUME NEW s \in Streams, MarkRead(s) PROVE \A q \in RunIds : Kept(q)
    BY <1>20 DEF MarkRead, FinallyOnly, TypeOK, RowInv, Kept, Stale, Finalizing, Outcomes
<1>21. ASSUME NEW s \in Streams, MarkWrite(s) PROVE \A q \in RunIds : Kept(q)
    BY <1>21 DEF MarkWrite, SetThread, ThreadStatus, FinallyOnly, TypeOK, RowInv, Kept, Stale,
           Finalizing, Outcomes
<1>22. ASSUME NEW s \in Streams, NEW r \in RunIds, Connect(s, r) PROVE \A q \in RunIds : Kept(q)
    BY <1>22 DEF Connect, OnlyStream, TypeOK, RowInv, Kept, Stale, Finalizing, Outcomes
<1>23. CASE DeleteThread
    BY <1>23 DEF DeleteThread, TypeOK, RowInv, Kept, Stale, Finalizing, Outcomes
<1>24. CASE Crash
    BY <1>24 DEF Crash, TypeOK, RowInv, Kept, Stale, Finalizing, Outcomes
<1>25. CASE UNCHANGED vars
    BY <1>25 DEF vars, TypeOK, RowInv, Kept, Stale, Finalizing, Outcomes
<1> QED BY <1>1, <1>2, <1>3, <1>4, <1>5, <1>6, <1>7, <1>8, <1>9, <1>10, <1>11, <1>12, <1>13,
           <1>14, <1>15, <1>16, <1>17, <1>18, <1>19, <1>20, <1>21, <1>22, <1>23, <1>24,
           <1>25 DEF Next, RequestStep, FinallyStep

(* A cancelled or failed run loses its status only to a finally clause     *)
(* that had read the row before (event_generator, between its read and its *)
(* commit).                                                                *)
THEOREM OnlyRacesClobber == Spec => OnlyStaleReadClobbers
<1>1. RInv /\ [Next]_vars =>
        \A r \in RunIds : snap[r] \in {"cancelled", "failed"} /\ ~Stale(r) =>
           snap'[r] \in {snap[r], "cancelled", "absent"}
    BY KeptStep DEF Kept
<1> QED BY RowInvariance, <1>1, PTL DEF Spec, OnlyStaleReadClobbers

-----------------------------------------------------------------------------
(* The thread's row.                                                       *)

(* A stream is opened on a run whose request is over, once.                *)
LEMMA OriginStep == RInv /\ OriginInv /\ [Next]_vars => OriginInv'
<1> SUFFICES ASSUME RInv, OriginInv, [Next]_vars PROVE OriginInv'
    OBVIOUS
<1> USE DEF OriginInv, TypeOK, None, reqVars, runnerVars, streamVars, RInv
<1>1. ASSUME NEW r \in RunIds, CreateStart(r) PROVE OriginInv'
    BY <1>1 DEF CreateStart, NextRun
<1>2. ASSUME NEW r \in RunIds, CreateLoad(r) PROVE OriginInv'
    BY <1>2 DEF CreateLoad
<1>3. ASSUME NEW r \in RunIds, CreateCommit(r) PROVE OriginInv'
    BY <1>3 DEF CreateCommit, SetThread
<1>4. ASSUME NEW r \in RunIds, ResumeLoad(r) PROVE OriginInv'
    BY <1>4 DEF ResumeLoad, NextRun
<1>5. ASSUME NEW r \in RunIds, ResumeCommit(r) PROVE OriginInv'
    BY <1>5 DEF ResumeCommit, SetThread
<1>6. ASSUME NEW r \in RunIds, ResumeStart(r) PROVE OriginInv'
    BY <1>6 DEF ResumeStart
<1>7. ASSUME NEW r \in RunIds, CancelRead(r) PROVE OriginInv'
    BY <1>7 DEF CancelRead
<1>8. ASSUME NEW r \in RunIds, CancelFlush(r) PROVE OriginInv'
    BY <1>8 DEF CancelFlush
<1>9. ASSUME NEW r \in RunIds, CancelStop(r) PROVE OriginInv'
    BY <1>9 DEF CancelStop
<1>10. ASSUME NEW r \in RunIds, CancelCommit(r) PROVE OriginInv'
    BY <1>10 DEF CancelCommit, SetThread
<1>11. ASSUME NEW r \in RunIds, TaskEnd(r) PROVE OriginInv'
    BY <1>11 DEF TaskEnd
<1>12. ASSUME NEW r \in RunIds, OrphanFetch(r) PROVE OriginInv'
    BY <1>12 DEF OrphanFetch, OnlyStream
<1>13. ASSUME NEW s \in Streams, SeeLast(s) PROVE OriginInv'
    BY <1>13 DEF SeeLast, OnlyStream
<1>14. ASSUME NEW s \in Streams, SeeSentinel(s) PROVE OriginInv'
    BY <1>14 DEF SeeSentinel, OnlyStream
<1>15. ASSUME NEW s \in Streams, StreamError(s) PROVE OriginInv'
    BY <1>15 DEF StreamError, OnlyStream
<1>16. ASSUME NEW s \in Streams, Disconnect(s) PROVE OriginInv'
    BY <1>16 DEF Disconnect, OnlyStream
<1>17. ASSUME NEW s \in Streams, AbortFinally(s) PROVE OriginInv'
    BY <1>17 DEF AbortFinally, OnlyStream, Finalizing
<1>18. ASSUME NEW s \in Streams, SaveRead(s) PROVE OriginInv'
    BY <1>18 DEF SaveRead, FinallyOnly
<1>19. ASSUME NEW s \in Streams, SaveWrite(s) PROVE OriginInv'
    BY <1>19 DEF SaveWrite, FinallyOnly
<1>20. ASSUME NEW s \in Streams, MarkRead(s) PROVE OriginInv'
    BY <1>20 DEF MarkRead, FinallyOnly
<1>21. ASSUME NEW s \in Streams, MarkWrite(s) PROVE OriginInv'
    BY <1>21 DEF MarkWrite, SetThread, ThreadStatus, FinallyOnly
<1>22. ASSUME NEW s \in Streams, NEW r \in RunIds, Connect(s, r) PROVE OriginInv'
  <2>1. r # None
      BY DEF RunIds
  <2>2. /\ src'[s] = r /\ request[r] = "open" /\ request' = request /\ pc[s] = "off"
        /\ pc'[s] \in {"reading", "save"} /\ (pc'[s] = "reading" => how'[s] = how[s])
        /\ \A t \in Streams \ {s} : UNCHANGED <<src[t], pc[t], how[t]>>
      BY <1>22 DEF Connect, OnlyStream
  <2> QED BY <2>1, <2>2
<1>23. CASE DeleteThread
    BY <1>23 DEF DeleteThread
<1>24. CASE Crash
    BY <1>24 DEF Crash
<1>25. CASE UNCHANGED vars
    BY <1>25 DEF vars
<1> QED BY <1>1, <1>2, <1>3, <1>4, <1>5, <1>6, <1>7, <1>8, <1>9, <1>10, <1>11, <1>12, <1>13,
           <1>14, <1>15, <1>16, <1>17, <1>18, <1>19, <1>20, <1>21, <1>22, <1>23, <1>24,
           <1>25 DEF Next, RequestStep, FinallyStep

(* The witness of RunningInv stays one as long as its streams answer.      *)
LEMMA RunningFrame ==
    ASSUME RunningInv, thread' = "running" => thread = "running",
           \A r \in RunIds : request[r] \in {"committed", "open"} => request'[r] \in {"committed", "open"},
           thread' = "running" =>
              \A s \in Streams : Answering(s)' \/ (src'[s] = src[s] /\ ~Answering(s))
    PROVE  RunningInv'
BY DEF RunningInv

(* Steps that leave the thread's row, the requests and the streams alone.  *)
LEMMA RunningSame ==
    ASSUME RunningInv, UNCHANGED <<thread, src, pc, how, read>>,
           \A r \in RunIds : request[r] \in {"committed", "open"} => request'[r] \in {"committed", "open"}
    PROVE  RunningInv'
BY RunningFrame DEF Answering, Settled

(* A run that makes the thread "running" has no stream yet.                *)
LEMMA RunningCommit ==
    ASSUME OriginInv, NEW r \in RunIds, request[r] # "open", request'[r] \in {"committed", "open"},
           src' = src
    PROVE  RunningInv'
BY DEF RunningInv, OriginInv

(* A step of a stream: the status of the thread that it writes is not      *)
(* "running", and what it reads is what the thread is.                     *)
LEMMA RunningStep == RInv /\ OriginInv /\ RunningInv /\ [Next]_vars => RunningInv'
<1> SUFFICES ASSUME RInv, OriginInv, RunningInv, [Next]_vars PROVE RunningInv'
    OBVIOUS
<1> USE DEF TypeOK, reqVars, runnerVars, streamVars, RInv
<1>1. ASSUME NEW r \in RunIds,
             \/ CreateStart(r) \/ CreateLoad(r) \/ ResumeLoad(r) \/ ResumeStart(r) \/ CancelRead(r)
             \/ CancelFlush(r) \/ CancelStop(r) \/ TaskEnd(r)
      PROVE  RunningInv'
    BY <1>1, RunningSame DEF CreateStart, CreateLoad, ResumeLoad, ResumeStart, CancelRead,
                             CancelFlush, CancelStop, TaskEnd, NextRun
<1>2. ASSUME NEW r \in RunIds, CreateCommit(r) \/ ResumeCommit(r) PROVE RunningInv'
    BY <1>2, RunningCommit DEF CreateCommit, ResumeCommit
<1>3. ASSUME NEW r \in RunIds, CancelCommit(r) PROVE RunningInv'
  <2>1. thread' = "running" => thread = "running"
      BY <1>3 DEF CancelCommit, SetThread
  <2> QED BY <1>3, <2>1, RunningFrame DEF CancelCommit, Answering, Settled
<1>4. ASSUME NEW r \in RunIds, OrphanFetch(r) PROVE RunningInv'
    BY <1>4, RunningSame DEF OrphanFetch, OnlyStream
<1>5. ASSUME NEW s \in Streams, SeeLast(s) PROVE RunningInv'
    BY <1>5, RunningSame DEF SeeLast, OnlyStream
<1>6. ASSUME NEW s \in Streams, UNCHANGED <<request, src>>, Answering(s)',
             thread' = "running" => thread = "running",
             \A t \in Streams \ {s} : UNCHANGED <<pc[t], how[t], read[t]>>
      PROVE  RunningInv'
    BY <1>6, RunningFrame DEF Answering, Settled
<1>7. ASSUME NEW s \in Streams, SeeSentinel(s) \/ StreamError(s) PROVE RunningInv'
    BY <1>6, <1>7 DEF SeeSentinel, StreamError, OnlyStream, Answering, Settled
<1>8. ASSUME NEW s \in Streams, Disconnect(s) \/ AbortFinally(s) PROVE RunningInv'
    BY <1>6, <1>8 DEF Disconnect, AbortFinally, OnlyStream, Answering, Settled
<1>9. ASSUME NEW s \in Streams, SaveRead(s) \/ SaveWrite(s) PROVE RunningInv'
    BY <1>6, <1>9 DEF SaveRead, SaveWrite, FinallyOnly, Answering, Settled
<1>10. ASSUME NEW s \in Streams, MarkRead(s) PROVE RunningInv'
  <2>1. CASE thread = "deleted"
      BY <1>10, <2>1 DEF MarkRead, RunningInv
  <2>2. CASE thread = "running"
      BY <1>6, <1>10, <2>2 DEF MarkRead, FinallyOnly, Answering, Settled
  <2> QED BY <1>10, <2>1, <2>2 DEF MarkRead, RunningInv
<1>11. ASSUME NEW s \in Streams, MarkWrite(s) PROVE RunningInv'
  <2>1. thread' = "running" => thread = "running" /\ read[s] # "running"
      BY <1>11 DEF MarkWrite, SetThread, ThreadStatus
  <2>2. read[s] # "running" => ~Answering(s)
      BY <1>11 DEF MarkWrite, Answering
  <2>3. UNCHANGED <<request, src>> /\ \A t \in Streams \ {s} : Answering(t)' <=> Answering(t)
      BY <1>11 DEF MarkWrite, FinallyOnly, Answering, Settled
  <2> QED BY <2>1, <2>2, <2>3, RunningFrame
<1>12. ASSUME NEW s \in Streams, NEW r \in RunIds, Connect(s, r) PROVE RunningInv'
  <2>1. Answering(s)' /\ \A t \in Streams \ {s} : src'[t] = src[t] /\ (Answering(t)' <=> Answering(t))
      BY <1>12 DEF Connect, OnlyStream, Answering, Settled
  <2> QED BY <1>12, <2>1, RunningFrame DEF Connect, OnlyStream
<1>13. CASE DeleteThread
    BY <1>13 DEF DeleteThread, RunningInv
<1>14. CASE Crash
  <2>1. \A s \in Streams : Answering(s)' \/ ~Answering(s)
      BY <1>14 DEF Crash, Answering, Settled
  <2>2. /\ thread' = thread /\ src' = src
        /\ \A r \in RunIds : request[r] \in {"committed", "open"} => request'[r] \in {"committed", "open"}
      BY <1>14 DEF Crash
  <2> QED BY <2>1, <2>2, RunningFrame
<1>15. CASE UNCHANGED vars
    BY <1>15, RunningSame DEF vars
<1> QED BY <1>1, <1>2, <1>3, <1>4, <1>5, <1>7, <1>8, <1>9, <1>10, <1>11, <1>12, <1>13, <1>14,
           <1>15 DEF Next, RequestStep, FinallyStep
-----------------------------------------------------------------------------
(* The queue of a run and its only reader.                                 *)

(* An abandoned get is one of a stream that is gone, and a run without a   *)
(* stream has everything in its queue.                                     *)
LEMMA QueueStep == RInv /\ OriginInv /\ QueueInv /\ [Next]_vars => QueueInv'
<1> SUFFICES ASSUME RInv, OriginInv, QueueInv, [Next]_vars PROVE QueueInv'
    OBVIOUS
<1> USE DEF TypeOK, reqVars, runnerVars, streamVars, RInv
<1>1. ASSUME NEW r \in RunIds, CreateStart(r) PROVE QueueInv'
    BY <1>1 DEF CreateStart, NextRun, RowInv, QueueInv, Unread, Word
<1>2. ASSUME NEW r \in RunIds, CreateLoad(r) PROVE QueueInv'
    BY <1>2 DEF CreateLoad, QueueInv, Unread, Word
<1>3. ASSUME NEW r \in RunIds, CreateCommit(r) PROVE QueueInv'
    BY <1>3 DEF CreateCommit, QueueInv, Unread, Word
<1>4. ASSUME NEW r \in RunIds, ResumeLoad(r) PROVE QueueInv'
    BY <1>4 DEF ResumeLoad, QueueInv, Unread, Word
<1>5. ASSUME NEW r \in RunIds, ResumeCommit(r) PROVE QueueInv'
    BY <1>5 DEF ResumeCommit, QueueInv, Unread, Word
<1>6. ASSUME NEW r \in RunIds, ResumeStart(r) PROVE QueueInv'
    BY <1>6 DEF ResumeStart, RowInv, QueueInv, Unread, Word
<1>7. ASSUME NEW r \in RunIds, CancelRead(r) PROVE QueueInv'
    BY <1>7 DEF CancelRead, QueueInv, Unread, Word
<1>8. ASSUME NEW r \in RunIds, CancelFlush(r) PROVE QueueInv'
    BY <1>8 DEF CancelFlush, QueueInv, Unread, Word
<1>9. ASSUME NEW r \in RunIds, CancelStop(r) PROVE QueueInv'
    BY <1>9 DEF CancelStop, QueueInv, Unread, Word
<1>10. ASSUME NEW r \in RunIds, CancelCommit(r) PROVE QueueInv'
    BY <1>10 DEF CancelCommit, QueueInv, Unread, Word
<1>11. ASSUME NEW r \in RunIds, TaskEnd(r) PROVE QueueInv'
    BY <1>11 DEF TaskEnd, Outcomes, QueueInv, Unread, Word
<1>12. ASSUME NEW r \in RunIds, OrphanFetch(r) PROVE QueueInv'
    BY <1>12 DEF OrphanFetch, OnlyStream, QueueInv, Unread, Word
<1>13. ASSUME NEW s \in Streams, SeeLast(s) PROVE QueueInv'
  <2>1. /\ src[s] \in RunIds /\ last' = [last EXCEPT ![src[s]] = "none"]
        /\ UNCHANGED <<task, handles, sentinel, orphans, src, how, snap, canc>>
      BY <1>13 DEF SeeLast, OnlyStream, RowInv
  <2>2. \A q \in RunIds : /\ Unread(q)' <=> Unread(q)
                          /\ Unread(q) => q # src[s]
                          /\ last'[q] = "none" \/ last'[q] = last[q]
                          /\ q # src[s] => last'[q] = last[q]
      BY <2>1, <1>13 DEF Unread
  <2>3. ASSUME NEW q \in RunIds, Unread(q)', q \in handles' PROVE last'[q] = Word(task'[q])
      BY <2>1, <2>2, <2>3 DEF QueueInv, Word
  <2>4. \A q \in RunIds : task'[q] \in {"none", "running", "killed"} => last'[q] = "none" /\ ~sentinel'[q]
      BY <2>1, <2>2 DEF QueueInv
  <2>5. \A q \in RunIds : orphans'[q] > 0 => \E t \in Streams : src'[t] = q /\ how'[t] = "gone"
      BY <2>1 DEF QueueInv
  <2>6. \A q \in RunIds : Unread(q)' /\ canc'[q] # "done" => snap'[q] \in {"running", "absent"}
      BY <2>1, <2>2 DEF QueueInv
  <2> QED BY <2>3, <2>4, <2>5, <2>6 DEF QueueInv
<1>14. ASSUME NEW s \in Streams, SeeSentinel(s) PROVE QueueInv'
  <2>1. /\ src[s] \in RunIds /\ sentinel' = [sentinel EXCEPT ![src[s]] = FALSE]
        /\ pc[s] = "reading" /\ handles' = handles \ {src[s]} /\ how' = [how EXCEPT ![s] = "sentinel"]
        /\ UNCHANGED <<task, last, orphans, src, snap, canc>>
      BY <1>14 DEF SeeSentinel, OnlyStream, RowInv
  <2>2. how[s] = "open"
      BY <2>1 DEF OriginInv
  <2>3. \A q \in RunIds : task'[q] \in {"none", "running", "killed"} => last'[q] = "none" /\ ~sentinel'[q]
      BY <2>1 DEF QueueInv
  <2>4. \A q \in RunIds : orphans'[q] > 0 => \E t \in Streams : src'[t] = q /\ how'[t] = "gone"
      BY <2>1, <2>2 DEF QueueInv
  <2>5. \A q \in RunIds : (Unread(q)' <=> Unread(q)) /\ (q \in handles' => q \in handles)
      BY <2>1 DEF Unread
  <2> QED BY <2>1, <2>3, <2>4, <2>5 DEF QueueInv, Word
<1>15. ASSUME NEW s \in Streams, StreamError(s) PROVE QueueInv'
    BY <1>15 DEF StreamError, OnlyStream, OriginInv, QueueInv, Unread, Word
<1>16. ASSUME NEW s \in Streams, Disconnect(s) PROVE QueueInv'
    BY <1>16 DEF Disconnect, OnlyStream, OriginInv, RowInv, QueueInv, Unread, Word
<1>17. ASSUME NEW s \in Streams, AbortFinally(s) PROVE QueueInv'
    BY <1>17 DEF AbortFinally, OnlyStream, OriginInv, QueueInv, Unread, Word
<1>18. ASSUME NEW s \in Streams, SaveRead(s) PROVE QueueInv'
    BY <1>18 DEF SaveRead, FinallyOnly, QueueInv, Unread, Word
<1>19. ASSUME NEW s \in Streams, SaveWrite(s) PROVE QueueInv'
    BY <1>19 DEF SaveWrite, FinallyOnly, QueueInv, Unread, Word
<1>20. ASSUME NEW s \in Streams, MarkRead(s) PROVE QueueInv'
    BY <1>20 DEF MarkRead, FinallyOnly, QueueInv, Unread, Word
<1>21. ASSUME NEW s \in Streams, MarkWrite(s) PROVE QueueInv'
    BY <1>21 DEF MarkWrite, FinallyOnly, QueueInv, Unread, Word
<1>22. ASSUME NEW s \in Streams, NEW r \in RunIds, Connect(s, r) PROVE QueueInv'
  <2>1. /\ src[s] = None /\ how[s] = "open" /\ UNCHANGED <<runnerVars, snap, canc>>
        /\ \A t \in Streams \ {s} : UNCHANGED <<src[t], how[t]>>
      BY <1>22 DEF Connect, OnlyStream, OriginInv
  <2>2. \A q \in RunIds : q # None
      BY DEF RunIds, None
  <2>3. \A q \in RunIds : orphans'[q] > 0 => \E t \in Streams : src'[t] = q /\ how'[t] = "gone"
      BY <2>1, <2>2 DEF QueueInv
  <2>4. \A q \in RunIds : Unread(q)' => Unread(q)
      BY <2>1, <2>2 DEF Unread
  <2> QED BY <2>1, <2>3, <2>4 DEF QueueInv
<1>23. CASE DeleteThread
    BY <1>23 DEF DeleteThread, QueueInv, Unread, Word
<1>24. CASE Crash
    BY <1>24 DEF Crash, Cancelling, QueueInv, Unread, Word
<1>25. CASE UNCHANGED vars
    BY <1>25 DEF vars, QueueInv, Unread, Word
<1> QED BY <1>1, <1>2, <1>3, <1>4, <1>5, <1>6, <1>7, <1>8, <1>9, <1>10, <1>11, <1>12, <1>13,
           <1>14, <1>15, <1>16, <1>17, <1>18, <1>19, <1>20, <1>21, <1>22, <1>23, <1>24,
           <1>25 DEF Next, RequestStep, FinallyStep

(* Nothing that a stream's record speaks of changes.                       *)
LEMMA RecordedFrame ==
    ASSUME NEW s, NEW r, Recorded(s, r), canc[r] = "done" => canc'[r] = "done",
           UNCHANGED <<pc[s], how[s], seen[s], read[s], last[r], task[r], snap[r]>>
    PROVE  Recorded(s, r)'
BY DEF Recorded

(* The last item of a run is not lost to its only stream, and the finally  *)
(* clause of that stream writes what the item says.                        *)
LEMMA SoleStep ==
    ASSUME RInv, OriginInv, OriginInv', QueueInv, SoleInv, [Next]_vars PROVE SoleInv'
<1> SUFFICES ASSUME NEW s \in Streams, NEW r \in RunIds, src'[s] = r, Sole(s)'
             PROVE  Recorded(s, r)'
    BY DEF SoleInv
<1> USE DEF TypeOK, reqVars, runnerVars, streamVars, RInv
<1>0. /\ src[s] = r
      /\ \A t \in Streams : src[t] = r => t = s
      => /\ Recorded(s, r) /\ request[r] = "open" /\ pc[s] # "off"
         /\ pc[s] = "reading" => how[s] = "open"
  <2>1. r # None
      BY DEF RunIds, None
  <2> QED BY <2>1 DEF SoleInv, OriginInv, Sole
<1>x. src' = src => /\ src[s] = r
                    /\ \A t \in Streams : src[t] = r => t = s
    BY DEF Sole
<1>1. ASSUME NEW q \in RunIds, CreateStart(q) PROVE Recorded(s, r)'
    BY <1>0, <1>x, <1>1, RecordedFrame DEF CreateStart, NextRun
<1>2. ASSUME NEW q \in RunIds, CreateLoad(q) PROVE Recorded(s, r)'
    BY <1>0, <1>x, <1>2, RecordedFrame DEF CreateLoad
<1>3. ASSUME NEW q \in RunIds, CreateCommit(q) PROVE Recorded(s, r)'
    BY <1>0, <1>x, <1>3, RecordedFrame DEF CreateCommit
<1>4. ASSUME NEW q \in RunIds, ResumeLoad(q) PROVE Recorded(s, r)'
    BY <1>0, <1>x, <1>4, RecordedFrame DEF ResumeLoad, NextRun
<1>5. ASSUME NEW q \in RunIds, ResumeCommit(q) PROVE Recorded(s, r)'
    BY <1>0, <1>x, <1>5, RecordedFrame DEF ResumeCommit
<1>6. ASSUME NEW q \in RunIds, ResumeStart(q) PROVE Recorded(s, r)'
    BY <1>0, <1>x, <1>6, RecordedFrame DEF ResumeStart
<1>7. ASSUME NEW q \in RunIds, CancelRead(q) PROVE Recorded(s, r)'
    BY <1>0, <1>x, <1>7, RecordedFrame DEF CancelRead
<1>8. ASSUME NEW q \in RunIds, CancelFlush(q) PROVE Recorded(s, r)'
    BY <1>0, <1>x, <1>8, RecordedFrame DEF CancelFlush
<1>9. ASSUME NEW q \in RunIds, CancelStop(q) PROVE Recorded(s, r)'
  <2>1. CASE q # r
      BY <1>0, <1>x, <1>9, <2>1, RecordedFrame DEF CancelStop, OnlyStream
  <2>2. CASE q = r
      BY <1>0, <1>x, <1>9, <2>2 DEF CancelStop, QueueInv, Recorded, Word, Outcomes
  <2> QED BY <2>1, <2>2
<1>10. ASSUME NEW q \in RunIds, CancelCommit(q) PROVE Recorded(s, r)'
  <2>1. CASE q # r
      BY <1>0, <1>x, <1>10, <2>1, RecordedFrame DEF CancelCommit, OnlyStream
  <2>2. CASE q = r
      BY <1>0, <1>x, <1>10, <2>2 DEF CancelCommit, Recorded
  <2> QED BY <2>1, <2>2
<1>11. ASSUME NEW q \in RunIds, TaskEnd(q) PROVE Recorded(s, r)'
  <2>1. CASE q # r
      BY <1>0, <1>x, <1>11, <2>1, RecordedFrame DEF TaskEnd, OnlyStream
  <2>2. CASE q = r
      BY <1>0, <1>x, <1>11, <2>2 DEF TaskEnd, QueueInv, Recorded, Word, Outcomes
  <2> QED BY <2>1, <2>2
<1>12. ASSUME NEW q \in RunIds, OrphanFetch(q) PROVE Recorded(s, r)'
  <2>1. CASE q # r
      BY <1>0, <1>x, <1>12, <2>1, RecordedFrame DEF OrphanFetch, OnlyStream
  <2>2. CASE q = r
      BY <1>0, <1>x, <1>12, <2>2 DEF OrphanFetch, OnlyStream, QueueInv, Recorded
  <2> QED BY <2>1, <2>2
<1>13. ASSUME NEW t \in Streams, SeeLast(t) PROVE Recorded(s, r)'
  <2>1. CASE t # s
      BY <1>0, <1>x, <1>13, <2>1, RecordedFrame DEF SeeLast, OnlyStream, RowInv
  <2>2. CASE t = s
      BY <1>0, <1>x, <1>13, <2>2 DEF SeeLast, OnlyStream, Recorded
  <2> QED BY <2>1, <2>2
<1>14. ASSUME NEW t \in Streams, SeeSentinel(t) PROVE Recorded(s, r)'
  <2>1. CASE t # s
      BY <1>0, <1>x, <1>14, <2>1, RecordedFrame DEF SeeSentinel, OnlyStream, RowInv
  <2>2. CASE t = s
      BY <1>0, <1>x, <1>14, <2>2 DEF SeeSentinel, OnlyStream, QueueInv, Recorded, Word, Outcomes
  <2> QED BY <2>1, <2>2
<1>15. ASSUME NEW t \in Streams, StreamError(t) PROVE Recorded(s, r)'
  <2>1. CASE t # s
      BY <1>0, <1>x, <1>15, <2>1, RecordedFrame DEF StreamError, OnlyStream, RowInv
  <2>2. CASE t = s
      BY <1>0, <1>x, <1>15, <2>2 DEF StreamError, OnlyStream, Recorded
  <2> QED BY <2>1, <2>2
<1>16. ASSUME NEW t \in Streams, Disconnect(t) PROVE Recorded(s, r)'
  <2>1. CASE t # s
      BY <1>0, <1>x, <1>16, <2>1, RecordedFrame DEF Disconnect, OnlyStream, RowInv
  <2>2. CASE t = s
      BY <1>0, <1>x, <1>16, <2>2 DEF Disconnect, OnlyStream, Recorded
  <2> QED BY <2>1, <2>2
<1>17. ASSUME NEW t \in Streams, AbortFinally(t) PROVE Recorded(s, r)'
  <2>1. CASE t # s
      BY <1>0, <1>x, <1>17, <2>1, RecordedFrame DEF AbortFinally, OnlyStream, RowInv
  <2>2. CASE t = s
      BY <1>0, <1>x, <1>17, <2>2 DEF AbortFinally, OnlyStream, Recorded, Finalizing
  <2> QED BY <2>1, <2>2
<1>18. ASSUME NEW t \in Streams, SaveRead(t) PROVE Recorded(s, r)'
  <2>1. CASE t # s
      BY <1>0, <1>x, <1>18, <2>1, RecordedFrame DEF SaveRead, FinallyOnly, RowInv
  <2>2. CASE t = s
      BY <1>0, <1>x, <1>18, <2>2 DEF SaveRead, FinallyOnly, Recorded
  <2> QED BY <2>1, <2>2
<1>19. ASSUME NEW t \in Streams, SaveWrite(t) PROVE Recorded(s, r)'
  <2>1. CASE t # s
      BY <1>0, <1>x, <1>19, <2>1, RecordedFrame DEF SaveWrite, FinallyOnly, RowInv
  <2>2. CASE t = s
      BY <1>0, <1>x, <1>19, <2>2 DEF SaveWrite, FinallyOnly, TerminalStatus, Recorded, Word, Outcomes
  <2> QED BY <2>1, <2>2
<1>20. ASSUME NEW t \in Streams, MarkRead(t) PROVE Recorded(s, r)'
  <2>1. CASE t # s
      BY <1>0, <1>x, <1>20, <2>1, RecordedFrame DEF MarkRead, FinallyOnly, RowInv
  <2>2. CASE t = s
      BY <1>0, <1>x, <1>20, <2>2 DEF MarkRead, FinallyOnly, Recorded
  <2> QED BY <2>1, <2>2
<1>21. ASSUME NEW t \in Streams, MarkWrite(t) PROVE Recorded(s, r)'
  <2>1. CASE t # s
      BY <1>0, <1>x, <1>21, <2>1, RecordedFrame DEF MarkWrite, FinallyOnly, RowInv
  <2>2. CASE t = s
      BY <1>0, <1>x, <1>21, <2>2 DEF MarkWrite, FinallyOnly, Recorded
  <2> QED BY <2>1, <2>2
<1>22. ASSUME NEW t \in Streams, NEW q \in RunIds, Connect(t, q) PROVE Recorded(s, r)'
  <2>1. CASE t # s
    <3>1. src'[t] = q /\ src[s] = r /\ \A u \in Streams \ {t} : src'[u] = src[u]
        BY <1>22, <2>1 DEF Connect
    <3>2. src[t] = None /\ r # None
        BY <1>22 DEF Connect, OriginInv, RunIds, None
    <3>3. \A u \in Streams : src[u] = r => u = s
        BY <3>1, <3>2 DEF Sole
    <3> QED BY <1>0, <1>22, <2>1, <3>1, <3>3, RecordedFrame DEF Connect, OnlyStream
  <2>2. CASE t = s
    <3>1. /\ src'[s] = q /\ src[s] = None /\ r # None /\ q = r
          /\ \A u \in Streams \ {s} : src'[u] = src[u]
        BY <1>22, <2>2 DEF Connect, OriginInv, RunIds, None
    <3>2. Unread(r)
        BY <3>1 DEF Unread, Sole
    <3>3. seen[s] = "none" /\ how[s] = "open"
        BY <1>22, <2>2 DEF Connect, OriginInv, RowInv
    <3> QED BY <1>22, <2>2, <3>1, <3>2, <3>3 DEF Connect, OnlyStream, QueueInv, Recorded
  <2> QED BY <2>1, <2>2
<1>23. CASE DeleteThread
    BY <1>0, <1>x, <1>23 DEF DeleteThread, Recorded
<1>24. CASE Crash
    BY <1>0, <1>x, <1>24 DEF Crash, Cancelling, Recorded, Outcomes, Finalizing
<1>25. CASE UNCHANGED vars
    BY <1>0, <1>x, <1>25, RecordedFrame DEF vars
<1> QED BY <1>1, <1>2, <1>3, <1>4, <1>5, <1>6, <1>7, <1>8, <1>9, <1>10, <1>11, <1>12, <1>13,
           <1>14, <1>15, <1>16, <1>17, <1>18, <1>19, <1>20, <1>21, <1>22, <1>23, <1>24,
           <1>25 DEF Next, RequestStep, FinallyStep

(* The inductive invariant behind the safety properties of a thread's runs *)
(* (backend/api/routers/agent.py).                                         *)
THEOREM Bookkeeping == Spec => []LInv
<1>1. Init => LInv
  <2>1. Init => RInv
      BY InitRInv
  <2>2. Init => OriginInv /\ RunningInv /\ QueueInv
      BY DEF Init, OriginInv, RunningInv, QueueInv, RunIds, None, Word
  <2>3. Init => SoleInv
      BY DEF Init, SoleInv, Sole
  <2> QED BY <2>1, <2>2, <2>3 DEF LInv
<1>2. LInv /\ [Next]_vars => LInv'
  <2> SUFFICES ASSUME LInv, [Next]_vars PROVE LInv'
      OBVIOUS
  <2>1. RInv'
      BY TypeStep, RowStep DEF LInv, RInv
  <2>2. OriginInv' /\ RunningInv' /\ QueueInv'
      BY OriginStep, RunningStep, QueueStep DEF LInv
  <2>3. SoleInv'
      BY <2>2, SoleStep DEF LInv
  <2> QED BY <2>1, <2>2, <2>3 DEF LInv
<1> QED BY <1>1, <1>2, PTL DEF Spec

(* However the requests on a thread and the finally clauses of its streams *)
(* interleave, the thread is not left "running" once every request is over *)
(* and every run was read to its end (create_run, resume_run, cancel_run,  *)
(* event_generator).                                                       *)
THEOREM NotLeftRunning == Spec => []QuietThreadNotRunning
<1>1. LInv => QuietThreadNotRunning
    BY DEF LInv, RunningInv, QuietThreadNotRunning, Quiet, Answering
<1> QED BY Bookkeeping, <1>1, PTL

(* If the only stream of a run was read to the sentinel, the run's row     *)
(* says what became of its task (event_generator,                          *)
(* _determine_terminal_status).                                            *)
THEOREM OutcomeRecorded == Spec => []SoleReaderRecordsOutcome
<1>1. LInv => SoleReaderRecordsOutcome
  <2> SUFFICES ASSUME LInv, NEW s \in Streams, Sole(s), Settled(s), how[s] = "sentinel",
                      task[src[s]] # "cancelled", canc[src[s]] \in {"none", "error"},
                      snap[src[s]] # "absent"
               PROVE  snap[src[s]] = task[src[s]]
      BY DEF SoleReaderRecordsOutcome
  <2>1. PICK r \in RunIds : src[s] = r
      BY DEF LInv, RInv, RowInv, Settled
  <2>2. Recorded(s, r)
      BY <2>1 DEF LInv, SoleInv
  <2> QED BY <2>1, <2>2 DEF Recorded, Settled
<1> QED BY Bookkeeping, <1>1, PTL
=============================================================================
