---------------------- MODULE DocumentIngestion_proofs ----------------------
(***************************************************************************)
(* Theorems about the ingestion of a document, for any requests, workers,  *)
(* retries and lost workers.                                               *)
(***************************************************************************)
EXTENDS DocumentIngestion, TLAPS

USE IngestionAssumption

-----------------------------------------------------------------------------
(* Type correctness, the roles of the requests, and what is stored of a    *)
(* document that is gone.                                                  *)
QueueType == queue' \in [0..MaxRetries -> Nat]
PhaseType == phase' \in [Workers -> Phase]
LoadedType == loaded' \in [Requests \cup Workers -> Status \cup {"unread"}]

LEMMA EnqueueType ==
    ASSUME TypeOK, NEW n \in 0..MaxRetries, Enqueue(n)
    PROVE  QueueType
BY DEF Enqueue, TypeOK, QueueType

LEMMA RetryType ==
    ASSUME TypeOK, NEW w \in Workers, Retry(w)
    PROVE  QueueType /\ PhaseType
<1>1. PhaseType
    BY DEF Retry, Goto, TypeOK, Phase, PhaseType
<1>2. CASE tries[w] < MaxRetries
  <2>1. tries[w] + 1 \in 0..MaxRetries
      BY <1>2 DEF TypeOK
  <2>2. QueueType
      BY <1>2, <2>1, EnqueueType DEF Retry
  <2> QED BY <1>1, <2>2
<1>3. CASE ~(tries[w] < MaxRetries)
    BY <1>1, <1>3 DEF Retry, TypeOK, QueueType
<1> QED BY <1>2, <1>3

LEMMA ReadStatusType ==
    ASSUME TypeOK, NEW w \in Workers, NEW new, NEW write \in Phase, NEW none \in Phase,
           ReadStatus(w, new, write, none)
    PROVE  TypeOK'
<1>1. PhaseType /\ LoadedType
    BY DEF ReadStatus, Goto, Load, TypeOK, Gone, Status, PhaseType, LoadedType
<1> QED BY <1>1 DEF ReadStatus, OnlyWorker, rowVars, TypeOK, PhaseType, LoadedType

LEMMA WriteStatusType ==
    ASSUME TypeOK, NEW w \in Workers, NEW new \in Status, NEW next \in Phase,
           WriteStatus(w, new, next)
    PROVE  TypeOK'
<1>1. LoadedType
    BY DEF WriteStatus, Load, TypeOK, LoadedType
<1>2. QueueType /\ PhaseType
  <2>1. CASE Retry(w)
      BY <2>1, RetryType
  <2>2. CASE Goto(w, next) /\ UNCHANGED queue
      BY <2>2 DEF Goto, TypeOK, QueueType, PhaseType
  <2> QED BY <2>1, <2>2 DEF WriteStatus
<1> QED BY <1>1, <1>2 DEF WriteStatus, TypeOK, QueueType, PhaseType, LoadedType

LEMMA GiveUpType ==
    ASSUME TypeOK, NEW w \in Workers, GiveUp(w)
    PROVE  TypeOK'
<1>1. QueueType /\ PhaseType
    BY RetryType DEF GiveUp
<1> QED BY <1>1 DEF GiveUp, OnlyWorker, rowVars, TypeOK, QueueType, PhaseType

(* Whatever stage of parsing a worker is at, its step only moves it on.    *)
LEMMA ParseAdvances ==
    ASSUME NEW w \in Workers, Parse(w)
    PROVE  /\ phase[w] \in ParsePhase
           /\ \E next \in (ParsePhase \ {"parse"}) \cup {"end", "fail"} :
                 /\ Goto(w, next)
                 /\ phase[w] = "parse" /\ status \in Gone => next = "fail"
           /\ UNCHANGED <<status, file, stored, queue, request, tries, loaded, crashes>>
<1> USE DEF Advance, OnlyWorker, rowVars, ParsePhase
<1>1. CASE GetFilePath(w)
    BY <1>1 DEF GetFilePath
<1>2. CASE UploadToMinerU(w)
    BY <1>2 DEF UploadToMinerU
<1>3. CASE PollMinerU(w)
    BY <1>3 DEF PollMinerU
<1>4. CASE FallbackParse(w)
    BY <1>4 DEF FallbackParse
<1>5. CASE FallbackAgain(w)
    BY <1>5 DEF FallbackAgain
<1>6. CASE Classify(w)
    BY <1>6 DEF Classify
<1>7. CASE Embed(w)
    BY <1>7 DEF Embed
<1> QED BY <1>1, <1>2, <1>3, <1>4, <1>5, <1>6, <1>7 DEF Parse

LEMMA TypeStep == TypeOK /\ [Next]_vars => TypeOK'
<1> SUFFICES ASSUME TypeOK, [Next]_vars PROVE TypeOK'
    OBVIOUS
<1>1. CASE InitiateUpload
    BY <1>1 DEF InitiateUpload, rowVars, workerVars, TypeOK, Requests, Phase, Gone, Status
<1>2. CASE Upload
    BY <1>2 DEF Upload, rowVars, workerVars, TypeOK, Requests, Phase, Gone, Status
<1>3. ASSUME NEW c \in Requests, RequestRead(c) PROVE TypeOK'
    BY <1>3 DEF RequestRead, Load, rowVars, workerVars, TypeOK, Requests, Phase, Gone, Status
<1>4. ASSUME NEW c \in Requests, RequestSend(c) PROVE TypeOK'
  <2>1. CASE status = "deleted"
      BY <1>4, <2>1 DEF RequestSend, rowVars, workerVars, TypeOK
  <2>2. CASE status # "deleted"
    <3>1. QueueType
        BY <1>4, <2>2, EnqueueType DEF RequestSend
    <3> QED BY <1>4, <2>2, <3>1 DEF RequestSend, rowVars, workerVars, TypeOK, QueueType
  <2> QED BY <2>1, <2>2
<1>5. ASSUME NEW c \in Requests, ArxivSend(c) PROVE TypeOK'
    BY <1>5 DEF ArxivSend, Enqueue, rowVars, workerVars, TypeOK, Requests, Phase, Gone, Status
<1>6. ASSUME NEW c \in Requests, RequestCommit(c) PROVE TypeOK'
    BY <1>6 DEF RequestCommit, rowVars, workerVars, TypeOK, Requests, Phase, Gone, Status
<1>7. ASSUME NEW c \in Requests, RequestLost(c) PROVE TypeOK'
    BY <1>7 DEF RequestLost, rowVars, workerVars, TypeOK, Requests, Phase, Gone, Status
<1>8. ASSUME NEW c \in Requests, DeleteFile(c) PROVE TypeOK'
    BY <1>8 DEF DeleteFile, rowVars, workerVars, TypeOK, Requests, Phase, Gone, Status
<1>9. ASSUME NEW c \in Requests, DeleteRow(c) PROVE TypeOK'
    BY <1>9 DEF DeleteRow, RowFree, rowVars, workerVars, TypeOK, Requests, Phase, Gone, Status
<1>10. ASSUME NEW w \in Workers, Fetch(w) PROVE TypeOK'
    BY <1>10 DEF Fetch, Goto, OnlyWorker, rowVars, workerVars, TypeOK, Requests, Phase, Gone,
           Status
<1>11. ASSUME NEW w \in Workers, BeginRead(w) PROVE TypeOK'
  <2>1. {"begin_write", "parse"} \subseteq Phase
      BY DEF Phase, ParsePhase
  <2> QED BY <1>11, <2>1, ReadStatusType, GiveUpType DEF BeginRead
<1>12. ASSUME NEW w \in Workers, BeginWrite(w) PROVE TypeOK'
    BY <1>12, WriteStatusType DEF BeginWrite, Phase, ParsePhase, Status
<1>13. ASSUME NEW w \in Workers, Parse(w) PROVE TypeOK'
  <2>1. PhaseType
      BY <1>13, ParseAdvances DEF Goto, TypeOK, Phase, PhaseType
  <2> QED BY <1>13, <2>1, ParseAdvances DEF TypeOK, PhaseType
<1>14. ASSUME NEW w \in Workers, EndRead(w) PROVE TypeOK'
  <2>1. PhaseType /\ LoadedType
    <3>1. CASE ReadStatus(w, "completed", "end_write", "persist")
      <4>1. {"end_write", "persist"} \subseteq Phase
          BY DEF Phase
      <4>2. TypeOK'
          BY <3>1, <4>1, ReadStatusType
      <4> QED BY <4>2 DEF TypeOK, PhaseType, LoadedType
    <3>2. CASE Goto(w, "fail") /\ UNCHANGED loaded
        BY <3>2 DEF Goto, TypeOK, Phase, PhaseType, LoadedType
    <3> QED BY <1>14, <3>1, <3>2 DEF EndRead
  <2>2. UNCHANGED <<rowVars, queue, tries, request, crashes>>
      BY <1>14 DEF EndRead, ReadStatus, OnlyWorker
  <2> QED BY <2>1, <2>2 DEF TypeOK, rowVars, PhaseType, LoadedType
<1>15. ASSUME NEW w \in Workers, EndWrite(w) PROVE TypeOK'
    BY <1>15, WriteStatusType DEF EndWrite, Phase, Status
<1>16. ASSUME NEW w \in Workers, FailRead(w) PROVE TypeOK'
  <2>1. {"fail_write", "fail"} \subseteq Phase
      BY DEF Phase
  <2> QED BY <1>16, <2>1, ReadStatusType, GiveUpType DEF FailRead
<1>17. ASSUME NEW w \in Workers, FailWrite(w) PROVE TypeOK'
  <2>1. QueueType /\ PhaseType
      BY <1>17, RetryType DEF FailWrite
  <2>2. LoadedType
      BY <1>17 DEF FailWrite, Load, TypeOK, LoadedType
  <2> QED BY <1>17, <2>1, <2>2 DEF FailWrite, TypeOK, Status, QueueType, PhaseType, LoadedType
<1>18. ASSUME NEW w \in Workers, Persist(w) PROVE TypeOK'
  <2>1. QueueType /\ PhaseType
    <3>1. CASE Retry(w)
        BY <3>1, RetryType
    <3>2. CASE Goto(w, "ack") /\ UNCHANGED queue
        BY <3>2 DEF Goto, TypeOK, Phase, QueueType, PhaseType
    <3> QED BY <1>18, <3>1, <3>2 DEF Persist
  <2> QED BY <1>18, <2>1 DEF Persist, TypeOK, QueueType, PhaseType
<1>19. ASSUME NEW w \in Workers, Ack(w) PROVE TypeOK'
    BY <1>19 DEF Ack, Goto, OnlyWorker, rowVars, workerVars, TypeOK, Requests, Phase, Gone,
           Status
<1>20. ASSUME NEW w \in Workers, WorkerLost(w) PROVE TypeOK'
    BY <1>20 DEF WorkerLost, Goto, Enqueue, Load, rowVars, workerVars, TypeOK, Requests,
           Phase, Gone, Status
<1>21. CASE UNCHANGED vars
    BY <1>21 DEF vars, rowVars, workerVars, TypeOK, Requests, Phase, Gone, Status
<1> QED BY <1>1, <1>2, <1>3, <1>4, <1>5, <1>6, <1>7, <1>8, <1>9, <1>10, <1>11, <1>12, <1>13,
           <1>14, <1>15, <1>16, <1>17, <1>18, <1>19, <1>20, <1>21
        DEF Next, RequestStep, WorkerStep

LEMMA RolesStep == TypeOK /\ Roles /\ [Next]_vars => Roles'
<1> SUFFICES ASSUME TypeOK, Roles, [Next]_vars PROVE Roles'
    OBVIOUS
<1>1. CASE InitiateUpload
    BY <1>1 DEF InitiateUpload, rowVars, workerVars, TypeOK, Roles, Requests, Gone, Status
<1>2. CASE Upload
    BY <1>2 DEF Upload, rowVars, workerVars, TypeOK, Roles, Requests, Gone, Status
<1>3. ASSUME NEW c \in Requests, RequestRead(c) PROVE Roles'
    BY <1>3 DEF RequestRead, Load, rowVars, workerVars, TypeOK, Roles, Requests, Gone, Status
<1>4. ASSUME NEW c \in Requests, RequestSend(c) PROVE Roles'
    BY <1>4 DEF RequestSend, RowFree, Enqueue, rowVars, workerVars, TypeOK, Roles, Requests,
           Gone, Status
<1>5. ASSUME NEW c \in Requests, ArxivSend(c) PROVE Roles'
    BY <1>5 DEF ArxivSend, Enqueue, rowVars, workerVars, TypeOK, Roles, Requests, Gone, Status
<1>6. ASSUME NEW c \in Requests, RequestCommit(c) PROVE Roles'
    BY <1>6 DEF RequestCommit, rowVars, workerVars, TypeOK, Roles, Requests, Gone, Status
<1>7. ASSUME NEW c \in Requests, RequestLost(c) PROVE Roles'
    BY <1>7 DEF RequestLost, rowVars, workerVars, TypeOK, Roles, Requests, Gone, Status
<1>8. ASSUME NEW c \in Requests, DeleteFile(c) PROVE Roles'
    BY <1>8 DEF DeleteFile, rowVars, workerVars, TypeOK, Roles, Requests, Gone, Status
<1>9. ASSUME NEW c \in Requests, DeleteRow(c) PROVE Roles'
    BY <1>9 DEF DeleteRow, RowFree, rowVars, workerVars, TypeOK, Roles, Requests, Gone, Status
<1>10. ASSUME NEW w \in Workers, Fetch(w) PROVE Roles'
    BY <1>10 DEF Fetch, Goto, OnlyWorker, rowVars, workerVars, TypeOK, Roles, Requests, Gone,
           Status
<1>11. ASSUME NEW w \in Workers, BeginRead(w) PROVE Roles'
    BY <1>11 DEF BeginRead, ReadStatus, Refuses, GiveUp, Retry, Goto, Enqueue, Load,
           OnlyWorker, rowVars, workerVars, TypeOK, Roles, Requests, Gone, Status
<1>12. ASSUME NEW w \in Workers, BeginWrite(w) PROVE Roles'
    BY <1>12 DEF BeginWrite, WriteStatus, RowFree, Retry, Goto, Enqueue, Load, rowVars,
           workerVars, TypeOK, Roles, Requests, Gone, Status
<1>13. ASSUME NEW w \in Workers, Parse(w) PROVE Roles'
    BY <1>13, ParseAdvances DEF Roles
<1>14. ASSUME NEW w \in Workers, EndRead(w) PROVE Roles'
    BY <1>14 DEF EndRead, ReadStatus, Refuses, GiveUp, Goto, Load, OnlyWorker, rowVars,
           workerVars, TypeOK, Roles, Requests, Gone, Status
<1>15. ASSUME NEW w \in Workers, EndWrite(w) PROVE Roles'
    BY <1>15 DEF EndWrite, WriteStatus, RowFree, Retry, Goto, Enqueue, Load, rowVars,
           workerVars, TypeOK, Roles, Requests, Gone, Status
<1>16. ASSUME NEW w \in Workers, FailRead(w) PROVE Roles'
    BY <1>16 DEF FailRead, ReadStatus, Refuses, GiveUp, Retry, Goto, Enqueue, Load,
           OnlyWorker, rowVars, workerVars, TypeOK, Roles, Requests, Gone, Status
<1>17. ASSUME NEW w \in Workers, FailWrite(w) PROVE Roles'
    BY <1>17 DEF FailWrite, RowFree, Retry, Goto, Enqueue, Load, rowVars, workerVars, TypeOK,
           Roles, Requests, Gone, Status
<1>18. ASSUME NEW w \in Workers, Persist(w) PROVE Roles'
    BY <1>18 DEF Persist, Goto, Retry, Enqueue, rowVars, workerVars, TypeOK, Roles, Requests,
           Gone, Status
<1>19. ASSUME NEW w \in Workers, Ack(w) PROVE Roles'
    BY <1>19 DEF Ack, Goto, OnlyWorker, rowVars, workerVars, TypeOK, Roles, Requests, Gone,
           Status
<1>20. ASSUME NEW w \in Workers, WorkerLost(w) PROVE Roles'
    BY <1>20 DEF WorkerLost, Goto, Enqueue, Load, rowVars, workerVars, TypeOK, Roles,
           Requests, Gone, Status
<1>21. CASE UNCHANGED vars
    BY <1>21 DEF vars, rowVars, workerVars, TypeOK, Roles, Requests, Gone, Status
<1> QED BY <1>1, <1>2, <1>3, <1>4, <1>5, <1>6, <1>7, <1>8, <1>9, <1>10, <1>11, <1>12, <1>13,
           <1>14, <1>15, <1>16, <1>17, <1>18, <1>19, <1>20, <1>21
        DEF Next, RequestStep, WorkerStep

LEMMA OrphanStep == TypeOK /\ NoOrphanContent /\ [Next]_vars => NoOrphanContent'
<1> SUFFICES ASSUME TypeOK, NoOrphanContent, [Next]_vars PROVE NoOrphanContent'
    OBVIOUS
<1>1. CASE InitiateUpload
    BY <1>1 DEF InitiateUpload, rowVars, workerVars, TypeOK, NoOrphanContent, Gone, Status
<1>2. CASE Upload
    BY <1>2 DEF Upload, rowVars, workerVars, TypeOK, NoOrphanContent, Gone, Status
<1>3. ASSUME NEW c \in Requests, RequestRead(c) PROVE NoOrphanContent'
    BY <1>3 DEF RequestRead, Load, rowVars, workerVars, TypeOK, NoOrphanContent, Gone, Status
<1>4. ASSUME NEW c \in Requests, RequestSend(c) PROVE NoOrphanContent'
    BY <1>4 DEF RequestSend, RowFree, Enqueue, rowVars, workerVars, TypeOK, NoOrphanContent,
           Gone, Status
<1>5. ASSUME NEW c \in Requests, ArxivSend(c) PROVE NoOrphanContent'
    BY <1>5 DEF ArxivSend, Enqueue, rowVars, workerVars, TypeOK, NoOrphanContent, Gone, Status
<1>6. ASSUME NEW c \in Requests, RequestCommit(c) PROVE NoOrphanContent'
    BY <1>6 DEF RequestCommit, rowVars, workerVars, TypeOK, NoOrphanContent, Gone, Status
<1>7. ASSUME NEW c \in Requests, RequestLost(c) PROVE NoOrphanContent'
    BY <1>7 DEF RequestLost, rowVars, workerVars, TypeOK, NoOrphanContent, Gone, Status
<1>8. ASSUME NEW c \in Requests, DeleteFile(c) PROVE NoOrphanContent'
    BY <1>8 DEF DeleteFile, rowVars, workerVars, TypeOK, NoOrphanContent, Gone, Status
<1>9. ASSUME NEW c \in Requests, DeleteRow(c) PROVE NoOrphanContent'
    BY <1>9 DEF DeleteRow, RowFree, rowVars, workerVars, TypeOK, NoOrphanContent, Gone, Status
<1>10. ASSUME NEW w \in Workers, Fetch(w) PROVE NoOrphanContent'
    BY <1>10 DEF Fetch, Goto, OnlyWorker, rowVars, workerVars, TypeOK, NoOrphanContent, Gone,
           Status
<1>11. ASSUME NEW w \in Workers, BeginRead(w) PROVE NoOrphanContent'
    BY <1>11 DEF BeginRead, ReadStatus, Refuses, GiveUp, Retry, Goto, Enqueue, Load,
           OnlyWorker, rowVars, workerVars, TypeOK, NoOrphanContent, Gone, Status
<1>12. ASSUME NEW w \in Workers, BeginWrite(w) PROVE NoOrphanContent'
    BY <1>12 DEF BeginWrite, WriteStatus, RowFree, Retry, Goto, Enqueue, Load, rowVars,
           workerVars, TypeOK, NoOrphanContent, Gone, Status
<1>13. ASSUME NEW w \in Workers, Parse(w) PROVE NoOrphanContent'
    BY <1>13, ParseAdvances DEF NoOrphanContent
<1>14. ASSUME NEW w \in Workers, EndRead(w) PROVE NoOrphanContent'
    BY <1>14 DEF EndRead, ReadStatus, Refuses, GiveUp, Goto, Load, OnlyWorker, rowVars,
           workerVars, TypeOK, NoOrphanContent, Gone, Status
<1>15. ASSUME NEW w \in Workers, EndWrite(w) PROVE NoOrphanContent'
    BY <1>15 DEF EndWrite, WriteStatus, RowFree, Retry, Goto, Enqueue, Load, rowVars,
           workerVars, TypeOK, NoOrphanContent, Gone, Status
<1>16. ASSUME NEW w \in Workers, FailRead(w) PROVE NoOrphanContent'
    BY <1>16 DEF FailRead, ReadStatus, Refuses, GiveUp, Retry, Goto, Enqueue, Load,
           OnlyWorker, rowVars, workerVars, TypeOK, NoOrphanContent, Gone, Status
<1>17. ASSUME NEW w \in Workers, FailWrite(w) PROVE NoOrphanContent'
    BY <1>17 DEF FailWrite, RowFree, Retry, Goto, Enqueue, Load, rowVars, workerVars, TypeOK,
           NoOrphanContent, Gone, Status
<1>18. ASSUME NEW w \in Workers, Persist(w) PROVE NoOrphanContent'
    BY <1>18 DEF Persist, Goto, Retry, Enqueue, rowVars, workerVars, TypeOK, NoOrphanContent,
           Gone, Status
<1>19. ASSUME NEW w \in Workers, Ack(w) PROVE NoOrphanContent'
    BY <1>19 DEF Ack, Goto, OnlyWorker, rowVars, workerVars, TypeOK, NoOrphanContent, Gone,
           Status
<1>20. ASSUME NEW w \in Workers, WorkerLost(w) PROVE NoOrphanContent'
    BY <1>20 DEF WorkerLost, Goto, Enqueue, Load, rowVars, workerVars, TypeOK,
           NoOrphanContent, Gone, Status
<1>21. CASE UNCHANGED vars
    BY <1>21 DEF vars, rowVars, workerVars, TypeOK, NoOrphanContent, Gone, Status
<1> QED BY <1>1, <1>2, <1>3, <1>4, <1>5, <1>6, <1>7, <1>8, <1>9, <1>10, <1>11, <1>12, <1>13,
           <1>14, <1>15, <1>16, <1>17, <1>18, <1>19, <1>20, <1>21
        DEF Next, RequestStep, WorkerStep

-----------------------------------------------------------------------------
(* A document submitted once: a request that was made stays made.          *)
Stays(d) == request[d] # "none" => request'[d] # "none"

LEMMA MadeStays == TypeOK /\ [Next]_vars => \A d \in Requests : Stays(d)
<1> SUFFICES ASSUME TypeOK, [Next]_vars PROVE \A d \in Requests : Stays(d)
    OBVIOUS
<1>1. CASE InitiateUpload
    BY <1>1 DEF InitiateUpload, rowVars, workerVars, TypeOK, Stays
<1>2. CASE Upload
    BY <1>2 DEF Upload, rowVars, workerVars, TypeOK, Stays
<1>3. ASSUME NEW c \in Requests, RequestRead(c) PROVE \A d \in Requests : Stays(d)
    BY <1>3 DEF RequestRead, Load, rowVars, workerVars, TypeOK, Stays
<1>4. ASSUME NEW c \in Requests, RequestSend(c) PROVE \A d \in Requests : Stays(d)
    BY <1>4 DEF RequestSend, RowFree, Enqueue, rowVars, workerVars, TypeOK, Stays
<1>5. ASSUME NEW c \in Requests, ArxivSend(c) PROVE \A d \in Requests : Stays(d)
    BY <1>5 DEF ArxivSend, Enqueue, rowVars, workerVars, TypeOK, Stays
<1>6. ASSUME NEW c \in Requests, RequestCommit(c) PROVE \A d \in Requests : Stays(d)
    BY <1>6 DEF RequestCommit, rowVars, workerVars, TypeOK, Stays
<1>7. ASSUME NEW c \in Requests, RequestLost(c) PROVE \A d \in Requests : Stays(d)
    BY <1>7 DEF RequestLost, rowVars, workerVars, TypeOK, Stays
<1>8. ASSUME NEW c \in Requests, DeleteFile(c) PROVE \A d \in Requests : Stays(d)
    BY <1>8 DEF DeleteFile, rowVars, workerVars, TypeOK, Stays
<1>9. ASSUME NEW c \in Requests, DeleteRow(c) PROVE \A d \in Requests : Stays(d)
    BY <1>9 DEF DeleteRow, RowFree, rowVars, workerVars, TypeOK, Stays
<1>10. ASSUME NEW w \in Workers, Fetch(w) PROVE \A d \in Requests : Stays(d)
    BY <1>10 DEF Fetch, Goto, OnlyWorker, rowVars, workerVars, TypeOK, Stays
<1>11. ASSUME NEW w \in Workers, BeginRead(w) PROVE \A d \in Requests : Stays(d)
    BY <1>11 DEF BeginRead, ReadStatus, Refuses, GiveUp, Retry, Goto, Enqueue, Load,
           OnlyWorker, rowVars, workerVars, TypeOK, Stays
<1>12. ASSUME NEW w \in Workers, BeginWrite(w) PROVE \A d \in Requests : Stays(d)
    BY <1>12 DEF BeginWrite, WriteStatus, RowFree, Retry, Goto, Enqueue, Load, rowVars,
           workerVars, TypeOK, Stays
<1>13. ASSUME NEW w \in Workers, Parse(w) PROVE \A d \in Requests : Stays(d)
    BY <1>13, ParseAdvances DEF Stays
<1>14. ASSUME NEW w \in Workers, EndRead(w) PROVE \A d \in Requests : Stays(d)
    BY <1>14 DEF EndRead, ReadStatus, Refuses, GiveUp, Goto, Load, OnlyWorker, rowVars,
           workerVars, TypeOK, Stays
<1>15. ASSUME NEW w \in Workers, EndWrite(w) PROVE \A d \in Requests : Stays(d)
    BY <1>15 DEF EndWrite, WriteStatus, RowFree, Retry, Goto, Enqueue, Load, rowVars,
           workerVars, TypeOK, Stays
<1>16. ASSUME NEW w \in Workers, FailRead(w) PROVE \A d \in Requests : Stays(d)
    BY <1>16 DEF FailRead, ReadStatus, Refuses, GiveUp, Retry, Goto, Enqueue, Load,
           OnlyWorker, rowVars, workerVars, TypeOK, Stays
<1>17. ASSUME NEW w \in Workers, FailWrite(w) PROVE \A d \in Requests : Stays(d)
    BY <1>17 DEF FailWrite, RowFree, Retry, Goto, Enqueue, Load, rowVars, workerVars, TypeOK, Stays
<1>18. ASSUME NEW w \in Workers, Persist(w) PROVE \A d \in Requests : Stays(d)
    BY <1>18 DEF Persist, Goto, Retry, Enqueue, rowVars, workerVars, TypeOK, Stays
<1>19. ASSUME NEW w \in Workers, Ack(w) PROVE \A d \in Requests : Stays(d)
    BY <1>19 DEF Ack, Goto, OnlyWorker, rowVars, workerVars, TypeOK, Stays
<1>20. ASSUME NEW w \in Workers, WorkerLost(w) PROVE \A d \in Requests : Stays(d)
    BY <1>20 DEF WorkerLost, Goto, Enqueue, Load, rowVars, workerVars, TypeOK, Stays
<1>21. CASE UNCHANGED vars
    BY <1>21 DEF vars, rowVars, workerVars, TypeOK, Stays
<1> QED BY <1>1, <1>2, <1>3, <1>4, <1>5, <1>6, <1>7, <1>8, <1>9, <1>10, <1>11, <1>12, <1>13,
           <1>14, <1>15, <1>16, <1>17, <1>18, <1>19, <1>20, <1>21
        DEF Next, RequestStep, WorkerStep

LEMMA SerialBefore == TypeOK /\ [Next]_vars /\ Serial' => Serial
BY MadeStays DEF Serial, Stays

(* One message at most.                                                    *)
LEMMA BusyKeepsOne ==
    ASSUME TypeOK, OneMessage, NEW w \in Workers, phase[w] # "idle",
           NEW next, Goto(w, next), queue' = queue
    PROVE  OneMessage'
BY DEF TypeOK, OneMessage, Goto

LEMMA RetryKeepsOne ==
    ASSUME TypeOK, OneMessage, NEW w \in Workers, phase[w] # "idle", Retry(w)
    PROVE  OneMessage'
<1>1. \A v \in Workers : phase'[v] = "idle"
    BY DEF TypeOK, OneMessage, Retry, Goto
<1>2. \A m, n \in 0..MaxRetries : queue'[m] > 0 => queue'[m] = 1 /\ (queue'[n] > 0 => m = n)
  <2>1. \A n \in 0..MaxRetries : queue[n] = 0
      BY DEF OneMessage
  <2>2. CASE queue' = queue
      BY <2>1, <2>2
  <2>3. CASE Enqueue(tries[w] + 1)
    <3>1. \A n \in 0..MaxRetries : queue'[n] = IF n = tries[w] + 1 THEN 1 ELSE 0
        BY <2>1, <2>3 DEF Enqueue, TypeOK
    <3> QED BY <3>1
  <2> QED BY <2>2, <2>3 DEF Retry
<1> QED BY <1>1, <1>2 DEF OneMessage

LEMMA OneMessageStep ==
    ASSUME TypeOK, Roles, SerialInv, Serial, Serial', [Next]_vars PROVE OneMessage'
<1>1. CASE InitiateUpload
    BY <1>1 DEF InitiateUpload, rowVars, workerVars, TypeOK, Roles, SerialInv, Serial,
           Requests, Gone, Status, OneMessage, NothingSent, NoMessage
<1>2. CASE Upload
    BY <1>2 DEF Upload, rowVars, workerVars, TypeOK, Roles, SerialInv, Serial, Requests, Gone,
           Status, OneMessage, NothingSent, NoMessage
<1>3. ASSUME NEW c \in Requests, RequestRead(c) PROVE OneMessage'
    BY <1>3 DEF RequestRead, Load, rowVars, workerVars, TypeOK, Roles, SerialInv, Serial,
           Requests, Gone, Status, OneMessage, NothingSent, NoMessage
<1>4. ASSUME NEW c \in Requests, RequestSend(c) PROVE OneMessage'
  <2>1. UNCHANGED phase
      BY <1>4 DEF RequestSend, workerVars
  <2>2. CASE UNCHANGED queue
      BY <2>1, <2>2 DEF SerialInv, OneMessage
  <2>3. CASE Enqueue(0)
    <3>1. \A d \in Requests \ Deletes : request[d] \in {"none", "read"}
        BY <1>4 DEF RequestSend, Serial, Roles
    <3>2. NoMessage
        BY <3>1 DEF SerialInv, NothingSent
    <3>3. \A n \in 0..MaxRetries : queue'[n] = IF n = 0 THEN 1 ELSE 0
        BY <2>3, <3>2 DEF Enqueue, NoMessage, TypeOK
    <3> QED BY <2>1, <3>2, <3>3 DEF NoMessage, OneMessage
  <2> QED BY <1>4, <2>2, <2>3 DEF RequestSend
<1>5. ASSUME NEW c \in Requests, ArxivSend(c) PROVE OneMessage'
    BY <1>5 DEF ArxivSend, Enqueue, rowVars, workerVars, TypeOK, Roles, SerialInv, Serial,
           Requests, Gone, Status, OneMessage, NothingSent, NoMessage
<1>6. ASSUME NEW c \in Requests, RequestCommit(c) PROVE OneMessage'
    BY <1>6 DEF RequestCommit, rowVars, workerVars, TypeOK, Roles, SerialInv, Serial,
           Requests, Gone, Status, OneMessage, NothingSent, NoMessage
<1>7. ASSUME NEW c \in Requests, RequestLost(c) PROVE OneMessage'
    BY <1>7 DEF RequestLost, rowVars, workerVars, TypeOK, Roles, SerialInv, Serial, Requests,
           Gone, Status, OneMessage, NothingSent, NoMessage
<1>8. ASSUME NEW c \in Requests, DeleteFile(c) PROVE OneMessage'
    BY <1>8 DEF DeleteFile, rowVars, workerVars, TypeOK, Roles, SerialInv, Serial, Requests,
           Gone, Status, OneMessage, NothingSent, NoMessage
<1>9. ASSUME NEW c \in Requests, DeleteRow(c) PROVE OneMessage'
    BY <1>9 DEF DeleteRow, RowFree, rowVars, workerVars, TypeOK, Roles, SerialInv, Serial,
           Requests, Gone, Status, OneMessage, NothingSent, NoMessage
<1>10. ASSUME NEW w \in Workers, Fetch(w) PROVE OneMessage'
    BY <1>10 DEF Fetch, Goto, OnlyWorker, rowVars, workerVars, TypeOK, Roles, SerialInv,
           Serial, Requests, Gone, Status, OneMessage, NothingSent, NoMessage
<1>11. ASSUME NEW w \in Workers, BeginRead(w) PROVE OneMessage'
    BY <1>11, BusyKeepsOne, RetryKeepsOne DEF BeginRead, ReadStatus, GiveUp, SerialInv
<1>12. ASSUME NEW w \in Workers, BeginWrite(w) PROVE OneMessage'
    BY <1>12, BusyKeepsOne, RetryKeepsOne DEF BeginWrite, WriteStatus, SerialInv
<1>13. ASSUME NEW w \in Workers, Parse(w) PROVE OneMessage'
    BY <1>13, ParseAdvances, BusyKeepsOne DEF ParsePhase, SerialInv
<1>14. ASSUME NEW w \in Workers, EndRead(w) PROVE OneMessage'
    BY <1>14, BusyKeepsOne, RetryKeepsOne DEF EndRead, ReadStatus, SerialInv
<1>15. ASSUME NEW w \in Workers, EndWrite(w) PROVE OneMessage'
    BY <1>15, BusyKeepsOne, RetryKeepsOne DEF EndWrite, WriteStatus, SerialInv
<1>16. ASSUME NEW w \in Workers, FailRead(w) PROVE OneMessage'
    BY <1>16, BusyKeepsOne, RetryKeepsOne DEF FailRead, ReadStatus, GiveUp, SerialInv
<1>17. ASSUME NEW w \in Workers, FailWrite(w) PROVE OneMessage'
    BY <1>17, RetryKeepsOne DEF FailWrite, SerialInv
<1>18. ASSUME NEW w \in Workers, Persist(w) PROVE OneMessage'
    BY <1>18, BusyKeepsOne, RetryKeepsOne DEF Persist, SerialInv
<1>19. ASSUME NEW w \in Workers, Ack(w) PROVE OneMessage'
    BY <1>19 DEF Ack, Goto, OnlyWorker, rowVars, workerVars, TypeOK, Roles, SerialInv, Serial,
           Requests, Gone, Status, OneMessage, NothingSent, NoMessage
<1>20. ASSUME NEW w \in Workers, WorkerLost(w) PROVE OneMessage'
    BY <1>20 DEF WorkerLost, Goto, Enqueue, Load, rowVars, workerVars, TypeOK, Roles,
           SerialInv, Serial, Requests, Gone, Status, OneMessage, NothingSent, NoMessage
<1>21. CASE UNCHANGED vars
    BY <1>21 DEF vars, rowVars, workerVars, TypeOK, Roles, SerialInv, Serial, Requests, Gone,
           Status, OneMessage, NothingSent, NoMessage
<1> QED BY <1>1, <1>2, <1>3, <1>4, <1>5, <1>6, <1>7, <1>8, <1>9, <1>10, <1>11, <1>12, <1>13,
           <1>14, <1>15, <1>16, <1>17, <1>18, <1>19, <1>20, <1>21
        DEF Next, RequestStep, WorkerStep

(* Nothing is sent before there is a request.                              *)
LEMMA NothingSentStep ==
    ASSUME TypeOK, Roles, SerialInv, Serial, Serial', [Next]_vars PROVE NothingSent'
<1>1. CASE InitiateUpload
    BY <1>1 DEF InitiateUpload, rowVars, workerVars, TypeOK, Roles, SerialInv, Serial,
           Requests, Gone, Status, OneMessage, NothingSent, NoMessage, RequestFits, PhaseFits, StoredFits
<1>2. CASE Upload
    BY <1>2 DEF Upload, rowVars, workerVars, TypeOK, Roles, SerialInv, Serial, Requests, Gone,
           Status, OneMessage, NothingSent, NoMessage, RequestFits, PhaseFits, StoredFits
<1>3. ASSUME NEW c \in Requests, RequestRead(c) PROVE NothingSent'
    BY <1>3 DEF RequestRead, Load, rowVars, workerVars, TypeOK, Roles, SerialInv, Serial,
           Requests, Gone, Status, OneMessage, NothingSent, NoMessage, RequestFits, PhaseFits, StoredFits
<1>4. ASSUME NEW c \in Requests, RequestSend(c) PROVE NothingSent'
    BY <1>4 DEF RequestSend, RowFree, Enqueue, rowVars, workerVars, TypeOK, Roles, SerialInv,
           Serial, Requests, Gone, Status, OneMessage, NothingSent, NoMessage, RequestFits, PhaseFits, StoredFits
<1>5. ASSUME NEW c \in Requests, ArxivSend(c) PROVE NothingSent'
    BY <1>5 DEF ArxivSend, Enqueue, rowVars, workerVars, TypeOK, Roles, SerialInv, Serial,
           Requests, Gone, Status, OneMessage, NothingSent, NoMessage, RequestFits, PhaseFits, StoredFits
<1>6. ASSUME NEW c \in Requests, RequestCommit(c) PROVE NothingSent'
    BY <1>6 DEF RequestCommit, rowVars, workerVars, TypeOK, Roles, SerialInv, Serial,
           Requests, Gone, Status, OneMessage, NothingSent, NoMessage, RequestFits, PhaseFits, StoredFits
<1>7. ASSUME NEW c \in Requests, RequestLost(c) PROVE NothingSent'
    BY <1>7 DEF RequestLost, rowVars, workerVars, TypeOK, Roles, SerialInv, Serial, Requests,
           Gone, Status, OneMessage, NothingSent, NoMessage, RequestFits, PhaseFits, StoredFits
<1>8. ASSUME NEW c \in Requests, DeleteFile(c) PROVE NothingSent'
    BY <1>8 DEF DeleteFile, rowVars, workerVars, TypeOK, Roles, SerialInv, Serial, Requests,
           Gone, Status, OneMessage, NothingSent, NoMessage, RequestFits, PhaseFits, StoredFits
<1>9. ASSUME NEW c \in Requests, DeleteRow(c) PROVE NothingSent'
    BY <1>9 DEF DeleteRow, RowFree, rowVars, workerVars, TypeOK, Roles, SerialInv, Serial,
           Requests, Gone, Status, OneMessage, NothingSent, NoMessage, RequestFits, PhaseFits, StoredFits
<1>10. ASSUME NEW w \in Workers, Fetch(w) PROVE NothingSent'
    BY <1>10 DEF Fetch, Goto, OnlyWorker, rowVars, workerVars, TypeOK, Roles, SerialInv,
           Serial, Requests, Gone, Status, OneMessage, NothingSent, NoMessage, RequestFits, PhaseFits, StoredFits
<1>11. ASSUME NEW w \in Workers, BeginRead(w) PROVE NothingSent'
    BY <1>11 DEF BeginRead, ReadStatus, Refuses, GiveUp, Retry, Goto, Enqueue, Load,
           OnlyWorker, rowVars, workerVars, TypeOK, Roles, SerialInv, Serial, Requests, Gone, Status, OneMessage, NothingSent, NoMessage, RequestFits, PhaseFits, StoredFits
<1>12. ASSUME NEW w \in Workers, BeginWrite(w) PROVE NothingSent'
    BY <1>12 DEF BeginWrite, WriteStatus, RowFree, Retry, Goto, Enqueue, Load, rowVars,
           workerVars, TypeOK, Roles, SerialInv, Serial, Requests, Gone, Status, OneMessage, NothingSent, NoMessage, RequestFits, PhaseFits, StoredFits
<1>13. ASSUME NEW w \in Workers, Parse(w) PROVE NothingSent'
  <2>1. ~NoMessage
      BY <1>13, ParseAdvances DEF ParsePhase, NoMessage
  <2> QED BY <1>13, <2>1, ParseAdvances DEF SerialInv, NothingSent
<1>14. ASSUME NEW w \in Workers, EndRead(w) PROVE NothingSent'
    BY <1>14 DEF EndRead, ReadStatus, Refuses, GiveUp, Goto, Load, OnlyWorker, rowVars,
           workerVars, TypeOK, Roles, SerialInv, Serial, Requests, Gone, Status, OneMessage, NothingSent, NoMessage, RequestFits, PhaseFits, StoredFits
<1>15. ASSUME NEW w \in Workers, EndWrite(w) PROVE NothingSent'
    BY <1>15 DEF EndWrite, WriteStatus, RowFree, Retry, Goto, Enqueue, Load, rowVars,
           workerVars, TypeOK, Roles, SerialInv, Serial, Requests, Gone, Status, OneMessage, NothingSent, NoMessage, RequestFits, PhaseFits, StoredFits
<1>16. ASSUME NEW w \in Workers, FailRead(w) PROVE NothingSent'
    BY <1>16 DEF FailRead, ReadStatus, Refuses, GiveUp, Retry, Goto, Enqueue, Load,
           OnlyWorker, rowVars, workerVars, TypeOK, Roles, SerialInv, Serial, Requests, Gone, Status, OneMessage, NothingSent, NoMessage, RequestFits, PhaseFits, StoredFits
<1>17. ASSUME NEW w \in Workers, FailWrite(w) PROVE NothingSent'
    BY <1>17 DEF FailWrite, RowFree, Retry, Goto, Enqueue, Load, rowVars, workerVars, TypeOK,
           Roles, SerialInv, Serial, Requests, Gone, Status, OneMessage, NothingSent, NoMessage, RequestFits, PhaseFits, StoredFits
<1>18. ASSUME NEW w \in Workers, Persist(w) PROVE NothingSent'
    BY <1>18 DEF Persist, Goto, Retry, Enqueue, rowVars, workerVars, TypeOK, Roles, SerialInv,
           Serial, Requests, Gone, Status, OneMessage, NothingSent, NoMessage, RequestFits, PhaseFits, StoredFits
<1>19. ASSUME NEW w \in Workers, Ack(w) PROVE NothingSent'
    BY <1>19 DEF Ack, Goto, OnlyWorker, rowVars, workerVars, TypeOK, Roles, SerialInv, Serial,
           Requests, Gone, Status, OneMessage, NothingSent, NoMessage, RequestFits, PhaseFits, StoredFits
<1>20. ASSUME NEW w \in Workers, WorkerLost(w) PROVE NothingSent'
    BY <1>20 DEF WorkerLost, Goto, Enqueue, Load, rowVars, workerVars, TypeOK, Roles,
           SerialInv, Serial, Requests, Gone, Status, OneMessage, NothingSent, NoMessage, RequestFits, PhaseFits, StoredFits
<1>21. CASE UNCHANGED vars
    BY <1>21 DEF vars, rowVars, workerVars, TypeOK, Roles, SerialInv, Serial, Requests, Gone,
           Status, OneMessage, NothingSent, NoMessage, RequestFits, PhaseFits, StoredFits
<1> QED BY <1>1, <1>2, <1>3, <1>4, <1>5, <1>6, <1>7, <1>8, <1>9, <1>10, <1>11, <1>12, <1>13,
           <1>14, <1>15, <1>16, <1>17, <1>18, <1>19, <1>20, <1>21
        DEF Next, RequestStep, WorkerStep

(* What a request and a worker are at fits the status.                     *)
LEMMA RequestFitsStep ==
    ASSUME TypeOK, Roles, SerialInv, Serial, Serial', [Next]_vars PROVE RequestFits'
<1>1. CASE InitiateUpload
    BY <1>1 DEF InitiateUpload, rowVars, workerVars, TypeOK, Roles, SerialInv, Serial,
           Requests, Gone, Status, Allowed, ValidTransitions, NothingSent, NoMessage, RequestFits, PhaseFits
<1>2. CASE Upload
    BY <1>2 DEF Upload, rowVars, workerVars, TypeOK, Roles, SerialInv, Serial, Requests, Gone,
           Status, Allowed, ValidTransitions, NothingSent, NoMessage, RequestFits, PhaseFits
<1>3. ASSUME NEW c \in Requests, RequestRead(c) PROVE RequestFits'
    BY <1>3 DEF RequestRead, Load, rowVars, workerVars, TypeOK, Roles, SerialInv, Serial,
           Requests, Gone, Status, Allowed, ValidTransitions, NothingSent, NoMessage, RequestFits, PhaseFits
<1>4. ASSUME NEW c \in Requests, RequestSend(c) PROVE RequestFits'
    BY <1>4 DEF RequestSend, RowFree, Enqueue, rowVars, workerVars, TypeOK, Roles, SerialInv,
           Serial, Requests, Gone, Status, Allowed, ValidTransitions, NothingSent, NoMessage, RequestFits, PhaseFits
<1>5. ASSUME NEW c \in Requests, ArxivSend(c) PROVE RequestFits'
    BY <1>5 DEF ArxivSend, Enqueue, rowVars, workerVars, TypeOK, Roles, SerialInv, Serial,
           Requests, Gone, Status, Allowed, ValidTransitions, NothingSent, NoMessage, RequestFits, PhaseFits
<1>6. ASSUME NEW c \in Requests, RequestCommit(c) PROVE RequestFits'
    BY <1>6 DEF RequestCommit, rowVars, workerVars, TypeOK, Roles, SerialInv, Serial,
           Requests, Gone, Status, Allowed, ValidTransitions, NothingSent, NoMessage, RequestFits, PhaseFits
<1>7. ASSUME NEW c \in Requests, RequestLost(c) PROVE RequestFits'
    BY <1>7 DEF RequestLost, rowVars, workerVars, TypeOK, Roles, SerialInv, Serial, Requests,
           Gone, Status, Allowed, ValidTransitions, NothingSent, NoMessage, RequestFits, PhaseFits
<1>8. ASSUME NEW c \in Requests, DeleteFile(c) PROVE RequestFits'
    BY <1>8 DEF DeleteFile, rowVars, workerVars, TypeOK, Roles, SerialInv, Serial, Requests,
           Gone, Status, Allowed, ValidTransitions, NothingSent, NoMessage, RequestFits, PhaseFits
<1>9. ASSUME NEW c \in Requests, DeleteRow(c) PROVE RequestFits'
    BY <1>9 DEF DeleteRow, RowFree, rowVars, workerVars, TypeOK, Roles, SerialInv, Serial,
           Requests, Gone, Status, Allowed, ValidTransitions, NothingSent, NoMessage, RequestFits, PhaseFits
<1>10. ASSUME NEW w \in Workers, Fetch(w) PROVE RequestFits'
    BY <1>10 DEF Fetch, Goto, OnlyWorker, rowVars, workerVars, TypeOK, Roles, SerialInv,
           Serial, Requests, Gone, Status, Allowed, ValidTransitions, NothingSent, NoMessage, RequestFits, PhaseFits
<1>11. ASSUME NEW w \in Workers, BeginRead(w) PROVE RequestFits'
    BY <1>11 DEF BeginRead, ReadStatus, Refuses, GiveUp, Retry, Goto, Enqueue, Load,
           OnlyWorker, rowVars, workerVars, TypeOK, Roles, SerialInv, Serial, Requests, Gone, Status, Allowed, ValidTransitions, NothingSent, NoMessage, RequestFits, PhaseFits
<1>12. ASSUME NEW w \in Workers, BeginWrite(w) PROVE RequestFits'
    BY <1>12 DEF BeginWrite, WriteStatus, RowFree, Retry, Goto, Enqueue, Load, rowVars,
           workerVars, TypeOK, Roles, SerialInv, Serial, Requests, Gone, Status, Allowed, ValidTransitions, NothingSent, NoMessage, RequestFits, PhaseFits
<1>13. ASSUME NEW w \in Workers, Parse(w) PROVE RequestFits'
    BY <1>13, ParseAdvances DEF SerialInv, RequestFits
<1>14. ASSUME NEW w \in Workers, EndRead(w) PROVE RequestFits'
    BY <1>14 DEF EndRead, ReadStatus, Refuses, GiveUp, Goto, Load, OnlyWorker, rowVars,
           workerVars, TypeOK, Roles, SerialInv, Serial, Requests, Gone, Status, Allowed, ValidTransitions, NothingSent, NoMessage, RequestFits, PhaseFits
<1>15. ASSUME NEW w \in Workers, EndWrite(w) PROVE RequestFits'
    BY <1>15 DEF EndWrite, WriteStatus, RowFree, Retry, Goto, Enqueue, Load, rowVars,
           workerVars, TypeOK, Roles, SerialInv, Serial, Requests, Gone, Status, Allowed, ValidTransitions, NothingSent, NoMessage, RequestFits, PhaseFits
<1>16. ASSUME NEW w \in Workers, FailRead(w) PROVE RequestFits'
    BY <1>16 DEF FailRead, ReadStatus, Refuses, GiveUp, Retry, Goto, Enqueue, Load,
           OnlyWorker, rowVars, workerVars, TypeOK, Roles, SerialInv, Serial, Requests, Gone, Status, Allowed, ValidTransitions, NothingSent, NoMessage, RequestFits, PhaseFits
<1>17. ASSUME NEW w \in Workers, FailWrite(w) PROVE RequestFits'
    BY <1>17 DEF FailWrite, RowFree, Retry, Goto, Enqueue, Load, rowVars, workerVars, TypeOK,
           Roles, SerialInv, Serial, Requests, Gone, Status, Allowed, ValidTransitions, NothingSent, NoMessage, RequestFits, PhaseFits
<1>18. ASSUME NEW w \in Workers, Persist(w) PROVE RequestFits'
    BY <1>18 DEF Persist, Goto, Retry, Enqueue, rowVars, workerVars, TypeOK, Roles, SerialInv,
           Serial, Requests, Gone, Status, Allowed, ValidTransitions, NothingSent, NoMessage, RequestFits, PhaseFits
<1>19. ASSUME NEW w \in Workers, Ack(w) PROVE RequestFits'
    BY <1>19 DEF Ack, Goto, OnlyWorker, rowVars, workerVars, TypeOK, Roles, SerialInv, Serial,
           Requests, Gone, Status, Allowed, ValidTransitions, NothingSent, NoMessage, RequestFits, PhaseFits
<1>20. ASSUME NEW w \in Workers, WorkerLost(w) PROVE RequestFits'
    BY <1>20 DEF WorkerLost, Goto, Enqueue, Load, rowVars, workerVars, TypeOK, Roles,
           SerialInv, Serial, Requests, Gone, Status, Allowed, ValidTransitions, NothingSent, NoMessage, RequestFits, PhaseFits
<1>21. CASE UNCHANGED vars
    BY <1>21 DEF vars, rowVars, workerVars, TypeOK, Roles, SerialInv, Serial, Requests, Gone,
           Status, Allowed, ValidTransitions, NothingSent, NoMessage, RequestFits, PhaseFits
<1> QED BY <1>1, <1>2, <1>3, <1>4, <1>5, <1>6, <1>7, <1>8, <1>9, <1>10, <1>11, <1>12, <1>13,
           <1>14, <1>15, <1>16, <1>17, <1>18, <1>19, <1>20, <1>21
        DEF Next, RequestStep, WorkerStep

LEMMA PhaseFitsStep ==
    ASSUME TypeOK, Roles, SerialInv, Serial, Serial', [Next]_vars PROVE PhaseFits'
<1>1. CASE InitiateUpload
    BY <1>1 DEF InitiateUpload, rowVars, workerVars, TypeOK, Roles, SerialInv, Serial,
           Requests, Gone, Status, Allowed, ValidTransitions, OneMessage, NothingSent, NoMessage, RequestFits, PhaseFits
<1>2. CASE Upload
    BY <1>2 DEF Upload, rowVars, workerVars, TypeOK, Roles, SerialInv, Serial, Requests, Gone,
           Status, Allowed, ValidTransitions, OneMessage, NothingSent, NoMessage, RequestFits, PhaseFits
<1>3. ASSUME NEW c \in Requests, RequestRead(c) PROVE PhaseFits'
    BY <1>3 DEF RequestRead, Load, rowVars, workerVars, TypeOK, Roles, SerialInv, Serial,
           Requests, Gone, Status, Allowed, ValidTransitions, OneMessage, NothingSent, NoMessage, RequestFits, PhaseFits
<1>4. ASSUME NEW c \in Requests, RequestSend(c) PROVE PhaseFits'
    BY <1>4 DEF RequestSend, RowFree, Enqueue, rowVars, workerVars, TypeOK, Roles, SerialInv,
           Serial, Requests, Gone, Status, Allowed, ValidTransitions, OneMessage, NothingSent, NoMessage, RequestFits, PhaseFits
<1>5. ASSUME NEW c \in Requests, ArxivSend(c) PROVE PhaseFits'
    BY <1>5 DEF ArxivSend, Enqueue, rowVars, workerVars, TypeOK, Roles, SerialInv, Serial,
           Requests, Gone, Status, Allowed, ValidTransitions, OneMessage, NothingSent, NoMessage, RequestFits, PhaseFits
<1>6. ASSUME NEW c \in Requests, RequestCommit(c) PROVE PhaseFits'
    BY <1>6 DEF RequestCommit, rowVars, workerVars, TypeOK, Roles, SerialInv, Serial,
           Requests, Gone, Status, Allowed, ValidTransitions, OneMessage, NothingSent, NoMessage, RequestFits, PhaseFits
<1>7. ASSUME NEW c \in Requests, RequestLost(c) PROVE PhaseFits'
    BY <1>7 DEF RequestLost, rowVars, workerVars, TypeOK, Roles, SerialInv, Serial, Requests,
           Gone, Status, Allowed, ValidTransitions, OneMessage, NothingSent, NoMessage, RequestFits, PhaseFits
<1>8. ASSUME NEW c \in Requests, DeleteFile(c) PROVE PhaseFits'
    BY <1>8 DEF DeleteFile, rowVars, workerVars, TypeOK, Roles, SerialInv, Serial, Requests,
           Gone, Status, Allowed, ValidTransitions, OneMessage, NothingSent, NoMessage, RequestFits, PhaseFits
<1>9. ASSUME NEW c \in Requests, DeleteRow(c) PROVE PhaseFits'
    BY <1>9 DEF DeleteRow, RowFree, rowVars, workerVars, TypeOK, Roles, SerialInv, Serial,
           Requests, Gone, Status, Allowed, ValidTransitions, OneMessage, NothingSent, NoMessage, RequestFits, PhaseFits
<1>10. ASSUME NEW w \in Workers, Fetch(w) PROVE PhaseFits'
    BY <1>10 DEF Fetch, Goto, OnlyWorker, rowVars, workerVars, TypeOK, Roles, SerialInv,
           Serial, Requests, Gone, Status, Allowed, ValidTransitions, OneMessage, NothingSent, NoMessage, RequestFits, PhaseFits
<1>11. ASSUME NEW w \in Workers, BeginRead(w) PROVE PhaseFits'
    BY <1>11 DEF BeginRead, ReadStatus, Refuses, GiveUp, Retry, Goto, Enqueue, Load,
           OnlyWorker, rowVars, workerVars, TypeOK, Roles, SerialInv, Serial, Requests, Gone, Status, Allowed, ValidTransitions, OneMessage, NothingSent, NoMessage, RequestFits, PhaseFits
<1>12. ASSUME NEW w \in Workers, BeginWrite(w) PROVE PhaseFits'
    BY <1>12 DEF BeginWrite, WriteStatus, RowFree, Retry, Goto, Enqueue, Load, rowVars,
           workerVars, TypeOK, Roles, SerialInv, Serial, Requests, Gone, Status, Allowed, ValidTransitions, OneMessage, NothingSent, NoMessage, RequestFits, PhaseFits
<1>13. ASSUME NEW w \in Workers, Parse(w) PROVE PhaseFits'
  <2>1. PICK next \in (ParsePhase \ {"parse"}) \cup {"end", "fail"} :
          /\ Goto(w, next)
          /\ phase[w] = "parse" /\ status \in Gone => next = "fail"
      BY <1>13, ParseAdvances
  <2>2. phase[w] \in ParsePhase /\ status' = status
      BY <1>13, ParseAdvances
  <2>3. status # "uploading" /\ (status = "absent" => next = "fail")
      BY <2>1, <2>2 DEF SerialInv, PhaseFits, ParsePhase, Gone
  <2> QED BY <2>1, <2>2, <2>3 DEF Goto, TypeOK, SerialInv, PhaseFits, ParsePhase
<1>14. ASSUME NEW w \in Workers, EndRead(w) PROVE PhaseFits'
  <2>1. CASE Allowed(status, "completed") /\ Goto(w, "end_write") /\ OnlyWorker
    <3>1. status = "parsing"
        BY <2>1 DEF Allowed, ValidTransitions
    <3> QED BY <2>1, <3>1 DEF OnlyWorker, rowVars, Goto, SerialInv, PhaseFits, TypeOK
  <2>2. CASE status \in Gone /\ Goto(w, "persist")
    <3>1. status = "deleted"
        BY <1>14, <2>2 DEF EndRead, Gone, SerialInv, PhaseFits
    <3> QED BY <1>14, <2>2, <3>1 DEF EndRead, ReadStatus, OnlyWorker, rowVars, Goto,
           SerialInv, PhaseFits, TypeOK
  <2>3. CASE Refuses("completed") /\ Goto(w, "fail") /\ OnlyWorker
    <3>1. status # "uploading"
        BY <1>14 DEF EndRead, SerialInv, PhaseFits
    <3> QED BY <2>3, <3>1 DEF OnlyWorker, rowVars, Goto, SerialInv, PhaseFits, TypeOK
  <2> QED BY <1>14, <2>1, <2>2, <2>3 DEF EndRead, ReadStatus
<1>15. ASSUME NEW w \in Workers, EndWrite(w) PROVE PhaseFits'
    BY <1>15 DEF EndWrite, WriteStatus, RowFree, Retry, Goto, Enqueue, Load, rowVars,
           workerVars, TypeOK, Roles, SerialInv, Serial, Requests, Gone, Status, Allowed, ValidTransitions, OneMessage, NothingSent, NoMessage, RequestFits, PhaseFits
<1>16. ASSUME NEW w \in Workers, FailRead(w) PROVE PhaseFits'
    BY <1>16 DEF FailRead, ReadStatus, Refuses, GiveUp, Retry, Goto, Enqueue, Load,
           OnlyWorker, rowVars, workerVars, TypeOK, Roles, SerialInv, Serial, Requests, Gone, Status, Allowed, ValidTransitions, OneMessage, NothingSent, NoMessage, RequestFits, PhaseFits
<1>17. ASSUME NEW w \in Workers, FailWrite(w) PROVE PhaseFits'
    BY <1>17 DEF FailWrite, RowFree, Retry, Goto, Enqueue, Load, rowVars, workerVars, TypeOK,
           Roles, SerialInv, Serial, Requests, Gone, Status, Allowed, ValidTransitions, OneMessage, NothingSent, NoMessage, RequestFits, PhaseFits
<1>18. ASSUME NEW w \in Workers, Persist(w) PROVE PhaseFits'
    BY <1>18 DEF Persist, Goto, Retry, Enqueue, rowVars, workerVars, TypeOK, Roles, SerialInv,
           Serial, Requests, Gone, Status, Allowed, ValidTransitions, OneMessage, NothingSent, NoMessage, RequestFits, PhaseFits
<1>19. ASSUME NEW w \in Workers, Ack(w) PROVE PhaseFits'
    BY <1>19 DEF Ack, Goto, OnlyWorker, rowVars, workerVars, TypeOK, Roles, SerialInv, Serial,
           Requests, Gone, Status, Allowed, ValidTransitions, OneMessage, NothingSent, NoMessage, RequestFits, PhaseFits
<1>20. ASSUME NEW w \in Workers, WorkerLost(w) PROVE PhaseFits'
    BY <1>20 DEF WorkerLost, Goto, Enqueue, Load, rowVars, workerVars, TypeOK, Roles,
           SerialInv, Serial, Requests, Gone, Status, Allowed, ValidTransitions, OneMessage, NothingSent, NoMessage, RequestFits, PhaseFits
<1>21. CASE UNCHANGED vars
    BY <1>21 DEF vars, rowVars, workerVars, TypeOK, Roles, SerialInv, Serial, Requests, Gone,
           Status, Allowed, ValidTransitions, OneMessage, NothingSent, NoMessage, RequestFits, PhaseFits
<1> QED BY <1>1, <1>2, <1>3, <1>4, <1>5, <1>6, <1>7, <1>8, <1>9, <1>10, <1>11, <1>12, <1>13,
           <1>14, <1>15, <1>16, <1>17, <1>18, <1>19, <1>20, <1>21
        DEF Next, RequestStep, WorkerStep

(* What is stored is stored once, by the only message.                     *)
LEMMA StoredFitsStep ==
    ASSUME TypeOK, Roles, SerialInv, Serial, Serial', [Next]_vars PROVE StoredFits'
<1>1. CASE InitiateUpload
    BY <1>1 DEF InitiateUpload, rowVars, workerVars, TypeOK, Roles, SerialInv, Serial,
           Requests, Gone, Status, Allowed, ValidTransitions, OneMessage, NothingSent, NoMessage, RequestFits, PhaseFits, StoredFits
<1>2. CASE Upload
    BY <1>2 DEF Upload, rowVars, workerVars, TypeOK, Roles, SerialInv, Serial, Requests, Gone,
           Status, Allowed, ValidTransitions, OneMessage, NothingSent, NoMessage, RequestFits, PhaseFits, StoredFits
<1>3. ASSUME NEW c \in Requests, RequestRead(c) PROVE StoredFits'
    BY <1>3 DEF RequestRead, Load, rowVars, workerVars, TypeOK, Roles, SerialInv, Serial,
           Requests, Gone, Status, Allowed, ValidTransitions, OneMessage, NothingSent, NoMessage, RequestFits, PhaseFits, StoredFits
<1>4. ASSUME NEW c \in Requests, RequestSend(c) PROVE StoredFits'
    BY <1>4 DEF RequestSend, RowFree, Enqueue, rowVars, workerVars, TypeOK, Roles, SerialInv,
           Serial, Requests, Gone, Status, Allowed, ValidTransitions, OneMessage, NothingSent, NoMessage, RequestFits, PhaseFits, StoredFits
<1>5. ASSUME NEW c \in Requests, ArxivSend(c) PROVE StoredFits'
    BY <1>5 DEF ArxivSend, Enqueue, rowVars, workerVars, TypeOK, Roles, SerialInv, Serial,
           Requests, Gone, Status, Allowed, ValidTransitions, OneMessage, NothingSent, NoMessage, RequestFits, PhaseFits, StoredFits
<1>6. ASSUME NEW c \in Requests, RequestCommit(c) PROVE StoredFits'
    BY <1>6 DEF RequestCommit, rowVars, workerVars, TypeOK, Roles, SerialInv, Serial,
           Requests, Gone, Status, Allowed, ValidTransitions, OneMessage, NothingSent, NoMessage, RequestFits, PhaseFits, StoredFits
<1>7. ASSUME NEW c \in Requests, RequestLost(c) PROVE StoredFits'
    BY <1>7 DEF RequestLost, rowVars, workerVars, TypeOK, Roles, SerialInv, Serial, Requests,
           Gone, Status, Allowed, ValidTransitions, OneMessage, NothingSent, NoMessage, RequestFits, PhaseFits, StoredFits
<1>8. ASSUME NEW c \in Requests, DeleteFile(c) PROVE StoredFits'
    BY <1>8 DEF DeleteFile, rowVars, workerVars, TypeOK, Roles, SerialInv, Serial, Requests,
           Gone, Status, Allowed, ValidTransitions, OneMessage, NothingSent, NoMessage, RequestFits, PhaseFits, StoredFits
<1>9. ASSUME NEW c \in Requests, DeleteRow(c) PROVE StoredFits'
    BY <1>9 DEF DeleteRow, RowFree, rowVars, workerVars, TypeOK, Roles, SerialInv, Serial,
           Requests, Gone, Status, Allowed, ValidTransitions, OneMessage, NothingSent, NoMessage, RequestFits, PhaseFits, StoredFits
<1>10. ASSUME NEW w \in Workers, Fetch(w) PROVE StoredFits'
    BY <1>10 DEF Fetch, Goto, OnlyWorker, rowVars, workerVars, TypeOK, Roles, SerialInv,
           Serial, Requests, Gone, Status, Allowed, ValidTransitions, OneMessage, NothingSent, NoMessage, RequestFits, PhaseFits, StoredFits
<1>11. ASSUME NEW w \in Workers, BeginRead(w) PROVE StoredFits'
    BY <1>11 DEF BeginRead, ReadStatus, Refuses, GiveUp, Retry, Goto, Enqueue, Load,
           OnlyWorker, rowVars, workerVars, TypeOK, Roles, SerialInv, Serial, Requests, Gone, Status, Allowed, ValidTransitions, OneMessage, NothingSent, NoMessage, RequestFits, PhaseFits, StoredFits
<1>12. ASSUME NEW w \in Workers, BeginWrite(w) PROVE StoredFits'
    BY <1>12 DEF BeginWrite, WriteStatus, RowFree, Retry, Goto, Enqueue, Load, rowVars,
           workerVars, TypeOK, Roles, SerialInv, Serial, Requests, Gone, Status, Allowed, ValidTransitions, OneMessage, NothingSent, NoMessage, RequestFits, PhaseFits, StoredFits
<1>13. ASSUME NEW w \in Workers, Parse(w) PROVE StoredFits'
  <2>1. ~(stored > 0)
      BY <1>13, ParseAdvances DEF SerialInv, StoredFits, ParsePhase
  <2> QED BY <1>13, <2>1, ParseAdvances DEF StoredFits
<1>14. ASSUME NEW w \in Workers, EndRead(w) PROVE StoredFits'
    BY <1>14 DEF EndRead, ReadStatus, Refuses, GiveUp, Goto, Load, OnlyWorker, rowVars,
           workerVars, TypeOK, Roles, SerialInv, Serial, Requests, Gone, Status, Allowed, ValidTransitions, OneMessage, NothingSent, NoMessage, RequestFits, PhaseFits, StoredFits
<1>15. ASSUME NEW w \in Workers, EndWrite(w) PROVE StoredFits'
    BY <1>15 DEF EndWrite, WriteStatus, RowFree, Retry, Goto, Enqueue, Load, rowVars,
           workerVars, TypeOK, Roles, SerialInv, Serial, Requests, Gone, Status, Allowed, ValidTransitions, OneMessage, NothingSent, NoMessage, RequestFits, PhaseFits, StoredFits
<1>16. ASSUME NEW w \in Workers, FailRead(w) PROVE StoredFits'
  <2>1. stored = 0
    <3>1. phase[w] = "fail"
        BY <1>16 DEF FailRead
    <3>2. ~(stored > 0)
        BY <3>1 DEF SerialInv, StoredFits
    <3> QED BY <3>2 DEF TypeOK
  <2>2. stored' = stored
      BY <1>16 DEF FailRead, ReadStatus, GiveUp, OnlyWorker, rowVars
  <2> QED BY <2>1, <2>2 DEF StoredFits
<1>17. ASSUME NEW w \in Workers, FailWrite(w) PROVE StoredFits'
    BY <1>17 DEF FailWrite, RowFree, Retry, Goto, Enqueue, Load, rowVars, workerVars, TypeOK,
           Roles, SerialInv, Serial, Requests, Gone, Status, Allowed, ValidTransitions, OneMessage, NothingSent, NoMessage, RequestFits, PhaseFits, StoredFits
<1>18. ASSUME NEW w \in Workers, Persist(w) PROVE StoredFits'
  <2>1. stored = 0
    <3>1. phase[w] = "persist"
        BY <1>18 DEF Persist
    <3>2. ~(stored > 0)
        BY <3>1 DEF SerialInv, StoredFits
    <3> QED BY <3>2 DEF TypeOK
  <2>2. CASE stored' = stored
      BY <2>1, <2>2 DEF StoredFits
  <2>3. CASE status \notin Gone /\ stored' = stored + 1 /\ Goto(w, "ack")
    <3>1. status = "completed" /\ UNCHANGED <<status, request>>
        BY <1>18, <2>3 DEF Persist, SerialInv, PhaseFits, Gone
    <3>2. \A v \in Workers \ {w} : phase[v] = "idle"
        BY <1>18 DEF Persist, SerialInv, OneMessage
    <3>3. \A v \in Workers : phase'[v] \in {"idle", "ack"}
        BY <2>3, <3>2 DEF Goto, TypeOK
    <3>4. \E c \in Requests \ Deletes : request[c] \notin {"none", "read"}
        BY <1>18 DEF Persist, SerialInv, NothingSent, NoMessage
    <3>5. \A c \in Requests \ Deletes : request[c] \in {"none", "done"}
        BY <3>1, <3>4 DEF Serial, SerialInv, RequestFits, Roles, TypeOK, Requests
    <3> QED BY <2>1, <2>3, <3>1, <3>3, <3>5 DEF StoredFits
  <2> QED BY <1>18, <2>2, <2>3 DEF Persist
<1>19. ASSUME NEW w \in Workers, Ack(w) PROVE StoredFits'
    BY <1>19 DEF Ack, Goto, OnlyWorker, rowVars, workerVars, TypeOK, Roles, SerialInv, Serial,
           Requests, Gone, Status, Allowed, ValidTransitions, OneMessage, NothingSent, NoMessage, RequestFits, PhaseFits, StoredFits
<1>20. ASSUME NEW w \in Workers, WorkerLost(w) PROVE StoredFits'
    BY <1>20 DEF WorkerLost, Goto, Enqueue, Load, rowVars, workerVars, TypeOK, Roles,
           SerialInv, Serial, Requests, Gone, Status, Allowed, ValidTransitions, OneMessage, NothingSent, NoMessage, RequestFits, PhaseFits, StoredFits
<1>21. CASE UNCHANGED vars
    BY <1>21 DEF vars, rowVars, workerVars, TypeOK, Roles, SerialInv, Serial, Requests, Gone,
           Status, Allowed, ValidTransitions, OneMessage, NothingSent, NoMessage, RequestFits, PhaseFits, StoredFits
<1> QED BY <1>1, <1>2, <1>3, <1>4, <1>5, <1>6, <1>7, <1>8, <1>9, <1>10, <1>11, <1>12, <1>13,
           <1>14, <1>15, <1>16, <1>17, <1>18, <1>19, <1>20, <1>21
        DEF Next, RequestStep, WorkerStep

LEMMA SerialStep ==
    ASSUME TypeOK, Roles, Serial => SerialInv, [Next]_vars PROVE (Serial => SerialInv)'
<1> SUFFICES ASSUME Serial' PROVE SerialInv'
    OBVIOUS
<1>1. Serial /\ SerialInv
    BY SerialBefore
<1> QED BY <1>1, OneMessageStep, NothingSentStep, RequestFitsStep, PhaseFitsStep, StoredFitsStep
        DEF SerialInv

-----------------------------------------------------------------------------
LEMMA InitDInv == Init => DInv
<1> SUFFICES ASSUME Init PROVE DInv
    OBVIOUS
<1>1. TypeOK
  <2>1. loaded \in [Requests \cup Workers -> Status \cup {"unread"}]
      BY DEF Init
  <2>2. /\ queue \in [0..MaxRetries -> Nat] /\ tries \in [Workers -> 0..MaxRetries]
        /\ crashes \in 0..MaxCrashes /\ phase \in [Workers -> Phase]
      BY DEF Init, Phase
  <2> QED BY <2>1, <2>2 DEF Init, TypeOK, Gone
<1>2. SerialInv
    BY DEF Init, SerialInv, OneMessage, NothingSent, NoMessage, RequestFits, PhaseFits,
           StoredFits
<1> QED BY <1>1, <1>2 DEF Init, DInv, Roles, NoOrphanContent, Requests

(* The inductive invariant of the ingestion: types, roles, content and, as *)
(* long as the document was submitted once, where its one message can be   *)
(* (document_service.py, ingest_document.py, parse_document.py).           *)
THEOREM IngestionInvariance == Spec => []DInv
<1>1. DInv /\ [Next]_vars => DInv'
    BY TypeStep, RolesStep, OrphanStep, SerialStep DEF DInv
<1> QED BY InitDInv, <1>1, PTL DEF Spec

(* However often the message of a document that was submitted once is      *)
(* retried or delivered again, by however many workers, its content is     *)
(* stored once (update_parse_status, run_parse_pipeline).                  *)
THEOREM StoresOnce == Spec => []StoredOnce
<1>1. DInv => StoredOnce
    BY DEF DInv, TypeOK, SerialInv, StoredFits, StoredOnce
<1> QED BY IngestionInvariance, <1>1, PTL

(* No content outlives its document, however a delete and the stages of    *)
(* the task interleave (delete_document, _persist_classified_content).     *)
THEOREM NoOrphans == Spec => []NoOrphanContent
<1>1. DInv => NoOrphanContent
    BY DEF DInv
<1> QED BY IngestionInvariance, <1>1, PTL
=============================================================================
