------------------------------ MODULE Workbench ------------------------------
(***************************************************************************)
(* The chat page of the browser application over the endpoints of a run:   *)
(* features/workbench/WorkbenchPage.tsx with the hooks useSSE, useThreads  *)
(* and useThread, the store useAgentStore and the card of an interrupt, and*)
(* what backend/api/routers/agent.py answers them.  RunLifecycle models the*)
(* server in detail; here a run is its row, its task and its queue.        *)
(*                                                                         *)
(* JavaScript runs to completion: one action is a handler up to its next   *)
(* await, or what one render does with its effects.  A click sends a       *)
(* request in a slot; what it does at the server and what comes back of it *)
(* are steps of their own.                                                 *)
(***************************************************************************)
EXTENDS Naturals, Sequences, FiniteSets, FiniteSetsExt

CONSTANTS Threads,       \* threads of the workspace
          Existing,      \* those that exist at the start
          Slots,         \* requests the page can have under way
          MAX_RETRIES,   \* of useSSE
          MaxRuns,       \* bound on the rows of run_snapshots
          MaxActs        \* bound on what the user does

ASSUME WorkbenchAssumption ==
    /\ Existing \subseteq Threads /\ "none" \notin Threads
    /\ MAX_RETRIES \in Nat /\ MaxRuns \in Nat \ {0} /\ MaxActs \in Nat

VARIABLES threads,     \* threads that exist
          runs,        \* the run of each row, in the order of their creation
          request,     \* what a slot is used for
          fetch,       \* queries under way
          cached,      \* what TanStack Query holds of a thread
          thread,      \* threadId, from the URL
          activeRun,   \* activeRunId
          card,        \* interrupt of the store
          streaming,   \* isStreaming
          es,          \* the EventSource of useSSE
          retries,     \* retryCountRef
          told,        \* runs whose resume the page knows to have succeeded
          acts         \* what the user did so far, counted

server == <<threads, runs>>
queries == <<fetch, cached>>
view == <<thread, activeRun, card, streaming, es, retries>>
chatVars == <<server, request, queries, view, told, acts>>

NoThread == "none"
NoRun == 0
NoCard == [run |-> NoRun]
NoStream == [at |-> "none"]
NoFetch == [at |-> "none"]
Idle == [kind |-> "idle"]
Unknown == [active |-> NoRun, pending |-> NoRun]

Last(t) == Max({r \in DOMAIN runs : runs[r].thread = t} \cup {NoRun})

(* get_thread: active_run_id, the last row that says "running".            *)
ActiveRow(t) ==
    Max({r \in DOMAIN runs : runs[r].thread = t /\ runs[r].row = "running"} \cup {NoRun})

(* get_thread_messages: pending_interrupt, if the last row says so.        *)
PendingRow(t) ==
    IF Last(t) # NoRun /\ runs[Last(t)].row = "interrupted" THEN Last(t) ELSE NoRun

(* The page opens a thread whose last run waits at an interrupt.           *)
ChatInit ==
    /\ threads = Existing
    /\ thread \in Existing
    /\ runs = <<[thread |-> thread, row |-> "interrupted", queue |-> "gone"]>>
    /\ request = [m \in Slots |-> Idle]
    /\ fetch = [t \in Threads |-> IF t = thread THEN [at |-> "sent"] ELSE NoFetch]
    /\ cached = [t \in Threads |-> Unknown]
    /\ activeRun = NoRun /\ card = NoCard
    /\ streaming = FALSE
    /\ es = NoStream
    /\ retries = 0
    /\ told = {}
    /\ acts = 0

-----------------------------------------------------------------------------
(* The effects of a render.                                                *)

(* The finally clause of a stream: _determine_terminal_status.             *)
Saved(r, saw) ==
    [runs EXCEPT ![r].row = IF @ = "cancelled" THEN @ ELSE IF saw THEN "interrupted" ELSE "completed"]

(* A stream that is left before its end runs it too, if the server knew of *)
(* the stream.                                                             *)
LeaveStream ==
    \/ UNCHANGED runs
    \/ es # NoStream /\ es.at = "open" /\ runs' = Saved(es.run, es.saw)

Stream(t, r) ==
    IF t = NoThread \/ r = NoRun THEN NoStream
    ELSE [thread |-> t, run |-> r, at |-> "open", saw |-> FALSE]

OpenStream(t, r) ==
    /\ es' = Stream(t, r)
    /\ streaming' = (es' # NoStream)
    /\ LeaveStream

(* useSSE: a change of threadId or runId closes the stream and opens that  *)
(* of the new pair; the count of retries stays.                            *)
Follow(t, r) ==
    LET new == Stream(t, r)
        same == IF new = NoStream THEN es = NoStream
                ELSE es # NoStream /\ es.thread = t /\ es.run = r
    IN  /\ activeRun' = r
        /\ IF same THEN UNCHANGED <<es, streaming, runs>> ELSE OpenStream(t, r)

(* With no active run the page takes up the one that c, the cache, knows.  *)
Restored(t, r, c) == IF r = NoRun /\ t # NoThread THEN c[t].active ELSE r

(* The pending interrupt that c holds of the thread is shown if the store  *)
(* has none.                                                               *)
RestoreCard(t, old, c) ==
    card' = IF t # NoThread /\ old = NoCard /\ c[t].pending # NoRun
            THEN [run |-> c[t].pending, thread |-> t, from |-> "cache"] ELSE old

(* A thread the page turns to is queried, unless it is already.            *)
Refetch(t) ==
    fetch' = IF t = NoThread \/ fetch[t] # NoFetch THEN fetch
             ELSE [fetch EXCEPT ![t] = [at |-> "sent"]]

-----------------------------------------------------------------------------
(* The user.                                                               *)

Act == acts < MaxActs /\ acts' = acts + 1

(* Broken: the run of the other thread stays the active one.               *)
SwitchKeepsRun(t) ==
    /\ t # thread
    /\ Act
    /\ thread' = t
    /\ Follow(t, Restored(t, activeRun, cached))
    /\ RestoreCard(t, NoCard, cached)
    /\ Refetch(t)
    /\ UNCHANGED <<threads, request, cached, retries, told>>

(* The thread list changes the URL: the store is reset.                    *)
SwitchThread(t) ==
    /\ t # thread
    /\ Act
    /\ thread' = t
    /\ Follow(t, Restored(t, NoRun, cached))
    /\ RestoreCard(t, NoCard, cached)
    /\ Refetch(t)
    /\ UNCHANGED <<threads, request, cached, retries, told>>

Ask(m, kind, t, of, page) ==
    request' = [request EXCEPT ![m] =
                  [kind |-> kind, thread |-> t, of |-> of, page |-> page,
                   run |-> NoRun, at |-> "sent"]]

(* handleSendMessage, while the input is not disabled; a page without a    *)
(* thread creates one first.                                               *)
SendMessage(m) ==
    /\ Act /\ request[m] = Idle /\ ~streaming
    /\ Ask(m, IF thread = NoThread THEN "create" ELSE "run", thread, NoRun, thread)
    /\ card' = NoCard
    /\ UNCHANGED <<server, queries, thread, activeRun, streaming, es, retries, told>>

(* handleResumeInterrupt: nothing keeps the user from a second click.      *)
ResumeInterrupt(m) ==
    /\ Act /\ request[m] = Idle /\ card # NoCard
    /\ Ask(m, "resume", card.thread, card.run, thread)
    /\ UNCHANGED <<server, queries, view, told>>

(* handleCancelRun: the button is there while the page streams.            *)
CancelRun(m) ==
    /\ Act /\ request[m] = Idle /\ streaming /\ thread # NoThread /\ activeRun # NoRun
    /\ Ask(m, "cancel", thread, activeRun, thread)
    /\ UNCHANGED <<server, queries, view, told>>

-----------------------------------------------------------------------------
(* The server.                                                             *)
NewRun(t) == [thread |-> t, row |-> "running", queue |-> "busy"]

Sent(m, kinds) == request[m].kind \in kinds /\ request[m].at = "sent"

(* create_thread.                                                          *)
CreateThread(m, t) ==
    /\ Sent(m, {"create"}) /\ t \notin threads
    /\ threads' = threads \cup {t}
    /\ request' = [request EXCEPT ![m].at = "applied", ![m].thread = t]
    /\ UNCHANGED <<runs, queries, view, told, acts>>

(* create_run and resume_run start a task and a queue for a new row; the   *)
(* state of the run that is resumed is not looked at.                      *)
StartRun(m) ==
    /\ Sent(m, {"run", "resume"})
    /\ Len(runs) < MaxRuns
    /\ runs' = Append(runs, NewRun(request[m].thread))
    /\ request' = [request EXCEPT ![m].at = "applied", ![m].run = Len(runs) + 1]
    /\ UNCHANGED <<threads, queries, view, told, acts>>

(* cancel_run: the task is stopped and its handle dropped.                 *)
StopRun(m) ==
    /\ Sent(m, {"cancel"})
    /\ runs' = [runs EXCEPT ![request[m].of] = [@ EXCEPT !.row = "cancelled", !.queue = "gone"]]
    /\ request' = [request EXCEPT ![m].at = "applied"]
    /\ UNCHANGED <<threads, queries, view, told, acts>>

(* The task of a run ends, or stops at an interrupt.                       *)
TaskEnds(r) ==
    /\ runs[r].queue = "busy"
    /\ \E q \in {"over", "asks"} : runs' = [runs EXCEPT ![r].queue = q]
    /\ UNCHANGED <<threads, request, queries, view, told, acts>>

(* handleSSEEvent, of a run_end.                                           *)
RunEnd == streaming' = FALSE

(* A stream comes to the end of its queue, or finds none; the page hears   *)
(* run_end.                                                                *)
StreamEnds ==
    /\ es # NoStream /\ es.at = "open"
    /\ runs[es.run].queue \in {"over", "gone"}
    /\ runs' = [Saved(es.run, es.saw) EXCEPT ![es.run].queue = "gone"]
    /\ es' = [es EXCEPT !.at = "closed"]
    /\ RunEnd
    /\ retries' = 0
    /\ UNCHANGED <<threads, request, queries, thread, activeRun, card, told, acts>>

-----------------------------------------------------------------------------
(* The EventSource.                                                        *)
StreamOnly == UNCHANGED <<threads, request, queries, thread, activeRun, told, acts>>

(* onmessage, handleSSEEvent: the events of a run that executes.  The start*)
(* of a node says that it streams, the others leave that as it is.         *)
EventArrives ==
    /\ es.at = "open" /\ runs[es.run].queue = "busy"
    /\ streaming' \in {streaming, TRUE}
    /\ retries' = 0
    /\ UNCHANGED <<runs, card, es>> /\ StreamOnly

InterruptArrives ==
    /\ es.at = "open" /\ runs[es.run].queue = "asks"
    /\ runs' = [runs EXCEPT ![es.run].queue = "over"]
    /\ es' = [es EXCEPT !.saw = TRUE]
    /\ card' = [run |-> es.run, thread |-> runs[es.run].thread, from |-> "stream"]
    /\ streaming' = FALSE
    /\ retries' = 0
    /\ StreamOnly

(* Broken: the page gives up without saying so.                            *)
ConnectionLostSilently ==
    /\ es.at = "open"
    /\ LeaveStream
    /\ IF retries < MAX_RETRIES
       THEN retries' = retries + 1 /\ es' = [es EXCEPT !.at = "backoff"]
       ELSE es' = [es EXCEPT !.at = "closed"] /\ UNCHANGED retries
    /\ UNCHANGED <<card, streaming>> /\ StreamOnly

(* onerror: the stream is closed and opened again later, or given up.      *)
ConnectionLost ==
    /\ es.at = "open"
    /\ LeaveStream
    /\ IF retries < MAX_RETRIES
       THEN retries' = retries + 1 /\ es' = [es EXCEPT !.at = "backoff"] /\ UNCHANGED streaming
       ELSE streaming' = FALSE /\ es' = [es EXCEPT !.at = "closed"] /\ UNCHANGED retries
    /\ UNCHANGED <<card>> /\ StreamOnly

Reconnects ==
    /\ es.at = "backoff"
    /\ es' = [es EXCEPT !.at = "open", !.saw = FALSE]
    /\ streaming' = TRUE
    /\ UNCHANGED <<runs, card, retries>> /\ StreamOnly

-----------------------------------------------------------------------------
(* The answers.                                                            *)
Applied(m, kind) == request[m].kind = kind /\ request[m].at = "applied"
Done(m) == request' = [request EXCEPT ![m] = Idle]

(* createThread answers: the URL becomes that of the thread, without a     *)
(* reset (justCreatedRef), and the run is created.                         *)
ThreadCreated(m) ==
    /\ Applied(m, "create")
    /\ LET t == request[m].thread IN
       /\ thread' = t
       /\ Follow(t, Restored(t, activeRun, cached))
       /\ Refetch(t)
       /\ Ask(m, "run", t, NoRun, t)
    /\ UNCHANGED <<threads, cached, card, retries, told, acts>>

RunCreated(m) ==
    /\ Applied(m, "run")
    /\ Follow(thread, request[m].run)
    /\ Done(m)
    /\ UNCHANGED <<threads, queries, thread, card, retries, told, acts>>

(* Broken: the card is left to the next event.                             *)
ResumedKeepsCard(m) ==
    /\ Applied(m, "resume")
    /\ told' = told \cup {request[m].of}
    /\ Follow(thread, request[m].run)
    /\ Done(m)
    /\ UNCHANGED <<threads, queries, thread, card, retries, acts>>

(* handleResumeInterrupt goes on: the card goes, whichever it is, and the  *)
(* new run is followed.                                                    *)
Resumed(m) ==
    /\ Applied(m, "resume")
    /\ card' = NoCard
    /\ told' = told \cup {request[m].of}
    /\ Follow(thread, request[m].run)
    /\ Done(m)
    /\ UNCHANGED <<threads, queries, thread, retries, acts>>

(* Its finally clause runs whether the cancel succeeded or not.            *)
Cancelled(m) ==
    /\ request[m].kind = "cancel"
    /\ activeRun' = Restored(thread, NoRun, cached)
    /\ OpenStream(thread, activeRun')
    /\ Done(m)
    /\ UNCHANGED <<threads, queries, thread, card, retries, told, acts>>

(* The request or its answer is lost: a card stays.                        *)
RequestFails(m) ==
    /\ request[m].kind \in {"create", "run", "resume"}
    /\ Done(m)
    /\ UNCHANGED <<server, queries, view, told, acts>>

(* useThread and useMessages, which are asked together: the rows are read, *)
(* and the answer comes later; what is new in it is shown if the page is   *)
(* at its thread.                                                          *)
QueryReads(t) ==
    /\ fetch[t].at = "sent"
    /\ fetch' = [fetch EXCEPT ![t] =
                   [at |-> "read", data |-> [active |-> ActiveRow(t),
                                             pending |-> PendingRow(t)]]]
    /\ UNCHANGED <<server, request, cached, view, told, acts>>

QueryArrives(t) ==
    /\ fetch[t].at = "read"
    /\ fetch' = [fetch EXCEPT ![t] = NoFetch]
    /\ cached' = [cached EXCEPT ![t] = fetch[t].data]
    /\ IF t = thread /\ cached' # cached
       THEN /\ Follow(t, Restored(t, activeRun, cached'))
            /\ RestoreCard(t, card, cached')
       ELSE UNCHANGED <<activeRun, es, streaming, runs, card>>
    /\ UNCHANGED <<threads, request, thread, retries, told, acts>>

-----------------------------------------------------------------------------
StreamStep ==
    /\ es # NoStream
    /\ EventArrives \/ InterruptArrives \/ ConnectionLost \/ Reconnects

AnswerArrives(m) ==
    ThreadCreated(m) \/ RunCreated(m) \/ Resumed(m) \/ Cancelled(m) \/ RequestFails(m)

ChatNext ==
    \/ \E t \in threads \cup {NoThread} : SwitchThread(t)
    \/ \E m \in Slots : \/ SendMessage(m) \/ ResumeInterrupt(m) \/ CancelRun(m)
                        \/ StartRun(m) \/ StopRun(m) \/ AnswerArrives(m)
                        \/ \E t \in Threads : CreateThread(m, t)
    \/ \E r \in DOMAIN runs : TaskEnds(r)
    \/ StreamEnds
    \/ StreamStep
    \/ \E t \in threads : QueryReads(t) \/ QueryArrives(t)

(* A task ends, a stream whose queue is drained ends, a connection is made *)
(* or fails and a timer fires; nothing is owed by the user.                *)
ChatFairness ==
    /\ \A r \in 1..MaxRuns : WF_chatVars(r \in DOMAIN runs /\ TaskEnds(r))
    /\ WF_chatVars(StreamEnds)
    /\ WF_chatVars(es # NoStream /\ InterruptArrives)
    /\ WF_chatVars(es # NoStream /\ Reconnects)

ChatSpec == ChatInit /\ [][ChatNext]_chatVars /\ ChatFairness

-----------------------------------------------------------------------------
(* Correctness.                                                            *)
RunIds == 1..MaxRuns

ChatTypeOK ==
    /\ threads \subseteq Threads
    /\ Len(runs) <= MaxRuns
    /\ told \subseteq RunIds
    /\ thread \in threads \cup {NoThread}
    /\ activeRun \in DOMAIN runs \cup {NoRun}
    /\ streaming \in BOOLEAN
    /\ retries \in 0..MAX_RETRIES

(* The page shows the card, or follows the run, of another thread.         *)
Foreign ==
    \/ activeRun # NoRun /\ runs[activeRun].thread # thread
    \/ card # NoCard /\ card.thread # thread

(* An answer arrives to a click that was made in, or about, another thread.*)
LateAnswer ==
    \E m \in Slots : /\ request[m] # Idle /\ request[m].at = "applied"
                    /\ \/ request[m].page # thread
                       \/ thread \notin {request[m].thread, NoThread}
                    /\ request'[m] # request[m]

(* Action property.  A page comes to follow a run, or to offer a card, of  *)
(* another thread than the one in its URL only when an answer arrives after*)
(* the user has left: neither a switch, with what the cache and the        *)
(* queries under way hold, nor a stream that is opened again does it       *)
(* (the awaits of handleSendMessage and handleResumeInterrupt).            *)
OnlyLateAnswersStray == [][~Foreign /\ Foreign' => LateAnswer]_chatVars

(* Safety.  Once the page knows that a card was answered, it offers it     *)
(* again only from what the cache held of the thread (the effect on        *)
(* messagesResponse); resume_run would start a second task on it.          *)
AnsweredCardIsCached == card # NoCard /\ card.run \in told => card.from = "cache"

(* Liveness.  The page does not stay in isStreaming, which disables its    *)
(* input: the stream ends, or is given up after MAX_RETRIES (useSSE).      *)
StreamingEnds == streaming ~> ~streaming

-----------------------------------------------------------------------------
(* The inductive invariant behind the two.  What the page, its requests and*)
(* the cache know of a thread is a run of that thread, and what is offered *)
(* or was answered is a run that is past its interrupt.                    *)
RunRecords == [thread : Threads, row : {"running", "interrupted", "completed", "cancelled"},
               queue : {"busy", "asks", "over", "gone"}]

Streams == [thread : Threads, run : RunIds, at : {"open", "backoff", "closed"}, saw : BOOLEAN]
Cards == [run : RunIds, thread : Threads, from : {"cache", "stream"}]
RequestRecords == [kind : {"create", "run", "resume", "cancel"}, thread : Threads \cup {NoThread},
          of : RunIds \cup {NoRun}, page : Threads \cup {NoThread}, run : RunIds \cup {NoRun},
          at : {"sent", "applied"}]
Knowledge == [active : RunIds \cup {NoRun}, pending : RunIds \cup {NoRun}]

RunOf(r, t) == r \in DOMAIN runs /\ runs[r].thread = t
Past(r) == r \in DOMAIN runs /\ runs[r].queue \in {"over", "gone"}

RowsInv ==
    /\ runs \in Seq(RunRecords) /\ Len(runs) <= MaxRuns
    /\ \A r \in DOMAIN runs : runs[r].row = "interrupted" => Past(r)

(* What an answer, or the cache, says of a thread.                         *)
Knows(k, t) ==
    /\ k.active # NoRun => RunOf(k.active, t)
    /\ k.pending # NoRun => RunOf(k.pending, t) /\ Past(k.pending)

CacheInv ==
    /\ cached \in [Threads -> Knowledge]
    /\ fetch \in [Threads -> {NoFetch} \cup [at : {"sent"}] \cup [at : {"read"}, data : Knowledge]]
    /\ \A t \in Threads : Knows(cached[t], t) /\ (fetch[t].at = "read" => Knows(fetch[t].data, t))

StreamInv ==
    /\ activeRun \in RunIds \cup {NoRun} /\ (activeRun # NoRun => activeRun \in DOMAIN runs)
    /\ es \in {NoStream} \cup Streams
    /\ es # NoStream => thread # NoThread /\ es.run = activeRun /\ (es.saw => Past(es.run))

CardInv ==
    /\ card \in {NoCard} \cup Cards
    /\ card # NoCard => thread # NoThread /\ RunOf(card.run, card.thread) /\ Past(card.run)
    /\ \A r \in told : Past(r)
    /\ AnsweredCardIsCached

RequestInv ==
    /\ request \in [Slots -> {Idle} \cup RequestRecords]
    /\ \A m \in Slots :
          /\ request[m].kind = "create" =>
                request[m].page = NoThread /\ (request[m].at = "applied" => request[m].thread \in threads)
          /\ request[m].kind = "run" =>
                request[m].page = request[m].thread /\ request[m].thread \in Threads
          /\ request[m].kind = "resume" =>
                /\ request[m].page # NoThread /\ request[m].thread \in Threads
                /\ Past(request[m].of)
          /\ request[m].kind \in {"run", "resume"} /\ request[m].at = "applied" =>
                RunOf(request[m].run, request[m].thread)

WInv == ChatTypeOK /\ RowsInv /\ CacheInv /\ StreamInv /\ CardInv /\ RequestInv
=============================================================================
