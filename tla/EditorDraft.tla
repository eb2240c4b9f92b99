----------------------------- MODULE EditorDraft -----------------------------
(***************************************************************************)
(* The draft of a thread: the editor of the page (frontend EditorTab.tsx   *)
(* and useDraft.ts, with the React Query cache they use) and the requests  *)
(* it sends to backend/api/routers/editor.py.                              *)
(*                                                                         *)
(* A text is the set of the edits it holds; the empty text is what a       *)
(* thread without a draft is answered.  The page renders again whenever    *)
(* its mutation or the editor's text changes, and useMutation returns a new*)
(* object each time: the effect that listens to the editor is then cleaned *)
(* up and set up again, and the cleaning up saves when saveTimerRef was    *)
(* ever set, for nothing sets it back to null.  What the agent inserts is  *)
(* left out: no listener hears it, and it is stored with the next save.    *)
(***************************************************************************)
EXTENDS Naturals, FiniteSets

CONSTANTS ThreadIds,
          Drafted,       \* those with a draft
          MaxEdits,      \* bound on the edits of the user
          MaxPresses,    \* bound on the saves the user asks for
          MaxSwitches,   \* bound on the changes of the thread shown
          MaxSaves       \* bound on the requests under way

ASSUME DraftAssumption ==
    /\ Drafted \subseteq ThreadIds
    /\ {MaxEdits, MaxPresses, MaxSwitches} \subseteq Nat /\ MaxSaves \in Nat \ {0}

VARIABLES threadId,  \* the thread of the page
          text,      \* the editor's
          edits,     \* what the user has typed, each with its thread
          presses,   \* number of saves the user asked for
          switches,  \* number of changes of the thread shown
          timer,     \* saveTimerRef was set
          pending,   \* the timeout it was last set to is still to come
          render,    \* a render of the editor is due
          cache,     \* the answers of GET, by thread
          query,     \* GET: "no", "asked", or the text it is answered
          save,      \* PUT, by slot
          draft,     \* rows of editor_drafts
          settled    \* edits that a draft of their thread has held, or that a
                     \* save held that was refused when the editor no longer did

page == <<threadId, text, edits, presses, switches, timer, pending>>
draftVars == <<page, render, cache, query, save, draft, settled>>

Saves == 1..MaxSaves
Own(t, s) == {e \in s : e.thread = t /\ e.no > 0}
Earlier(t) == [thread |-> t, no |-> 0]     \* what a draft held before
None == [is |-> "none"]
Asked == [is |-> "asked"]
Text(s) == [is |-> "text", text |-> s]
NoSave == [at |-> "no"]

DraftInit ==
    /\ threadId \in ThreadIds
    /\ text = {} /\ edits = {} /\ presses = 0 /\ switches = 0
    /\ timer = FALSE /\ pending = FALSE /\ render = FALSE
    /\ cache = [t \in ThreadIds |-> None]
    /\ query = [t \in ThreadIds |-> IF t = threadId THEN Asked ELSE None]
    /\ save = [p \in Saves |-> NoSave]
    /\ draft = [t \in ThreadIds |-> IF t \in Drafted THEN Text({Earlier(t)}) ELSE None]
    /\ settled = {}

-----------------------------------------------------------------------------
(* handleSave: a PUT of the editor's text for the thread it was made for.  *)
Put(t) ==
    \E p \in Saves :
        /\ save[p] = NoSave /\ \A q \in 1..(p - 1) : save[q] # NoSave
        /\ save' = [save EXCEPT ![p] = [at |-> "sent", thread |-> t, text |-> text]]

(* Broken: it does not look whether the timer was ever set.                *)
CleanUpAlways ==
    /\ Put(threadId)
    /\ render' = TRUE
    /\ pending' = FALSE

(* The cleaning up of the effect, at each render: it clears the timeout and*)
(* saves what the editor held, for the thread of the render before.  The   *)
(* state of the mutation changes, so that another render is due.           *)
CleanUpEffect ==
    /\ IF timer THEN Put(threadId) ELSE UNCHANGED save
    /\ render' = timer
    /\ pending' = FALSE

(* The user edits the text: the update is heard, the timeout set, and the  *)
(* text in the store renders the canvas with the editor in it.             *)
Type ==
    /\ Cardinality(edits) < MaxEdits
    /\ LET e == [thread |-> threadId, no |-> Cardinality(edits) + 1]
       IN  text' = text \cup {e} /\ edits' = edits \cup {e}
    /\ timer' = TRUE /\ pending' = TRUE /\ render' = TRUE
    /\ UNCHANGED <<threadId, presses, switches, cache, query, save, draft, settled>>

TimerFires ==
    /\ pending
    /\ Put(threadId)
    /\ pending' = FALSE /\ render' = TRUE
    /\ UNCHANGED <<threadId, text, edits, presses, switches, timer, cache, query, draft, settled>>

(* Mod-s.                                                                  *)
SaveNow ==
    /\ presses < MaxPresses
    /\ Put(threadId)
    /\ presses' = presses + 1
    /\ render' = TRUE
    /\ UNCHANGED <<threadId, text, edits, switches, timer, pending, cache, query, draft, settled>>

Rerender ==
    /\ render
    /\ CleanUpEffect
    /\ UNCHANGED <<threadId, text, edits, presses, switches, timer, cache, query, draft, settled>>

-----------------------------------------------------------------------------
(* useDraft.  An answer that differs from the cached one is a new draft,   *)
(* which replaces the text unless it is empty; no listener hears it.       *)
Load(s) == text' = IF s = {} THEN text ELSE s

(* get_by_thread_id: whether there is a row; a GET of none is answered with*)
(* the empty text.                                                         *)
Exists(t) == draft[t] # None
LoadDraft(t) == IF Exists(t) THEN draft[t] ELSE Text({})

DraftReads(t) ==
    /\ query[t] = Asked
    /\ query' = [query EXCEPT ![t] = LoadDraft(t)]
    /\ UNCHANGED <<page, render, cache, save, draft, settled>>

DraftArrives(t) ==
    /\ query[t] \notin {None, Asked}
    /\ query' = [query EXCEPT ![t] = None]
    /\ cache' = [cache EXCEPT ![t] = query[t]]
    /\ IF t = threadId /\ cache[t] # query[t]
       THEN CleanUpEffect /\ Load(query[t].text) ELSE UNCHANGED <<save, render, pending, text>>
    /\ UNCHANGED <<threadId, edits, presses, switches, timer, draft, settled>>

(* retry: false; the answer of before stays.                               *)
DraftFails(t) ==
    /\ query[t] # None
    /\ query' = [query EXCEPT ![t] = None]
    /\ UNCHANGED <<page, render, cache, save, draft, settled>>

(* Broken: the timeout is cleared and its save is forgotten.               *)
SwitchForgets(t) ==
    /\ t # threadId /\ switches < MaxSwitches
    /\ pending' = FALSE /\ render' = FALSE
    /\ threadId' = t /\ switches' = switches + 1
    /\ IF cache[t] = None THEN UNCHANGED text ELSE Load(cache[t].text)
    /\ query' = [query EXCEPT ![t] = IF @ = None THEN Asked ELSE @]
    /\ UNCHANGED <<save, edits, presses, timer, cache, draft, settled>>

(* Another thread on the page: the editor and its references stay.  A      *)
(* cached draft is shown at once, and asked for again when it is stale.    *)
Switch(t) ==
    /\ t # threadId /\ switches < MaxSwitches
    /\ CleanUpEffect
    /\ threadId' = t /\ switches' = switches + 1
    /\ IF cache[t] = None THEN UNCHANGED text ELSE Load(cache[t].text)
    /\ \/ query' = [query EXCEPT ![t] = IF @ = None THEN Asked ELSE @]
       \/ cache[t] # None /\ UNCHANGED query
    /\ UNCHANGED <<edits, presses, timer, cache, draft, settled>>

-----------------------------------------------------------------------------
(* save_draft: upsert_draft looks for the row, and updates it or inserts   *)
(* one, which the unique thread_id refuses when another request has        *)
(* inserted it meanwhile.  The user owns the threads of the page.          *)
SaveReads(p) ==
    /\ save[p].at = "sent"
    /\ save' = [save EXCEPT ![p].at = IF Exists(save[p].thread) THEN "update" ELSE "insert"]
    /\ UNCHANGED <<page, render, cache, query, draft, settled>>

UpsertDraft(p, t) ==
    IF save[p].at = "insert" /\ Exists(t)
    THEN save' = [save EXCEPT ![p].at = "refused"] /\ UNCHANGED draft
    ELSE /\ draft' = [draft EXCEPT ![t] = Text(save[p].text)]
         /\ save' = [save EXCEPT ![p].at = "saved"]

(* The endpoint commits.                                                   *)
SaveWrites(p) ==
    /\ save[p].at \in {"insert", "update"}
    /\ UpsertDraft(p, save[p].thread)
    /\ settled' = IF save'[p].at = "saved"
                  THEN settled \cup Own(save[p].thread, save[p].text) ELSE settled
    /\ UNCHANGED <<page, render, cache, query>>

(* A save that succeeded invalidates the draft: it is asked for again if   *)
(* the page shows it, also when an answer is under way, unless it would be *)
(* the first.                                                              *)
SaveAnswered(p) ==
    /\ save[p].at \in {"saved", "refused"}
    /\ LET t == save[p].thread
       IN  /\ query' = IF save[p].at = "saved" /\ t = threadId /\ (cache[t] # None \/ query[t] = None)
                       THEN [query EXCEPT ![t] = Asked] ELSE query
           /\ settled' = IF save[p].at = "refused"
                         THEN settled \cup (Own(t, save[p].text) \ (IF t = threadId THEN text ELSE {}))
                         ELSE settled
    /\ save' = [save EXCEPT ![p] = NoSave]
    /\ render' = TRUE
    /\ UNCHANGED <<page, cache, draft>>

DraftNext ==
    \/ Type \/ TimerFires \/ SaveNow \/ Rerender
    \/ \E t \in ThreadIds : DraftReads(t) \/ DraftArrives(t) \/ DraftFails(t) \/ Switch(t)
    \/ \E p \in Saves : SaveReads(p) \/ SaveWrites(p) \/ SaveAnswered(p)

(* React renders, the server and the network answer.                       *)
DraftFairness ==
    /\ WF_draftVars(Rerender)
    /\ \A t \in ThreadIds : WF_draftVars(DraftReads(t)) /\ WF_draftVars(DraftArrives(t))
    /\ \A p \in Saves : /\ WF_draftVars(SaveReads(p)) /\ WF_draftVars(SaveWrites(p))
                        /\ WF_draftVars(SaveAnswered(p))

DraftSpec == DraftInit /\ [][DraftNext]_draftVars /\ DraftFairness

-----------------------------------------------------------------------------
AllEdits == {[thread |-> t, no |-> n] : t \in ThreadIds, n \in 0..MaxEdits}
Texts == SUBSET AllEdits
Answers == {None, Asked} \cup {Text(s) : s \in Texts}

DraftTypeOK ==
    /\ threadId \in ThreadIds
    /\ {text, edits, settled} \subseteq Texts
    /\ presses \in 0..MaxPresses /\ switches \in 0..MaxSwitches
    /\ {timer, pending, render} \subseteq BOOLEAN
    /\ cache \in [ThreadIds -> Answers \ {Asked}] /\ query \in [ThreadIds -> Answers]
    /\ draft \in [ThreadIds -> Answers \ {Asked}]
    /\ save \in [Saves -> {NoSave} \cup
                 [at : {"sent", "insert", "update", "saved", "refused"},
                  thread : ThreadIds, text : Texts]]

(* An edit is stored with the draft of the thread it was made in, whatever *)
(* races with it: another thread shown before the timeout, a first save    *)
(* that another first save makes the server refuse, a reload that takes it *)
(* out of the editor.  It is lost only if its save is refused when the     *)
(* editor does not hold it any more.                                       *)
EditsAreStored ==
    \A t \in ThreadIds, n \in 1..MaxEdits :
        LET e == [thread |-> t, no |-> n]
        IN  e \in edits ~> e \in settled

(* Until the user types, nothing but their asking for it saves: neither a  *)
(* draft the page loads, at whatever time, nor leaving a thread.           *)
LookingWritesNothing ==
    [][edits = {} /\ (\E p \in Saves : save[p] = NoSave /\ save'[p] # NoSave) => SaveNow]_draftVars

-----------------------------------------------------------------------------
(* The inductive invariant behind LookingWritesNothing: the timeout is set *)
(* by typing only.                                                         *)
DInv == DraftTypeOK /\ IsFiniteSet(edits) /\ (edits = {} => ~timer /\ ~pending)
=============================================================================
