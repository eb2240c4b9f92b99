------------------------------ MODULE VoiceInput ------------------------------
(***************************************************************************)
(* Voice input: frontend/src/hooks/useVoiceInput.ts under the button of    *)
(* features/chat/InputArea.tsx, with POST /stt/transcribe of               *)
(* backend/api/routers/stt.py.                                             *)
(*                                                                         *)
(* The microphone is used through the browser's speech recognition or,     *)
(* where there is none, through a MediaRecorder whose sound the backend    *)
(* has transcribed.  The references of the hook hold one microphone; each  *)
(* start asks for another.  Left out: what is said (the recognition hands  *)
(* its text over at once), the clock of the display, and cancelRecording,  *)
(* which no component calls.                                               *)
(***************************************************************************)
EXTENDS Naturals

CONSTANT MaxStarts      \* bound on the starts the user asks for

ASSUME VoiceAssumption == MaxStarts \in Nat

Mics == 1..MaxStarts
NoMic == 0

VARIABLES engine,      \* engineType
          mounted,     \* the input area is mounted
          status,
          mic,         \* what a start is at
          live,        \* microphones that are on
          held,        \* recognitionRef, or mediaRecorderRef with mediaStreamRef
          sound,       \* chunksRef is not empty
          timers,      \* timeouts of five minutes to come, by start
          maxTimer,    \* the one maxTimerRef holds
          manualStop,  \* manualStopRef
          raced        \* "twice": a start was asked for while another awaited
                       \* the microphone; "left": so was the page

refs == <<live, held, sound, timers, maxTimer>>
voiceVars == <<engine, mounted, status, mic, refs, manualStop, raced>>

VoiceInit ==
    /\ engine \in {"web-speech", "groq-whisper"}
    /\ mounted = TRUE /\ status = "idle"
    /\ mic = [k \in Mics |-> "no"]
    /\ live = {} /\ held = NoMic /\ sound = FALSE
    /\ timers = {} /\ maxTimer = NoMic /\ manualStop = FALSE
    /\ raced = {}

Asking == \E k \in Mics : mic[k] = "asking"
SetStatus(s) == status' = IF mounted THEN s ELSE status

-----------------------------------------------------------------------------
StopTimer == timers' = timers \ {maxTimer} /\ maxTimer' = NoMic

(* cleanup: what is held is stopped, with its microphone, and let go of.   *)
(* A recorder still hands over its last sound afterwards; an aborted       *)
(* recognition says nothing any more.                                      *)
CleanUp(m) ==
    /\ mic' = [k \in Mics |->
                 IF k # held THEN m[k]
                 ELSE IF engine = "web-speech" THEN "over"
                 ELSE IF m[k] = "recording" THEN "stopping" ELSE m[k]]
    /\ live' = live \ {held} /\ held' = NoMic /\ sound' = FALSE
    /\ StopTimer

(* A microphone is on: it replaces the one held, and gets a timeout that   *)
(* replaces the one of before without clearing it.                         *)
Record(k) ==
    /\ mic' = [mic EXCEPT ![k] = "recording"]
    /\ live' = live \cup {k} /\ held' = k
    /\ timers' = timers \cup {k} /\ maxTimer' = k
    /\ SetStatus("recording")

Leave ==
    /\ mounted
    /\ mounted' = FALSE
    /\ CleanUp(mic)
    /\ raced' = IF Asking THEN raced \cup {"left"} ELSE raced
    /\ UNCHANGED <<engine, status, manualStop>>

(* startRecording: the status stays until the browser grants a microphone. *)
Start(k) ==
    /\ mounted /\ status \in {"idle", "error"}
    /\ mic[k] = "no" /\ \A j \in 1..(k - 1) : mic[j] # "no"

StartWebSpeech(k) ==
    /\ Start(k) /\ engine = "web-speech"
    /\ \/ Record(k) /\ UNCHANGED sound
       \/ \* recognition.start() throws
          /\ mic' = [mic EXCEPT ![k] = "over"] /\ held' = k
          /\ SetStatus("error") /\ UNCHANGED <<live, sound, timers, maxTimer>>
    /\ manualStop' = FALSE
    /\ UNCHANGED <<engine, mounted, raced>>

StartGroqWhisper(k) ==
    /\ Start(k) /\ engine = "groq-whisper"
    /\ mic' = [mic EXCEPT ![k] = "asking"]
    /\ raced' = IF Asking THEN raced \cup {"twice"} ELSE raced
    /\ UNCHANGED <<engine, mounted, status, refs, manualStop>>

(* getUserMedia answers, also after the page was left.                     *)
MicGranted(k) ==
    /\ mic[k] = "asking"
    /\ Record(k)
    /\ sound' = FALSE
    /\ UNCHANGED <<engine, mounted, manualStop, raced>>

MicRefused(k) ==
    /\ mic[k] = "asking"
    /\ SetStatus("error")
    /\ CleanUp([mic EXCEPT ![k] = "over"])
    /\ UNCHANGED <<engine, mounted, manualStop, raced>>

-----------------------------------------------------------------------------
(* Both engines end later: onend, onstop.                                  *)
StopHeld ==
    mic' = IF held # NoMic /\ mic[held] = "recording"
           THEN [mic EXCEPT ![held] = "stopping"] ELSE mic

StopRecording ==
    /\ mounted /\ status = "recording"
    /\ StopHeld
    /\ manualStop' = (manualStop \/ (engine = "web-speech" /\ held # NoMic))
    /\ UNCHANGED <<engine, mounted, status, refs, raced>>

(* Broken: the timeout calls stopRecording, made when the status was idle. *)
MaxTimerStale(k) ==
    /\ k \in timers
    /\ timers' = timers \ {k}
    /\ UNCHANGED <<engine, mounted, status, mic, live, held, sound, maxTimer, manualStop, raced>>

MaxTimerFires(k) ==
    /\ k \in timers
    /\ timers' = timers \ {k}
    /\ StopHeld
    /\ manualStop' = (manualStop \/ engine = "web-speech")
    /\ UNCHANGED <<engine, mounted, status, live, held, sound, maxTimer, raced>>

(* onend: a recognition that the browser ended by itself is started again, *)
(* which may fail.                                                         *)
SpeechEnds(k) ==
    /\ engine = "web-speech" /\ held = k
    /\ mic[k] = "stopping" \/ (mic[k] = "recording" /\ ~manualStop)
    /\ SetStatus("idle")
    /\ CleanUp(mic)
    /\ UNCHANGED <<engine, mounted, manualStop, raced>>

SpeechError(k) ==
    /\ engine = "web-speech" /\ held = k /\ mic[k] \in {"recording", "stopping"}
    /\ SetStatus("error")
    /\ CleanUp(mic)
    /\ UNCHANGED <<engine, mounted, manualStop, raced>>

-----------------------------------------------------------------------------
(* ondataavailable of any recorder that runs, held or not.                 *)
DataAvailable(k) ==
    /\ engine = "groq-whisper" /\ mic[k] = "recording"
    /\ sound' = TRUE
    /\ UNCHANGED <<engine, mounted, status, mic, live, held, timers, maxTimer, manualStop, raced>>

(* The last sound of a recorder, which may be none, and its onstop.        *)
RecorderStops(k) ==
    /\ engine = "groq-whisper" /\ mic[k] = "stopping"
    /\ \/ /\ ~sound
          /\ SetStatus("idle") /\ CleanUp([mic EXCEPT ![k] = "over"])
       \/ /\ sound' = TRUE
          /\ mic' = [mic EXCEPT ![k] = "transcribing"]
          /\ SetStatus("transcribing") /\ StopTimer
          /\ UNCHANGED <<live, held>>
    /\ UNCHANGED <<engine, mounted, manualStop, raced>>

(* POST /stt/transcribe is answered with a text, or refused: no key, the   *)
(* format, the size, Groq, the connection.                                 *)
AfterAnswer == {"idle", "error"}

(* Broken: the microphone is let go of by the next start only.             *)
TranscribedKeepsStream(k) ==
    /\ mic[k] = "transcribing"
    /\ \E s \in AfterAnswer : SetStatus(s)
    /\ mic' = [mic EXCEPT ![k] = "over"]
    /\ UNCHANGED <<engine, mounted, refs, manualStop, raced>>

Transcribed(k) ==
    /\ mic[k] = "transcribing"
    /\ \E s \in AfterAnswer : SetStatus(s)
    /\ CleanUp([mic EXCEPT ![k] = "over"])
    /\ UNCHANGED <<engine, mounted, manualStop, raced>>

VoiceNext ==
    \/ Leave \/ StopRecording
    \/ \E k \in Mics :
          \/ StartWebSpeech(k) \/ StartGroqWhisper(k) \/ MicGranted(k) \/ MicRefused(k)
          \/ MaxTimerFires(k) \/ SpeechEnds(k) \/ SpeechError(k)
          \/ DataAvailable(k) \/ RecorderStops(k) \/ Transcribed(k)

(* The timeouts fire, the browser ends what it was told to stop, and the   *)
(* backend answers, within the sixty seconds it gives Groq.                *)
VoiceFairness ==
    \A k \in Mics : /\ WF_voiceVars(MaxTimerFires(k))
                    /\ WF_voiceVars(SpeechEnds(k) /\ mic[k] = "stopping")
                    /\ WF_voiceVars(RecorderStops(k)) /\ WF_voiceVars(Transcribed(k))

VoiceSpec == VoiceInit /\ [][VoiceNext]_voiceVars /\ VoiceFairness

-----------------------------------------------------------------------------
VoiceTypeOK ==
    /\ engine \in {"web-speech", "groq-whisper"}
    /\ mounted \in BOOLEAN /\ sound \in BOOLEAN /\ manualStop \in BOOLEAN
    /\ status \in {"idle", "recording", "transcribing", "error"}
    /\ mic \in [Mics -> {"no", "asking", "recording", "stopping", "transcribing", "over"}]
    /\ live \subseteq Mics /\ timers \subseteq Mics
    /\ held \in Mics \cup {NoMic} /\ maxTimer \in Mics \cup {NoMic}
    /\ raced \subseteq {"twice", "left"}

(* A microphone that is on is the one the hook holds, and the user sees it:*)
(* the page is there and says that it records or transcribes; unless a     *)
(* start was asked for, or the page left, while a start awaited the        *)
(* browser's permission, which nothing in startGroqWhisper looks at again  *)
(* after its await.                                                        *)
SeenUnlessRaced ==
    raced = {} /\ live # {} =>
        mounted /\ live = {held} /\ status \in {"recording", "transcribing"}

(* Every microphone goes off in the end, also the one granted to a page    *)
(* that was left; only a second start, which takes its place in the        *)
(* references, can leave it on for good.                                   *)
MicrophonesGoOff ==
    \A k \in Mics : k \in live ~> k \notin live \/ "twice" \in raced

-----------------------------------------------------------------------------
(* The inductive invariant behind SeenUnlessRaced: what the microphones of *)
(* a hook that did not race are at, by what the user sees.                 *)
Others(S) == \A k \in Mics \ {held} : mic[k] \in S

RestInv ==
    mounted /\ status \in {"idle", "error"} =>
        /\ live = {}
        /\ \A k \in Mics : mic[k] \in {"no", "asking", "over"}
        /\ \A j, k \in Mics : mic[j] = "asking" /\ mic[k] = "asking" =>
                             j = k /\ engine = "groq-whisper"

BusyInv ==
    mounted /\ status \in {"recording", "transcribing"} =>
        /\ held # NoMic /\ live = {held} /\ Others({"no", "over"})
        /\ mic[held] \in IF status = "recording" THEN {"recording", "stopping"}
                         ELSE {"transcribing"}

GoneInv ==
    ~mounted =>
        /\ live = {} /\ held = NoMic
        /\ \A k \in Mics : mic[k] \in {"no", "stopping", "transcribing", "over"}

VInv == VoiceTypeOK /\ (raced = {} => RestInv /\ BusyInv /\ GoneInv)
=============================================================================
