----------------------------- MODULE Dictation -----------------------------
(***************************************************************************)
(* Speaking instead of typing: the one recorder of the app, the editors    *)
(* and the search that use it, and what becomes of a note's text when      *)
(* results, answers and typing meet in a field.                            *)
(*                                                                         *)
(* Of the speech framework (external): cancel is answered later, with the  *)
(* last callback of the task; results that are under way still come; the   *)
(* engine can fail to start, and stops by itself when something else takes *)
(* the microphone; a second tap on a bus ends the app.                     *)
(*                                                                         *)
(* Abstractions.  A text is a set of words, one for what is typed at a     *)
(* time and one for what is said in a recording; blanks do not occur.  One *)
(* note on one device: other people's writes are in EditLock, the list in  *)
(* NoteList; whether a row is locked, and which buttons the bar shows, is  *)
(* in NoteLock, here a note may be locked.  A note is saved at once.       *)
(***************************************************************************)
EXTENDS Naturals, FiniteSets

CONSTANTS MaxWords,  \* bound: words typed or said
          MaxTaps,   \* bound: user actions
          MaxBreaks  \* bound: engine stops and alerts taken away from outside

ASSUME BoundAssumption == MaxWords \in Nat /\ MaxTaps \in Nat /\ MaxBreaks \in Nat

VARIABLES
    here,     \* does the note exist?
    doc,      \* its title and description
    screen,   \* "search" is the list under the alert that listens
    kind,     \* which editor is open
    locked,   \* lockStatus, lockView
    text,     \* titleTextField and desTextView
    focus,    \* the first responder
    loads,    \* unanswered queries for the note
    isRecord, \* is a recording taken to be on?
    running,  \* audioEngine.isRunning
    tap,      \* is there a tap on bus 0?
    task,     \* recognitionTask, the word it is to hear, or Nil
    live,     \* tasks that have not called back for the last time
    base,     \* subStr1, subStr2
    words, taps, breaks, \* bounded counters
    emptied,  \* history: fields the user emptied, nothing in them since
    answered, \* history: has a query of this editor been answered?
    adrift    \* history: the engine went on, stopped or failed unnoticed, or a lock stopped it

note     == <<here, doc>>
editor   == <<screen, kind, locked, text, focus, loads, isRecord>>
recorder == <<running, tap, task, live, base>>
history  == <<emptied, answered, adrift>>
vars     == <<note, editor, recorder, words, taps, breaks, history>>

Field   == {"title", "des"}
Nil     == 0
Default == 0 \* "Undefined title", "No description"
Word    == 0 .. MaxWords
Text    == [Field -> SUBSET Word]
Saved   == [Field -> (SUBSET Word) \ {{}}]
Blank   == [f \in Field |-> {}]
Kinds   == {"none", "detail", "create", "shared"}
Task    == [word : Word \ {Nil}, for : Field \cup {"alert", "gone"}, stopped : BOOLEAN]

-----------------------------------------------------------------------------
(* The recorder *)

\* The task held is told to end.
Cancel(ts) == {[t EXCEPT !.stopped = @ \/ t.word = task] : t \in ts}

\* stopRecording.
Stop == running' = FALSE /\ live' = Cancel(live)

\* Killed by its own exception and started anew.
Restart ==
    /\ screen' = "list" /\ kind' = "none" /\ locked' = FALSE /\ text' = Blank /\ focus' = "none"
    /\ loads' = 0 /\ isRecord' = FALSE
    /\ running' = FALSE /\ tap' = FALSE /\ task' = Nil /\ live' = {} /\ base' = {}
    /\ emptied' = {} /\ answered' = FALSE /\ adrift' = FALSE
    /\ UNCHANGED <<note, words>>

\* startRecording, startRecordingWithAlert, on a free bus.
Begin(f) ==
    /\ words < MaxWords /\ words' = words + 1
    /\ tap' = TRUE /\ running' \in BOOLEAN
    /\ task' = words + 1
    /\ live' = Cancel(live) \cup {[word |-> words + 1, for |-> f, stopped |-> FALSE]}
    /\ adrift' = (adrift \/ ~running')

-----------------------------------------------------------------------------
(* The editors *)

\* Mutant: the button keeps showing a recording.
StopOnly(f) == focus' = f /\ Stop /\ adrift' = FALSE /\ UNCHANGED isRecord

\* textFieldDidBeginEditing, textViewDidBeginEditing.
BeginEditing(f) == focus' = f /\ Stop /\ adrift' = FALSE /\ isRecord' = FALSE

\* Mutant: an empty field is saved as it is.
SaveAsIs == here' = (text # Blank) /\ doc' = IF text = Blank THEN doc ELSE text

\* Mutant: a note with an empty field is deleted.
SaveWhole == IF \A f \in Field : text[f] # {} THEN here' = TRUE /\ doc' = text
             ELSE here' = FALSE /\ UNCHANGED doc

\* saveNote of the three editors: an empty field gets a default; an empty note is
\* deleted, in a shared one both get defaults; a deleted one is not edited.
Save ==
    LET filled == [f \in Field |-> IF text[f] = {} THEN {Default} ELSE text[f]]
    IN  IF text = Blank /\ kind # "shared" THEN here' = FALSE /\ UNCHANGED doc
        ELSE IF here \/ kind = "create" THEN here' = TRUE /\ doc' = filled
        ELSE UNCHANGED note

\* viewWillAppear; the editors of a shared note and of a locked one take no focus.
Open(k) ==
    /\ screen = "list" /\ screen' = "editor"
    /\ IF k = "create" THEN ~here ELSE here
    /\ kind' = k /\ locked' \in {FALSE, k = "detail"} /\ text' = Blank
    /\ loads' = (IF k = "create" THEN 0 ELSE 1)
    /\ emptied' = {} /\ answered' = FALSE
    /\ IF k = "shared" \/ locked'
       THEN focus' = "none" /\ isRecord' = FALSE /\ UNCHANGED <<running, live, adrift>>
       ELSE BeginEditing("title")
    /\ UNCHANGED <<note, tap, task, base, words>>

\* lockView covers the fields.
Focus(f) ==
    /\ screen = "editor" /\ ~locked /\ focus # f
    /\ BeginEditing(f)
    /\ UNCHANGED <<note, screen, kind, locked, text, loads, tap, task, base, words,
                   emptied, answered>>

\* "Done", or a tap beside the fields.
EndEditing ==
    /\ screen = "editor" /\ focus # "none" /\ focus' = "none"
    /\ UNCHANGED <<note, screen, kind, locked, text, loads, isRecord, recorder,
                   words, history>>

Type ==
    /\ screen = "editor" /\ focus \in Field
    /\ words < MaxWords /\ words' = words + 1
    /\ text' = [text EXCEPT ![focus] = @ \cup {words + 1}]
    /\ emptied' = emptied \ {focus}
    /\ UNCHANGED <<note, screen, kind, locked, focus, loads, isRecord, recorder,
                   answered, adrift>>

Clear ==
    /\ screen = "editor" /\ focus \in Field /\ text[focus] # {}
    /\ text' = [text EXCEPT ![focus] = {}]
    /\ emptied' = emptied \cup {focus}
    /\ UNCHANGED <<note, screen, kind, locked, focus, loads, isRecord, recorder,
                   words, answered, adrift>>

\* Mutant: the text before and after the cursor is that of the last recording.
OldBase(f) == base

\* What stands in the field, before and after the cursor.
BaseOf(f) == text[f]

\* voice, clickRecordBtn: the engine decides, the button is turned over.
Voice ==
    /\ screen = "editor" /\ ~locked
    /\ IF running
       THEN /\ Stop /\ isRecord' = ~isRecord
            /\ UNCHANGED <<note, screen, kind, locked, text, focus, loads, tap,
                           task, base, words, history>>
       ELSE IF tap THEN Restart
       ELSE LET f == IF focus = "title" THEN "title" ELSE "des"
            IN  /\ base' = BaseOf(f) /\ Begin(f)
                /\ focus' = "none" /\ isRecord' = ~isRecord
                /\ UNCHANGED <<note, screen, kind, locked, text, loads, emptied, answered>>

\* lockON: the recording ends, and isRecord is not told.
LockOn ==
    /\ screen = "editor" /\ kind # "shared" /\ text # Blank
    /\ locked' = TRUE /\ focus' = "none"
    /\ Stop /\ adrift' = isRecord
    /\ UNCHANGED <<note, screen, kind, text, loads, isRecord, tap, task, base,
                   words, emptied, answered>>

\* The right passcode.
Unlock ==
    /\ screen = "editor" /\ locked /\ locked' = FALSE
    /\ UNCHANGED <<note, screen, kind, text, focus, loads, isRecord, recorder,
                   words, history>>

\* Share settings or passcode screen over an editor, and back: it is saved on the
\* way, and loaded again.
Cover ==
    /\ screen = "editor" /\ kind # "shared" /\ screen' = "cover"
    /\ Stop /\ Save /\ adrift' = FALSE
    /\ UNCHANGED <<kind, locked, text, focus, loads, isRecord, tap, task, base,
                   words, emptied, answered>>

\* A locked NoteDetail leaves the recorder, and isRecord, as they are.
Uncover ==
    /\ screen = "cover" /\ screen' = "editor"
    /\ IF locked /\ kind = "detail"
       THEN adrift' = (adrift \/ isRecord) /\ UNCHANGED <<focus, isRecord, running, live>>
       ELSE BeginEditing("title")
    /\ loads' = IF kind = "detail" THEN loads + 1 ELSE loads
    /\ UNCHANGED <<note, kind, locked, text, tap, task, base, words, emptied, answered>>

\* viewWillDisappear; what comes later is for a screen that is gone.
Leave ==
    /\ screen = "editor" /\ screen' = "list"
    /\ running' = FALSE
    /\ live' = {[t EXCEPT !.for = "gone"] : t \in Cancel(live)}
    /\ Save /\ adrift' = FALSE
    /\ kind' = "none" /\ locked' = FALSE /\ text' = Blank /\ focus' = "none"
    /\ loads' = 0 /\ isRecord' = FALSE
    /\ emptied' = {} /\ answered' = FALSE
    /\ UNCHANGED <<tap, task, base, words>>

\* getNoteDetail, loadNoteByID: over whatever stands there.
LoadAnswer ==
    /\ loads > 0 /\ loads' = loads - 1
    /\ text' = (IF here THEN doc ELSE text)
    /\ emptied' = (IF here THEN {} ELSE emptied) /\ answered' = TRUE
    /\ UNCHANGED <<note, screen, kind, locked, focus, isRecord, recorder, words, adrift>>

-----------------------------------------------------------------------------
(* Search by voice *)

\* showAlertWithInputStringForSearch: whatever the engine does, it is started.
Search ==
    /\ screen = "list"
    /\ IF tap THEN Restart
       ELSE /\ Begin("alert") /\ screen' = "search"
            /\ UNCHANGED <<note, kind, locked, text, focus, loads, isRecord, base,
                           emptied, answered>>

\* "Cancel", "OK".
EndSearch ==
    /\ screen = "search" /\ screen' = "list"
    /\ Stop /\ adrift' = FALSE
    /\ UNCHANGED <<note, kind, locked, text, focus, loads, isRecord, tap, task, base, words,
                   emptied, answered>>

-----------------------------------------------------------------------------
(* From outside *)

\* A load's answer takes the alert away (NoteList); nobody stops the recording.
AlertTaken ==
    /\ screen = "search" /\ screen' = "list" /\ adrift' = TRUE
    /\ UNCHANGED <<note, kind, locked, text, focus, loads, isRecord, recorder,
                   words, emptied, answered>>

EngineStops ==
    /\ running /\ running' = FALSE /\ adrift' = TRUE
    /\ UNCHANGED <<note, editor, tap, task, live, base, words, emptied, answered>>

\* A result: what stood there, and what was said between.
Hear(t) ==
    IF t.for \in Field
    THEN /\ text' = [text EXCEPT ![t.for] = base \cup {t.word}]
         /\ emptied' = emptied \ {t.for}
    ELSE UNCHANGED <<text, emptied>>

Result(t) ==
    /\ t \in live /\ Hear(t)
    /\ UNCHANGED <<note, screen, kind, locked, focus, loads, isRecord, recorder,
                   words, answered, adrift>>

\* Mutant: the tap stays on the bus.
HangUpLate(t) == running' = FALSE /\ task' = Nil /\ live' = live \ {t} /\ UNCHANGED tap

HangUp(t) == running' = FALSE /\ tap' = FALSE /\ task' = Nil /\ live' = live \ {t}

\* The last callback, with a result or an error.
Final(t) ==
    /\ t \in live
    /\ Hear(t) \/ UNCHANGED <<text, emptied>>
    /\ HangUp(t)
    /\ adrift' = (adrift \/ running)
    /\ UNCHANGED <<note, screen, kind, locked, focus, loads, isRecord, base, words,
                   answered>>

-----------------------------------------------------------------------------
Init ==
    /\ here = TRUE /\ doc = [f \in Field |-> {Default}]
    /\ screen = "list" /\ kind = "none" /\ locked = FALSE /\ text = Blank /\ focus = "none"
    /\ loads = 0 /\ isRecord = FALSE
    /\ running = FALSE /\ tap = FALSE /\ task = Nil /\ live = {} /\ base = {}
    /\ words = 0 /\ taps = 0 /\ breaks = 0
    /\ emptied = {} /\ answered = FALSE /\ adrift = FALSE

Taps == \/ \E k \in Kinds \ {"none"} : Open(k)
        \/ \E f \in Field : Focus(f)
        \/ EndEditing \/ Type \/ Clear \/ Voice \/ LockOn \/ Unlock \/ Cover \/ Search

\* What ends what was begun is not counted.
Ends == Uncover \/ Leave \/ EndSearch

User     == \/ taps < MaxTaps /\ taps' = taps + 1 /\ Taps /\ UNCHANGED breaks
            \/ Ends /\ UNCHANGED <<taps, breaks>>
Answers  == /\ LoadAnswer \/ \E t \in live : Result(t) \/ Final(t)
            /\ UNCHANGED <<taps, breaks>>
Outside  == breaks < MaxBreaks /\ breaks' = breaks + 1 /\ (AlertTaken \/ EngineStops) /\ UNCHANGED taps

Next == User \/ Answers \/ Outside

\* A task that is told to end does so; nothing else is sure.
Ended == (\E t \in live : t.stopped /\ Final(t)) /\ UNCHANGED <<taps, breaks>>

Spec == Init /\ [][Next]_vars /\ WF_vars(Ended)

-----------------------------------------------------------------------------
TypeOK ==
    /\ here \in BOOLEAN /\ doc \in Saved
    /\ screen \in {"list", "search", "editor", "cover"} /\ kind \in Kinds /\ locked \in BOOLEAN
    /\ text \in Text /\ focus \in Field \cup {"none"} /\ loads \in Nat
    /\ isRecord \in BOOLEAN /\ running \in BOOLEAN /\ tap \in BOOLEAN
    /\ task \in Word /\ live \subseteq Task /\ base \subseteq Word
    /\ words \in Word /\ taps \in Nat /\ breaks \in Nat
    /\ emptied \subseteq Field /\ answered \in BOOLEAN /\ adrift \in BOOLEAN

\* One recording at a time: however recordings are stopped and begun, a tap is on
\* the bus as long as one task is still to call back, and it is that of the view
\* model: no late callback takes the tap or the task of a later recording.
OneRecording ==
    /\ tap <=> live # {}
    /\ \A t \in live : task = t.word
    /\ running => tap

\* The microphone is on while the screen says so, and only then.  Two things bring
\* them apart until a field is touched or the screen is left: engines and alerts that
\* go by themselves, and lockON during a recording, which ends it but for isRecord.
MicAgrees ==
    ~adrift => running = (screen = "search" \/ (screen = "editor" /\ isRecord))

\* The word stands in the field, and nothing is under way that leaves it out.
Secure(f, w) ==
    /\ screen \in {"editor", "cover"} /\ w \in text[f]
    /\ loads > 0 /\ here => w \in doc[f]
    /\ (\E t \in live : t.for = f) => w \in base
    /\ screen = "cover" /\ here => w \in doc[f]

\* A word that stands in a field so stays, and stays so, until the user empties the
\* field or leaves, over recordings, answers, and visits to other screens.
WordsStay ==
    [][\A f \in Field, w \in Word \ {Default} :
          Secure(f, w) /\ f \notin emptied' \ emptied /\ screen' \in {"editor", "cover"}
             => Secure(f, w)']_vars

\* A note is deleted only if the user emptied both fields, or went on before it was
\* there: nothing that is spoken or answered empties a field.
DeletedOnPurpose == [][here /\ ~here' => ~answered \/ emptied = Field]_vars

\* A recording that was stopped does not keep the bus.
CanRecordAgain == (\E t \in live : t.stopped) ~> ~tap
=============================================================================
