--------------------------- MODULE Dictation_proofs ---------------------------
(***************************************************************************)
(* The safety properties of Dictation, for every bound.  The invariant     *)
(* adds that one task at most is to call back, and what is known of the    *)
(* fields: an emptied one is empty, and once a query has been answered an  *)
(* empty one was emptied.                                                  *)
(***************************************************************************)
EXTENDS Dictation, TLAPS

RecorderOK ==
    /\ running \in BOOLEAN /\ tap \in BOOLEAN /\ task \in Word /\ base \subseteq Word
    /\ live \subseteq Task /\ OneRecording
    /\ \A t, u \in live : t = u

NoteOK == here \in BOOLEAN /\ doc \in Saved

EditorOK ==
    /\ screen \in {"list", "search", "editor", "cover"} /\ kind \in Kinds
    /\ text \in Text /\ focus \in Field \cup {"none"} /\ loads \in Nat
    /\ isRecord \in BOOLEAN /\ locked \in BOOLEAN

HistoryOK == words \in Word /\ emptied \subseteq Field /\ answered \in BOOLEAN /\ adrift \in BOOLEAN

FieldsOK ==
    /\ \A f \in emptied : text[f] = {}
    /\ answered /\ here => \A f \in Field : text[f] = {} => f \in emptied
    /\ kind = "create" => loads = 0 /\ ~answered

DictInv == RecorderOK /\ NoteOK /\ EditorOK /\ HistoryOK /\ FieldsOK /\ MicAgrees

-----------------------------------------------------------------------------
(* The recorder *)

\* A task that is told to end is still the task it was.
LEMMA CancelKeeps ==
    ASSUME RecorderOK
    PROVE  /\ Cancel(live) \subseteq Task
           /\ Cancel(live) = {} <=> live = {}
           /\ \A t \in Cancel(live) : t.word = task /\ \E u \in live : u.for = t.for
           /\ \A t, u \in Cancel(live) : t = u
BY DEF RecorderOK, OneRecording, Cancel, Task

LEMMA StopGood == ASSUME RecorderOK, Stop, UNCHANGED <<tap, task, base>> PROVE RecorderOK'
BY CancelKeeps DEF RecorderOK, OneRecording, Stop, Task, Word

LEMMA NilIsWord == Nil \in Word
BY BoundAssumption DEF Nil, Word

\* Beginning on a free bus, the new task is the only one.
LEMMA BeginGood ==
    ASSUME RecorderOK, words \in Word, NEW f \in Field \cup {"alert"}, ~tap, Begin(f), base' \subseteq Word
    PROVE  /\ RecorderOK' /\ words' \in Word
           /\ \A t \in live' : t.for = f
<1>1. words + 1 \in Word \ {Nil}
  BY BoundAssumption DEF Begin, Word, Nil
<1>2. live = {} /\ Cancel(live) = {}
  BY CancelKeeps DEF RecorderOK, OneRecording
<1>3. live' = {[word |-> words + 1, for |-> f, stopped |-> FALSE]}
  BY <1>2 DEF Begin
<1>4. live' \subseteq Task /\ (\A t \in live' : t.word = words + 1 /\ t.for = f)
  BY <1>1, <1>3 DEF Task
<1>5. /\ running' \in BOOLEAN /\ tap' = TRUE /\ task' = words + 1 /\ live' # {}
      /\ words' = words + 1 /\ \A t, u \in live' : t = u
  BY <1>3 DEF Begin
<1>. QED
  BY <1>1, <1>4, <1>5 DEF RecorderOK, OneRecording

LEMMA RestartGood == ASSUME Restart PROVE RecorderOK'
<1>1. /\ running' = FALSE /\ tap' = FALSE /\ task' = Nil /\ live' = {} /\ base' = {}
  BY DEF Restart
<1>. QED
  BY <1>1, NilIsWord DEF RecorderOK, OneRecording

LEMMA HangUpGood ==
    ASSUME RecorderOK, NEW t \in live, HangUp(t), UNCHANGED base
    PROVE  RecorderOK' /\ live' = {} /\ ~running'
<1>1. /\ running' = FALSE /\ tap' = FALSE /\ task' = Nil /\ live' = live \ {t} /\ base' = base
  BY DEF HangUp
<1>2. live' = {}
  BY <1>1 DEF RecorderOK
<1>. QED
  BY <1>1, <1>2, NilIsWord DEF RecorderOK, OneRecording

LEMMA LeaveStops == ASSUME RecorderOK, Leave PROVE RecorderOK'
<1>. DEFINE Gone(t) == [t EXCEPT !.for = "gone"]
<1>1. \A t \in Cancel(live) : Gone(t) \in Task /\ Gone(t).word = t.word
  BY CancelKeeps DEF Task
<1>2. live' = {Gone(t) : t \in Cancel(live)}
  BY DEF Leave
<1>3. running' = FALSE /\ tap' = tap /\ task' = task /\ base' = base
  BY DEF Leave
<1>. HIDE DEF Gone
<1>4. /\ live' \subseteq Task /\ (live' = {} <=> live = {})
      /\ (\A t \in live' : t.word = task) /\ \A t, u \in live' : t = u
  BY <1>1, <1>2, CancelKeeps
<1>. QED
  BY <1>3, <1>4 DEF RecorderOK, OneRecording

-----------------------------------------------------------------------------
(* The fields and the screens *)

\* What a step does not touch stays as it was.
LEMMA RecorderStays == ASSUME RecorderOK, UNCHANGED recorder PROVE RecorderOK'
BY DEF RecorderOK, OneRecording, recorder

LEMMA NoteStays == ASSUME NoteOK, UNCHANGED note PROVE NoteOK'
BY DEF NoteOK, note

LEMMA FieldsStay ==
    ASSUME FieldsOK, UNCHANGED <<note, kind, text, loads, emptied, answered>>
    PROVE  FieldsOK'
BY DEF FieldsOK, note

LEMMA NothingHappens == ASSUME DictInv, UNCHANGED <<note, editor, recorder, words, history>> PROVE DictInv'
BY RecorderStays, NoteStays, FieldsStay
   DEF DictInv, EditorOK, HistoryOK, MicAgrees, note, editor, recorder, history

\* A field is touched: the recording stops and the button with it.
LEMMA BeginEditingGood ==
    ASSUME DictInv, NEW f \in Field, BeginEditing(f), UNCHANGED <<tap, task, base>>
    PROVE  /\ RecorderOK' /\ focus' \in Field \cup {"none"} /\ isRecord' \in BOOLEAN
           /\ adrift' \in BOOLEAN /\ (screen' # "search" => MicAgrees')
<1>1. RecorderOK'
  BY StopGood DEF DictInv, BeginEditing
<1>2. focus' = f /\ isRecord' = FALSE /\ adrift' = FALSE /\ running' = FALSE
  BY DEF BeginEditing, Stop
<1>3. screen' # "search" => MicAgrees'
  BY <1>2 DEF MicAgrees
<1>. QED
  BY <1>1, <1>2, <1>3

LEMMA FocusSafe == ASSUME DictInv, NEW f \in Field, Focus(f) PROVE DictInv'
<1>1. /\ BeginEditing(f) /\ screen = "editor"
      /\ UNCHANGED <<note, screen, kind, locked, text, loads, tap, task, base,
                     words, emptied, answered>>
  BY DEF Focus
<1>2. /\ RecorderOK' /\ focus' \in Field \cup {"none"} /\ isRecord' \in BOOLEAN
      /\ adrift' \in BOOLEAN /\ MicAgrees'
  BY <1>1, BeginEditingGood
<1>3. NoteOK' /\ FieldsOK'
  BY <1>1, NoteStays, FieldsStay DEF DictInv
<1>4. EditorOK' /\ HistoryOK'
  BY <1>1, <1>2 DEF DictInv, EditorOK, HistoryOK
<1>. QED
  BY <1>2, <1>3, <1>4 DEF DictInv

LEMMA EndEditingSafe == ASSUME DictInv, EndEditing PROVE DictInv'
<1>1. /\ focus' = "none"
      /\ UNCHANGED <<note, screen, kind, locked, text, loads, isRecord, recorder,
                     words, history>>
  BY DEF EndEditing
<1>2. RecorderOK' /\ NoteOK' /\ FieldsOK'
  BY <1>1, RecorderStays, NoteStays, FieldsStay DEF DictInv, history
<1>3. EditorOK' /\ HistoryOK' /\ MicAgrees'
  BY <1>1 DEF DictInv, EditorOK, HistoryOK, MicAgrees, history, recorder
<1>. QED
  BY <1>2, <1>3 DEF DictInv

LEMMA TypeSafe == ASSUME DictInv, Type PROVE DictInv'
<1>1. /\ focus \in Field /\ words + 1 \in Word /\ words' = words + 1
      /\ text' = [text EXCEPT ![focus] = @ \cup {words + 1}]
      /\ emptied' = emptied \ {focus}
      /\ UNCHANGED <<note, screen, kind, locked, focus, loads, isRecord, recorder,
                     answered, adrift>>
  BY BoundAssumption DEF DictInv, HistoryOK, Type, Word
<1>2. RecorderOK' /\ NoteOK'
  BY <1>1, RecorderStays, NoteStays DEF DictInv
<1>3. text' \in Text /\ \A f \in Field : text'[f] = {} => f # focus /\ text[f] = {}
  BY <1>1 DEF DictInv, EditorOK, Text
<1>4. \A f \in Field \ {focus} : text'[f] = text[f]
  BY <1>1 DEF DictInv, EditorOK, Text
<1>5. FieldsOK'
  BY <1>1, <1>3, <1>4 DEF DictInv, HistoryOK, FieldsOK, note
<1>6. EditorOK' /\ HistoryOK' /\ MicAgrees'
  BY <1>1, <1>3 DEF DictInv, EditorOK, HistoryOK, MicAgrees, recorder
<1>. QED
  BY <1>2, <1>5, <1>6 DEF DictInv

LEMMA ClearSafe == ASSUME DictInv, Clear PROVE DictInv'
<1>1. /\ focus \in Field /\ text' = [text EXCEPT ![focus] = {}]
      /\ emptied' = emptied \cup {focus}
      /\ UNCHANGED <<note, screen, kind, locked, focus, loads, isRecord, recorder,
                     words, answered, adrift>>
  BY DEF Clear
<1>2. RecorderOK' /\ NoteOK'
  BY <1>1, RecorderStays, NoteStays DEF DictInv
<1>3. text' \in Text /\ text'[focus] = {} /\ \A f \in Field \ {focus} : text'[f] = text[f]
  BY <1>1 DEF DictInv, EditorOK, Text
<1>4. FieldsOK'
  BY <1>1, <1>3 DEF DictInv, HistoryOK, FieldsOK, note
<1>5. EditorOK' /\ HistoryOK' /\ MicAgrees'
  BY <1>1, <1>3 DEF DictInv, EditorOK, HistoryOK, MicAgrees, recorder
<1>. QED
  BY <1>2, <1>4, <1>5 DEF DictInv

LEMMA EndSearchSafe == ASSUME DictInv, EndSearch PROVE DictInv'
<1>1. /\ screen' = "list" /\ Stop /\ adrift' = FALSE
      /\ UNCHANGED <<note, kind, locked, text, focus, loads, isRecord, tap, task,
                     base, words, emptied, answered>>
  BY DEF EndSearch
<1>2. RecorderOK' /\ NoteOK' /\ FieldsOK'
  BY <1>1, StopGood, NoteStays, FieldsStay DEF DictInv
<1>3. EditorOK' /\ HistoryOK' /\ MicAgrees'
  BY <1>1 DEF DictInv, EditorOK, HistoryOK, MicAgrees, Stop
<1>. QED
  BY <1>2, <1>3 DEF DictInv

LEMMA AlertTakenSafe == ASSUME DictInv, AlertTaken PROVE DictInv'
<1>1. /\ screen' = "list" /\ adrift' = TRUE
      /\ UNCHANGED <<note, kind, locked, text, focus, loads, isRecord, recorder,
                     words, emptied, answered>>
  BY DEF AlertTaken
<1>2. RecorderOK' /\ NoteOK' /\ FieldsOK'
  BY <1>1, RecorderStays, NoteStays, FieldsStay DEF DictInv
<1>3. EditorOK' /\ HistoryOK' /\ MicAgrees'
  BY <1>1 DEF DictInv, EditorOK, HistoryOK, MicAgrees
<1>. QED
  BY <1>2, <1>3 DEF DictInv

LEMMA EngineStopsSafe == ASSUME DictInv, EngineStops PROVE DictInv'
<1>1. /\ running' = FALSE /\ adrift' = TRUE
      /\ UNCHANGED <<note, editor, tap, task, live, base, words, emptied, answered>>
  BY DEF EngineStops
<1>2. NoteOK' /\ FieldsOK'
  BY <1>1, NoteStays, FieldsStay DEF DictInv, editor
<1>3. RecorderOK'
  BY <1>1 DEF DictInv, RecorderOK, OneRecording
<1>4. EditorOK' /\ HistoryOK' /\ MicAgrees'
  BY <1>1 DEF DictInv, EditorOK, HistoryOK, MicAgrees, editor
<1>. QED
  BY <1>2, <1>3, <1>4 DEF DictInv

-----------------------------------------------------------------------------
(* Coming and going *)

LEMMA BlankIsText == Blank \in Text /\ \A f \in Field : Blank[f] = {}
BY DEF Blank, Text

LEMMA RestartSafe == ASSUME DictInv, Restart PROVE DictInv'
<1>1. /\ screen' = "list" /\ kind' = "none" /\ locked' = FALSE /\ text' = Blank /\ focus' = "none"
      /\ loads' = 0 /\ isRecord' = FALSE /\ running' = FALSE
      /\ emptied' = {} /\ answered' = FALSE /\ adrift' = FALSE /\ UNCHANGED <<note, words>>
  BY DEF Restart
<1>2. RecorderOK' /\ NoteOK'
  BY <1>1, RestartGood, NoteStays DEF DictInv
<1>3. EditorOK' /\ FieldsOK'
  BY <1>1, BlankIsText DEF EditorOK, FieldsOK, Kinds
<1>4. HistoryOK' /\ MicAgrees'
  BY <1>1 DEF DictInv, HistoryOK, MicAgrees
<1>. QED
  BY <1>2, <1>3, <1>4 DEF DictInv

LEMMA OpenSafe == ASSUME DictInv, NEW k \in Kinds \ {"none"}, Open(k) PROVE DictInv'
<1>1. /\ screen = "list" /\ screen' = "editor" /\ kind' = k /\ locked' \in BOOLEAN /\ text' = Blank
      /\ loads' = (IF k = "create" THEN 0 ELSE 1)
      /\ emptied' = {} /\ answered' = FALSE /\ UNCHANGED <<note, tap, task, base, words>>
  BY DEF Open
<1>2. NoteOK' /\ FieldsOK'
  BY <1>1, NoteStays, BlankIsText DEF DictInv, FieldsOK
<1>3. /\ RecorderOK' /\ focus' \in Field \cup {"none"} /\ isRecord' \in BOOLEAN
      /\ adrift' \in BOOLEAN /\ MicAgrees'
  <2>1. CASE k = "shared" \/ locked'
    <3>1. focus' = "none" /\ isRecord' = FALSE /\ UNCHANGED <<running, live, adrift>>
      BY <2>1 DEF Open
    <3>2. RecorderOK'
      BY <1>1, <3>1, RecorderStays DEF DictInv, recorder
    <3>3. MicAgrees'
      BY <1>1, <3>1 DEF DictInv, MicAgrees
    <3>. QED
      BY <3>1, <3>2, <3>3 DEF DictInv, HistoryOK
  <2>2. CASE k # "shared" /\ ~locked'
    <3>1. BeginEditing("title") /\ "title" \in Field
      BY <2>2 DEF Open, Field
    <3>. QED
      BY <1>1, <3>1, BeginEditingGood
  <2>. QED
    BY <2>1, <2>2
<1>4. EditorOK' /\ HistoryOK'
  BY <1>1, <1>3, BlankIsText DEF DictInv, EditorOK, HistoryOK
<1>. QED
  BY <1>2, <1>3, <1>4 DEF DictInv

\* What is saved has no empty field, and no other note comes into being by it.
LEMMA SaveGood ==
    ASSUME NoteOK, text \in Text, Save
    PROVE  NoteOK' /\ (here' /\ ~here => kind = "create")
<1>. DEFINE filled == [f \in Field |-> IF text[f] = {} THEN {Default} ELSE text[f]]
<1>1. {Default} \in (SUBSET Word) \ {{}}
  BY BoundAssumption DEF Default, Word
<1>2. filled \in Saved
  BY <1>1 DEF Text, Saved
<1>. HIDE DEF filled
<1>3. \/ here' = FALSE /\ doc' = doc
      \/ (here \/ kind = "create") /\ here' = TRUE /\ doc' = filled
      \/ here' = here /\ doc' = doc
  BY DEF Save, note, filled
<1>4. here' \in BOOLEAN
  BY <1>3 DEF NoteOK
<1>5. here' /\ ~here => kind = "create"
  <2>1. CASE here' = FALSE
    BY <2>1
  <2>2. CASE here' = here
    BY <2>2
  <2>. QED
    BY <1>3, <2>1, <2>2
<1>6. doc' \in Saved
  BY <1>2, <1>3 DEF NoteOK
<1>. QED
  BY <1>4, <1>5, <1>6 DEF NoteOK

LEMMA CoverSafe == ASSUME DictInv, Cover PROVE DictInv'
<1>1. /\ screen' = "cover" /\ Stop /\ Save /\ adrift' = FALSE
      /\ UNCHANGED <<kind, locked, text, focus, loads, isRecord, tap, task, base,
                     words, emptied, answered>>
  BY DEF Cover
<1>2. RecorderOK'
  BY <1>1, StopGood DEF DictInv
<1>3. NoteOK' /\ (here' /\ ~here => kind = "create")
  BY <1>1, SaveGood DEF DictInv, EditorOK
<1>4. FieldsOK'
  BY <1>1, <1>3 DEF DictInv, FieldsOK, NoteOK
<1>5. EditorOK' /\ HistoryOK' /\ MicAgrees'
  BY <1>1 DEF DictInv, EditorOK, HistoryOK, MicAgrees, Stop
<1>. QED
  BY <1>2, <1>3, <1>4, <1>5 DEF DictInv

LEMMA UncoverSafe == ASSUME DictInv, Uncover PROVE DictInv'
<1>1. /\ screen = "cover" /\ screen' = "editor"
      /\ loads' = (IF kind = "detail" THEN loads + 1 ELSE loads)
      /\ UNCHANGED <<note, kind, locked, text, tap, task, base, words, emptied, answered>>
  BY DEF Uncover
<1>2. /\ RecorderOK' /\ focus' \in Field \cup {"none"} /\ isRecord' \in BOOLEAN
      /\ adrift' \in BOOLEAN /\ MicAgrees'
  <2>1. CASE locked /\ kind = "detail"
    <3>1. adrift' = (adrift \/ isRecord) /\ UNCHANGED <<focus, isRecord, running, live>>
      BY <2>1 DEF Uncover
    <3>2. RecorderOK'
      BY <1>1, <3>1, RecorderStays DEF DictInv, recorder
    <3>3. focus' \in Field \cup {"none"} /\ isRecord' \in BOOLEAN /\ adrift' \in BOOLEAN
      BY <3>1 DEF DictInv, EditorOK, HistoryOK
    <3>4. ~adrift => ~running
      BY <1>1 DEF DictInv, MicAgrees, RecorderOK
    <3>5. MicAgrees'
      BY <1>1, <3>1, <3>4 DEF DictInv, MicAgrees, RecorderOK, EditorOK
    <3>. QED
      BY <3>2, <3>3, <3>5
  <2>2. CASE ~(locked /\ kind = "detail")
    <3>1. BeginEditing("title") /\ "title" \in Field
      BY <2>2 DEF Uncover, Field
    <3>. QED
      BY <1>1, <3>1, BeginEditingGood
  <2>. QED
    BY <2>1, <2>2
<1>3. NoteOK' /\ FieldsOK'
  BY <1>1, NoteStays DEF DictInv, FieldsOK, note
<1>4. EditorOK' /\ HistoryOK'
  BY <1>1, <1>2 DEF DictInv, EditorOK, HistoryOK
<1>. QED
  BY <1>2, <1>3, <1>4 DEF DictInv

\* The engine is off; isRecord is right if nothing was being recorded.
LEMMA LockOnSafe == ASSUME DictInv, LockOn PROVE DictInv'
<1>1. /\ screen' = "editor" /\ locked' = TRUE /\ focus' = "none" /\ Stop /\ adrift' = isRecord
      /\ UNCHANGED <<note, screen, kind, text, loads, isRecord, tap, task, base, words,
                     emptied, answered>>
  BY DEF LockOn
<1>2. RecorderOK' /\ NoteOK' /\ FieldsOK'
  BY <1>1, StopGood, NoteStays, FieldsStay DEF DictInv
<1>3. EditorOK' /\ HistoryOK'
  BY <1>1 DEF DictInv, EditorOK, HistoryOK
<1>4. ~adrift' => ~running' /\ ~isRecord'
  BY <1>1 DEF Stop
<1>5. MicAgrees'
  BY <1>1, <1>2, <1>3, <1>4 DEF MicAgrees, RecorderOK, EditorOK
<1>. QED
  BY <1>2, <1>3, <1>5 DEF DictInv

LEMMA UnlockSafe == ASSUME DictInv, Unlock PROVE DictInv'
<1>1. /\ locked' = FALSE
      /\ UNCHANGED <<note, screen, kind, text, focus, loads, isRecord, recorder,
                     words, history>>
  BY DEF Unlock
<1>2. RecorderOK' /\ NoteOK' /\ FieldsOK'
  BY <1>1, RecorderStays, NoteStays, FieldsStay DEF DictInv, history
<1>3. EditorOK' /\ HistoryOK' /\ MicAgrees'
  BY <1>1 DEF DictInv, EditorOK, HistoryOK, MicAgrees, history, recorder
<1>. QED
  BY <1>2, <1>3 DEF DictInv

LEMMA LeaveSafe == ASSUME DictInv, Leave PROVE DictInv'
<1>1. /\ screen' = "list" /\ running' = FALSE /\ Save /\ adrift' = FALSE
      /\ kind' = "none" /\ locked' = FALSE /\ text' = Blank /\ focus' = "none"
      /\ loads' = 0 /\ isRecord' = FALSE
      /\ emptied' = {} /\ answered' = FALSE /\ words' = words
  BY DEF Leave
<1>2. RecorderOK' /\ NoteOK'
  BY <1>1, LeaveStops, SaveGood DEF DictInv, EditorOK
<1>3. EditorOK' /\ FieldsOK'
  BY <1>1, BlankIsText DEF EditorOK, FieldsOK, Kinds
<1>4. HistoryOK' /\ MicAgrees'
  BY <1>1 DEF DictInv, HistoryOK, MicAgrees
<1>. QED
  BY <1>2, <1>3, <1>4 DEF DictInv

LEMMA LoadAnswerSafe == ASSUME DictInv, LoadAnswer PROVE DictInv'
<1>1. /\ loads > 0 /\ loads' = loads - 1
      /\ text' = (IF here THEN doc ELSE text)
      /\ emptied' = (IF here THEN {} ELSE emptied) /\ answered' = TRUE
      /\ UNCHANGED <<note, screen, kind, locked, focus, isRecord, recorder, words, adrift>>
  BY DEF LoadAnswer
<1>2. RecorderOK' /\ NoteOK'
  BY <1>1, RecorderStays, NoteStays DEF DictInv
<1>3. doc \in Text /\ \A f \in Field : doc[f] # {}
  BY DEF DictInv, NoteOK, Saved, Text
<1>4. text' \in Text /\ loads' \in Nat
  BY <1>1, <1>3 DEF DictInv, EditorOK
<1>5. kind # "create"
  BY <1>1 DEF DictInv, FieldsOK
<1>6. FieldsOK'
  BY <1>1, <1>3, <1>5 DEF DictInv, FieldsOK, note
<1>7. EditorOK' /\ HistoryOK' /\ MicAgrees'
  BY <1>1, <1>4 DEF DictInv, EditorOK, HistoryOK, MicAgrees, recorder
<1>. QED
  BY <1>2, <1>6, <1>7 DEF DictInv

-----------------------------------------------------------------------------
(* Recording *)

\* The screen said that nothing is recorded; it says so as long as the engine goes.
LEMMA VoiceSafe == ASSUME DictInv, Voice PROVE DictInv'
<1>1. CASE running
  <2>1. /\ Stop /\ isRecord' = ~isRecord /\ screen = "editor"
        /\ UNCHANGED <<note, screen, kind, locked, text, focus, loads, tap, task,
                       base, words, history>>
    BY <1>1 DEF Voice
  <2>2. RecorderOK' /\ NoteOK' /\ FieldsOK'
    BY <2>1, StopGood, NoteStays, FieldsStay DEF DictInv, history
  <2>3. EditorOK' /\ HistoryOK'
    BY <2>1 DEF DictInv, EditorOK, HistoryOK, history
  <2>4. ~adrift' => ~isRecord' /\ ~running'
    BY <1>1, <2>1 DEF DictInv, MicAgrees, Stop, history
  <2>5. MicAgrees'
    BY <2>1, <2>2, <2>3, <2>4 DEF MicAgrees, RecorderOK, EditorOK
  <2>. QED
    BY <2>2, <2>3, <2>5 DEF DictInv
<1>2. CASE ~running /\ tap
  BY <1>2, RestartSafe DEF Voice
<1>3. CASE ~running /\ ~tap
  <2>. DEFINE f == IF focus = "title" THEN "title" ELSE "des"
  <2>1. /\ base' = BaseOf(f) /\ Begin(f) /\ focus' = "none" /\ isRecord' = ~isRecord
        /\ screen = "editor"
        /\ UNCHANGED <<note, screen, kind, locked, text, loads, emptied, answered>>
    BY <1>3 DEF Voice
  <2>2. f \in Field
    BY DEF Field
  <2>. HIDE DEF f
  <2>3. base' \subseteq Word
    BY <2>1, <2>2 DEF DictInv, EditorOK, Text, BaseOf
  <2>4. RecorderOK' /\ words' \in Word
    BY <1>3, <2>1, <2>2, <2>3, BeginGood DEF DictInv, HistoryOK
  <2>5. NoteOK' /\ FieldsOK'
    BY <2>1, NoteStays, FieldsStay DEF DictInv
  <2>6. adrift' = (adrift \/ ~running')
    BY <2>1 DEF Begin
  <2>7. EditorOK' /\ HistoryOK'
    BY <2>1, <2>4, <2>6 DEF DictInv, EditorOK, HistoryOK
  <2>8. ~adrift' => isRecord' /\ running'
    BY <1>3, <2>1, <2>6 DEF DictInv, MicAgrees
  <2>9. MicAgrees'
    BY <2>1, <2>4, <2>7, <2>8 DEF MicAgrees, RecorderOK, EditorOK
  <2>. QED
    BY <2>4, <2>5, <2>7, <2>9 DEF DictInv
<1>. QED
  BY <1>1, <1>2, <1>3 DEF DictInv, RecorderOK

LEMMA SearchSafe == ASSUME DictInv, Search PROVE DictInv'
<1>1. CASE tap
  BY <1>1, RestartSafe DEF Search
<1>2. CASE ~tap
  <2>1. /\ Begin("alert") /\ screen' = "search"
        /\ UNCHANGED <<note, kind, locked, text, focus, loads, isRecord, base,
                       emptied, answered>>
    BY <1>2 DEF Search
  <2>2. base' \subseteq Word
    BY <2>1 DEF DictInv, RecorderOK
  <2>3. RecorderOK' /\ words' \in Word
    BY <1>2, <2>1, <2>2, BeginGood DEF DictInv, HistoryOK
  <2>4. NoteOK' /\ FieldsOK'
    BY <2>1, NoteStays, FieldsStay DEF DictInv
  <2>5. adrift' = (adrift \/ ~running')
    BY <2>1 DEF Begin
  <2>6. EditorOK' /\ HistoryOK'
    BY <2>1, <2>3, <2>5 DEF DictInv, EditorOK, HistoryOK
  <2>7. MicAgrees'
    BY <2>1, <2>3, <2>5 DEF MicAgrees, RecorderOK
  <2>. QED
    BY <2>3, <2>4, <2>6, <2>7 DEF DictInv
<1>. QED
  BY <1>1, <1>2 DEF DictInv, RecorderOK

\* What is heard is put into a field as it stood with the word, never empty.
LEMMA HearGood ==
    ASSUME DictInv, NEW t \in live, Hear(t) \/ UNCHANGED <<text, emptied>>,
           UNCHANGED <<note, kind, loads, answered>>
    PROVE  FieldsOK' /\ text' \in Text /\ emptied' \subseteq Field
<1>1. CASE UNCHANGED <<text, emptied>>
  <2>1. FieldsOK'
    BY <1>1, FieldsStay DEF DictInv
  <2>. QED
    BY <1>1, <2>1 DEF DictInv, EditorOK, HistoryOK
<1>2. CASE t.for \in Field /\ Hear(t)
  <2>. DEFINE g == t.for
              heard == base \cup {t.word}
  <2>1. text' = [text EXCEPT ![g] = heard] /\ emptied' = emptied \ {g} /\ g \in Field
    BY <1>2 DEF Hear
  <2>2. heard \in SUBSET Word /\ heard # {}
    BY DEF DictInv, RecorderOK, Task
  <2>. HIDE DEF g, heard
  <2>3. text' \in Text /\ text'[g] # {} /\ \A f \in Field \ {g} : text'[f] = text[f]
    BY <2>1, <2>2 DEF DictInv, EditorOK, Text
  <2>4. FieldsOK'
    BY <2>1, <2>3 DEF DictInv, HistoryOK, FieldsOK, note
  <2>. QED
    BY <2>1, <2>3, <2>4 DEF DictInv, HistoryOK
<1>. QED
  BY <1>1, <1>2 DEF Hear

LEMMA ResultSafe == ASSUME DictInv, NEW t \in live, Result(t) PROVE DictInv'
<1>1. /\ Hear(t)
      /\ UNCHANGED <<note, screen, kind, locked, focus, loads, isRecord, recorder,
                     words, answered, adrift>>
  BY DEF Result
<1>2. FieldsOK' /\ text' \in Text /\ emptied' \subseteq Field
  BY <1>1, HearGood
<1>3. RecorderOK' /\ NoteOK'
  BY <1>1, RecorderStays, NoteStays DEF DictInv
<1>4. EditorOK' /\ HistoryOK' /\ MicAgrees'
  BY <1>1, <1>2 DEF DictInv, EditorOK, HistoryOK, MicAgrees, recorder
<1>. QED
  BY <1>2, <1>3, <1>4 DEF DictInv

LEMMA FinalSafe == ASSUME DictInv, NEW t \in live, Final(t) PROVE DictInv'
<1>1. /\ Hear(t) \/ UNCHANGED <<text, emptied>>
      /\ HangUp(t) /\ adrift' = (adrift \/ running)
      /\ UNCHANGED <<note, screen, kind, locked, focus, loads, isRecord, base,
                     words, answered>>
  BY DEF Final
<1>2. FieldsOK' /\ text' \in Text /\ emptied' \subseteq Field
  BY <1>1, HearGood
<1>3. RecorderOK' /\ NoteOK' /\ ~running'
  BY <1>1, HangUpGood, NoteStays DEF DictInv
<1>4. EditorOK' /\ HistoryOK'
  BY <1>1, <1>2 DEF DictInv, EditorOK, HistoryOK
<1>5. ~adrift' => ~running /\ ~adrift
  BY <1>1
<1>6. MicAgrees'
  BY <1>1, <1>3, <1>5 DEF DictInv, MicAgrees, RecorderOK
<1>. QED
  BY <1>2, <1>3, <1>4, <1>6 DEF DictInv

-----------------------------------------------------------------------------
(* The specification *)

LEMMA InitSafe == ASSUME Init PROVE DictInv
<1>1. /\ here = TRUE /\ doc = [f \in Field |-> {Default}]
      /\ screen = "list" /\ kind = "none" /\ locked = FALSE /\ text = Blank /\ focus = "none"
      /\ loads = 0 /\ isRecord = FALSE
      /\ running = FALSE /\ tap = FALSE /\ task = Nil /\ live = {} /\ base = {}
      /\ words = 0 /\ emptied = {} /\ answered = FALSE /\ adrift = FALSE
  BY DEF Init
<1>2. RecorderOK
  BY <1>1, NilIsWord DEF RecorderOK, OneRecording
<1>3. doc \in Saved /\ words \in Word
  BY <1>1, BoundAssumption DEF Saved, Default, Word
<1>4. EditorOK /\ FieldsOK
  BY <1>1, BlankIsText DEF EditorOK, FieldsOK, Kinds
<1>5. NoteOK /\ HistoryOK /\ MicAgrees
  BY <1>1, <1>3 DEF NoteOK, HistoryOK, MicAgrees
<1>. QED
  BY <1>2, <1>4, <1>5 DEF DictInv

LEMMA TapsSafe == ASSUME DictInv, Taps PROVE DictInv'
BY OpenSafe, FocusSafe, EndEditingSafe, TypeSafe, ClearSafe, VoiceSafe, LockOnSafe,
   UnlockSafe, CoverSafe, SearchSafe
   DEF Taps

LEMMA StepSafe == ASSUME DictInv, Next PROVE DictInv'
<1>1. CASE User
  BY <1>1, TapsSafe, UncoverSafe, LeaveSafe, EndSearchSafe DEF User, Ends
<1>2. CASE Answers
  BY <1>2, LoadAnswerSafe, ResultSafe, FinalSafe DEF Answers
<1>3. CASE Outside
  BY <1>3, AlertTakenSafe, EngineStopsSafe DEF Outside
<1>. QED
  BY <1>1, <1>2, <1>3 DEF Next

LEMMA DictInvHolds == Spec => []DictInv
<1>1. ASSUME DictInv, UNCHANGED vars PROVE DictInv'
  BY <1>1, NothingHappens DEF vars
<1>. QED
  BY InitSafe, StepSafe, <1>1, PTL DEF Spec

\* The counters are no part of anything else.
CountersOK == taps \in Nat /\ breaks \in Nat

LEMMA CountersHold == Spec => []CountersOK
<1>1. Init => CountersOK
  BY DEF Init, CountersOK
<1>2. CountersOK /\ [Next]_vars => CountersOK'
  BY DEF CountersOK, Next, User, Answers, Outside, vars
<1>. QED
  BY <1>1, <1>2, PTL DEF Spec

\* TypeOK: every variable has its type, a saved note no empty field.
THEOREM TypeCorrect == Spec => []TypeOK
<1>1. DictInv /\ CountersOK => TypeOK
  BY DEF DictInv, CountersOK, TypeOK, RecorderOK, NoteOK, EditorOK, HistoryOK
<1>. QED
  BY DictInvHolds, CountersHold, <1>1, PTL

\* OneRecording: stopRecording and the callbacks of SFSpeechRecognizer never leave
\* two recordings on the bus, or a tap that nobody will take away.
THEOREM OneRecordingSafe == Spec => []OneRecording
<1>1. DictInv => OneRecording
  BY DEF DictInv, RecorderOK
<1>. QED
  BY DictInvHolds, <1>1, PTL

\* MicAgrees: stopRecording, the editors and their locks keep isRecord and audioEngine
\* in step, but for engines and alerts that go by themselves and lockON while isRecord.
THEOREM MicSafe == Spec => []MicAgrees
<1>1. DictInv => MicAgrees
  BY DEF DictInv
<1>. QED
  BY DictInvHolds, <1>1, PTL

-----------------------------------------------------------------------------
(* What becomes of the note *)

\* A note that was there is gone only when both fields are empty.
LEMMA GoneWhenBlank == ASSUME Save, here, ~here' PROVE text = Blank
BY DEF Save, note

LEMMA BlankWasEmptied ==
    ASSUME DictInv, here, answered, text = Blank PROVE emptied = Field
BY BlankIsText DEF DictInv, HistoryOK, FieldsOK

LEMMA OnlySaveDeletes ==
    ASSUME Next, here, ~here' PROVE Save
<1>1. CASE User
  <2>1. here' = here \/ Save
    BY <1>1 DEF User, Taps, Ends, Open, Focus, EndEditing, Type, Clear, Voice, LockOn,
                Unlock, Cover, Search, Uncover, Leave, EndSearch, Restart, note
  <2>. QED
    BY <2>1
<1>2. CASE Answers
  BY <1>2 DEF Answers, LoadAnswer, Result, Final, note
<1>3. CASE Outside
  BY <1>3 DEF Outside, AlertTaken, EngineStops, note
<1>. QED
  BY <1>1, <1>2, <1>3 DEF Next

\* DeletedOnPurpose: saveNote deletes a note that was read only after the user
\* emptied both of its fields.
THEOREM DeletedOnPurposeHolds == Spec => DeletedOnPurpose
<1>1. ASSUME DictInv, [Next]_vars, here, ~here' PROVE ~answered \/ emptied = Field
  <2>1. Next
    BY <1>1 DEF vars, note
  <2>. QED
    BY <1>1, <2>1, OnlySaveDeletes, GoneWhenBlank, BlankWasEmptied DEF DictInv
<1>. QED
  BY <1>1, DictInvHolds, PTL DEF Spec, DeletedOnPurpose

-----------------------------------------------------------------------------
(* What becomes of a word *)

\* The word is in the field before the step; the user neither empties it nor goes.
Standing(f, w) ==
    /\ f \in Field /\ w \in Word /\ Secure(f, w)
    /\ f \notin emptied' \ emptied /\ screen' \in {"editor", "cover"}

LEMMA StopSecure ==
    ASSUME DictInv, NEW f, NEW w, Standing(f, w), live' = Cancel(live),
           UNCHANGED <<note, text, base>>,
           loads' > 0 /\ here => w \in doc[f], screen' = "cover" /\ here => w \in doc[f]
    PROVE  Secure(f, w)'
<1>1. (\E t \in live' : t.for = f) => \E t \in live : t.for = f
  BY CancelKeeps DEF DictInv
<1>. QED
  BY <1>1 DEF Standing, Secure, note

LEMMA SameSecure ==
    ASSUME NEW f, NEW w, Standing(f, w), live' \subseteq live,
           UNCHANGED <<note, screen, text, base, loads>>
    PROVE  Secure(f, w)'
BY DEF Standing, Secure, note

LEMMA BeginSecure ==
    ASSUME DictInv, NEW f, NEW w, NEW g \in Field, Standing(f, w), ~tap, Begin(g),
           base' = BaseOf(g), UNCHANGED <<note, screen, text, loads>>
    PROVE  Secure(f, w)'
<1>1. base' \subseteq Word
  BY DEF BaseOf, DictInv, EditorOK, Text
<1>2. \A t \in live' : t.for = g
  BY <1>1, BeginGood DEF DictInv, HistoryOK
<1>3. (\E t \in live' : t.for = f) => w \in base'
  BY <1>2 DEF BaseOf, Standing, Secure
<1>. QED
  BY <1>3 DEF Standing, Secure, note

LEMMA VoiceSecure ==
    ASSUME DictInv, NEW f, NEW w, Standing(f, w), Voice PROVE Secure(f, w)'
<1>1. CASE running
  BY <1>1, StopSecure DEF Voice, Stop, note, Standing, Secure
<1>2. CASE ~running /\ tap
  BY <1>2 DEF Voice, Restart, Standing
<1>3. CASE ~running /\ ~tap
  <2>. DEFINE g == IF focus = "title" THEN "title" ELSE "des"
  <2>1. g \in Field
    BY DEF Field
  <2>2. /\ base' = BaseOf(g) /\ Begin(g) /\ UNCHANGED <<note, screen, text, loads>>
    BY <1>3 DEF Voice
  <2>. HIDE DEF g
  <2>. QED
    BY <1>3, <2>1, <2>2, BeginSecure
<1>. QED
  BY <1>1, <1>2, <1>3 DEF DictInv, RecorderOK

\* The field that is written or emptied is another, or written with the word.
LEMMA TypeSecure ==
    ASSUME DictInv, NEW f, NEW w, Standing(f, w), Type \/ Clear PROVE Secure(f, w)'
<1>1. UNCHANGED <<note, screen, loads, live, base>>
  BY DEF Type, Clear, recorder
<1>2. CASE Type
  <2>1. text' = [text EXCEPT ![focus] = @ \cup {words + 1}] /\ focus \in Field
    BY <1>2 DEF Type
  <2>2. w \in text'[f]
    BY <2>1 DEF Standing, Secure, DictInv, EditorOK, Text
  <2>. QED
    BY <1>1, <2>2 DEF Standing, Secure, note
<1>3. CASE Clear
  <2>1. text' = [text EXCEPT ![focus] = {}] /\ focus \in Field /\ emptied' = emptied \cup {focus}
    BY <1>3 DEF Clear
  <2>2. f \notin emptied
    BY DEF Standing, Secure, DictInv, FieldsOK
  <2>3. f # focus
    BY <2>1, <2>2 DEF Standing
  <2>4. w \in text'[f]
    BY <2>1, <2>3 DEF Standing, Secure, DictInv, EditorOK, Text
  <2>. QED
    BY <1>1, <2>4 DEF Standing, Secure, note
<1>. QED
  BY <1>2, <1>3

\* On the way to another screen the word is saved with the rest.
LEMMA CoverSecure ==
    ASSUME DictInv, NEW f, NEW w, Standing(f, w), Cover PROVE Secure(f, w)'
<1>. DEFINE filled == [g \in Field |-> IF text[g] = {} THEN {Default} ELSE text[g]]
<1>1. text # Blank
  BY BlankIsText DEF Standing, Secure
<1>2. w \in filled[f]
  BY DEF Standing, Secure
<1>. HIDE DEF filled
<1>3. /\ live' = Cancel(live) /\ UNCHANGED <<text, base, loads>>
      /\ (here' = TRUE /\ doc' = filled) \/ (~here /\ ~here')
  BY <1>1 DEF Cover, Stop, Save, note, filled
<1>4. here' => w \in doc'[f]
  BY <1>2, <1>3
<1>5. (\E t \in live' : t.for = f) => \E t \in live : t.for = f
  BY <1>3, CancelKeeps DEF DictInv
<1>. QED
  BY <1>3, <1>4, <1>5 DEF Standing, Secure

\* Whether or not its recording is stopped, the word has been saved.
LEMMA UncoverSecure ==
    ASSUME DictInv, NEW f, NEW w, Standing(f, w), Uncover PROVE Secure(f, w)'
<1>1. /\ UNCHANGED <<note, text, base>> /\ screen = "cover" /\ screen' = "editor"
      /\ live' = live \/ live' = Cancel(live)
  BY DEF Uncover, BeginEditing, Stop
<1>2. here => w \in doc[f]
  BY <1>1 DEF Standing, Secure
<1>3. (\E t \in live' : t.for = f) => \E t \in live : t.for = f
  BY <1>1, CancelKeeps DEF DictInv
<1>. QED
  BY <1>1, <1>2, <1>3 DEF Standing, Secure, note

LEMMA LoadAnswerSecure ==
    ASSUME DictInv, NEW f, NEW w, Standing(f, w), LoadAnswer PROVE Secure(f, w)'
<1>1. /\ loads > 0 /\ text' = (IF here THEN doc ELSE text)
      /\ UNCHANGED <<note, screen, live, base>>
  BY DEF LoadAnswer, recorder
<1>2. (here => w \in doc[f]) /\ w \in text'[f]
  BY <1>1 DEF Standing, Secure
<1>. QED
  BY <1>1, <1>2 DEF Standing, Secure, note

\* What is heard is written between what stood there when the recording began.
LEMMA HearSecure ==
    ASSUME DictInv, NEW f, NEW w, Standing(f, w), NEW t \in live,
           Hear(t) \/ UNCHANGED <<text, emptied>>, live' \subseteq live,
           UNCHANGED <<note, screen, loads, base>>
    PROVE  Secure(f, w)'
<1>1. CASE UNCHANGED text
  BY <1>1, SameSecure
<1>2. CASE t.for \in Field /\ Hear(t)
  <2>. DEFINE g == t.for
              heard == base \cup {t.word}
  <2>1. text' = [text EXCEPT ![g] = heard]
    BY <1>2 DEF Hear
  <2>2. f = g => w \in heard
    BY DEF Standing, Secure
  <2>. HIDE DEF g, heard
  <2>3. w \in text'[f]
    BY <2>1, <2>2 DEF Standing, Secure, DictInv, EditorOK, Text
  <2>. QED
    BY <2>3 DEF Standing, Secure, note
<1>. QED
  BY <1>1, <1>2 DEF Hear

LEMMA TapsSecure ==
    ASSUME DictInv, NEW f, NEW w, Standing(f, w), Taps PROVE Secure(f, w)'
<1>1. ASSUME NEW k \in Kinds \ {"none"}, Open(k) PROVE FALSE
  BY <1>1 DEF Open, Standing, Secure
<1>2. ASSUME NEW g \in Field, Focus(g) PROVE Secure(f, w)'
  <2>1. live' = Cancel(live) /\ UNCHANGED <<note, screen, text, base, loads>>
    BY <1>2 DEF Focus, BeginEditing, Stop
  <2>. QED
    BY <2>1, StopSecure DEF Standing, Secure
<1>3. CASE EndEditing
  BY <1>3, SameSecure DEF EndEditing, recorder
<1>4. CASE LockOn
  <2>1. live' = Cancel(live) /\ UNCHANGED <<note, screen, text, base, loads>>
    BY <1>4 DEF LockOn, Stop
  <2>. QED
    BY <2>1, StopSecure DEF Standing, Secure
<1>5. CASE Unlock
  BY <1>5, SameSecure DEF Unlock, recorder
<1>6. CASE Search
  BY <1>6 DEF Search, Restart, Standing, Secure
<1>. QED
  BY <1>1, <1>2, <1>3, <1>4, <1>5, <1>6, TypeSecure, VoiceSecure, CoverSecure DEF Taps

LEMMA StepSecure ==
    ASSUME DictInv, NEW f, NEW w, Standing(f, w), Next PROVE Secure(f, w)'
<1>1. ~Leave /\ ~EndSearch
  BY DEF Leave, EndSearch, Standing, Secure
<1>2. CASE User
  BY <1>1, <1>2, TapsSecure, UncoverSecure DEF User, Ends
<1>3. ASSUME NEW t \in live, Result(t) \/ Final(t) PROVE Secure(f, w)'
  <2>1. /\ Hear(t) \/ UNCHANGED <<text, emptied>>
        /\ live' \subseteq live
        /\ UNCHANGED <<note, screen, loads, base>>
    BY <1>3 DEF Result, Final, HangUp, recorder
  <2>. QED
    BY <2>1, HearSecure
<1>4. CASE Answers
  BY <1>3, <1>4, LoadAnswerSecure DEF Answers
<1>5. CASE Outside
  <2>1. ~AlertTaken
    BY DEF AlertTaken, Standing, Secure
  <2>2. CASE EngineStops
    BY <2>2, SameSecure DEF EngineStops, editor
  <2>. QED
    BY <1>5, <2>1, <2>2 DEF Outside
<1>. QED
  BY <1>2, <1>4, <1>5 DEF Next

\* WordsStay: what is typed or said and stands in a field of an editor stays there
\* over results, answers, recordings and other screens.
THEOREM WordsStayHolds == Spec => WordsStay
<1>. DEFINE Kept == \A f \in Field, w \in Word \ {Default} :
               Secure(f, w) /\ f \notin emptied' \ emptied /\ screen' \in {"editor", "cover"}
                 => Secure(f, w)'
<1>1. ASSUME DictInv, [Next]_vars PROVE Kept
  <2>1. SUFFICES ASSUME NEW f \in Field, NEW w \in Word, Standing(f, w) PROVE Secure(f, w)'
    BY DEF Standing
  <2>2. CASE Next
    BY <1>1, <2>1, <2>2, StepSecure
  <2>3. CASE UNCHANGED vars
    BY <2>1, <2>3, SameSecure DEF vars, editor, recorder
  <2>. QED
    BY <1>1, <2>2, <2>3
<1>. QED
  BY <1>1, DictInvHolds, PTL DEF Spec, WordsStay

=============================================================================
