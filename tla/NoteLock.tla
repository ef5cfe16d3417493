------------------------------ MODULE NoteLock ------------------------------
(***************************************************************************)
(* The passcode lock of a note: isLocked in the note, passcode in the      *)
(* account, hasLock and lockStatus in the editors, and the buttons that    *)
(* lead from one to the other.                                             *)
(*                                                                         *)
(* One device of the owner is modelled in full: its list of notes, its two *)
(* editors (NoteDetail for a row, CreateNote for a new note), their alerts,*)
(* the passcode screen and a visit to the share settings.  Everybody else, *)
(* other devices of the account and collaborators, is Elsewhere.           *)
(*                                                                         *)
(* Abstractions.  There is one note.  Of a passcode only matters whether it*)
(* is empty; who answers an alert knows the passcode the alert was built   *)
(* with, so a wrong answer, which only asks again, is left out.  The bar is *)
(* that of iOS 13, and a transition between two screens is one step.  A    *)
(* query answered after its editor was left changes nothing here: what it  *)
(* does to the app-wide list is in Sharing.  One row request and one save  *)
(* of a passcode are under way at a time, and no screen is pushed over the *)
(* passcode screen or the share settings.  Whether isEditing refuses a row *)
(* is in EditLock: here it may.                                            *)
(***************************************************************************)
EXTENDS Naturals, Sequences

CONSTANTS MaxTaps,    \* bound: what the user does
          MaxOthers,  \* bound: writes from elsewhere
          MaxCrashes, \* bound: times the app is killed
          MaxPending  \* bound: unanswered queries of one kind

ASSUME BoundAssumption ==
    /\ MaxTaps \in Nat /\ MaxOthers \in Nat
    /\ MaxCrashes \in Nat /\ MaxPending \in Nat

VARIABLES
    note,     \* the document on the server
    coded,    \* the account's passcode on the server is not empty
    queue,    \* the device's writes, accepted by Firestore and not yet sent
    screen,   \* what the device shows
    ed,       \* its editor, below the passcode screen or the share settings
    row,      \* the note's row in filteredNoteList
    selected, \* is it selected?
    hidden,   \* does emptyNoteView lie over the list?
    alert,    \* the alert that covers the screen
    calls,    \* calls[k]: queries of kind k whose callback has not run
    people,   \* the app-wide sharedUsers is not empty
    form,     \* the text fields of the passcode screen
    taps, others, crashes, \* bounded counters
    wasCoded, \* history: the account has had a passcode
    slipped   \* history: an empty passcode was stored or used to lock a note

server   == <<note, coded>>
list     == <<row, selected, hidden>>
counters == <<taps, others, crashes>>
history  == <<wasCoded, slipped>>
vars     == <<server, list, queue, screen, ed, alert, calls, people, form, counters, history>>

Screens == {"list", "detail", "create", "passcode", "share"}
Rows    == {"none", "open", "locked"}
Forms   == {"empty", "unequal", "valid"}
Kinds   == {"rows", "ask", "delete", "check", "load", "add", "unlock", "edit",
            "fill", "store", "late", "people"}
Bars    == {"none", "unlock", "lock"}

Note    == [here : BOOLEAN, locked : BOOLEAN, shared : BOOLEAN, mine : BOOLEAN]
Editor  == [kind : {"detail", "create"}, hasLock : BOOLEAN, lockStatus : BOOLEAN,
            isRecord : BOOLEAN, isShared : BOOLEAN, lockBtn : BOOLEAN, shareBtn : BOOLEAN,
            bar : Bars, filled : BOOLEAN, focused : BOOLEAN, recorded : BOOLEAN]
Alert   == [kind : {"none", "loading", "message", "stored"}]
           \cup [kind : {"sheet", "unlock", "edit", "delete"}, with : BOOLEAN]
Write   == [kind : {"save", "set"}, locked : BOOLEAN, shared : BOOLEAN]
           \cup [kind : {"share", "code"}, to : BOOLEAN] \cup [kind : {"delete"}]

NoAlert == [kind |-> "none"]
Loading == [kind |-> "loading"]
Message == [kind |-> "message"]
Stored  == [kind |-> "stored"]
Delete  == [kind |-> "delete"]

\* Mutant: every segue prepares a NoteDetail.
NewDetail(k, locked) ==
    [kind |-> "detail", hasLock |-> FALSE, lockStatus |-> locked, isRecord |-> FALSE,
     isShared |-> FALSE, lockBtn |-> FALSE, shareBtn |-> FALSE, bar |-> "none",
     filled |-> FALSE, focused |-> FALSE, recorded |-> FALSE]

\* A new view controller, in the state its properties are declared with.
NewEditor(k, locked) ==
    [kind |-> k, hasLock |-> FALSE, lockStatus |-> locked, isRecord |-> FALSE,
     isShared |-> FALSE, lockBtn |-> FALSE, shareBtn |-> FALSE, bar |-> "none",
     filled |-> FALSE, focused |-> FALSE, recorded |-> FALSE]

-----------------------------------------------------------------------------
(* Latency compensated reads: the documents under the unsent writes *)

Newest(Test(_)) ==
    {queue[i] : i \in {i \in DOMAIN queue :
        Test(queue[i]) /\ \A j \in DOMAIN queue : j > i => ~Test(queue[j])}}

Saves(w) == w.kind \in {"save", "set"}

HereSeen ==
    LET new == Newest(LAMBDA w : w.kind \in {"set", "delete"})
    IN  IF new = {} THEN note.here ELSE \E w \in new : w.kind = "set"

LockSeen ==
    LET new == Newest(Saves)
    IN  IF new = {} THEN note.locked ELSE \E w \in new : w.locked

MineSeen == note.mine \/ Newest(Saves) # {}

SharedSeen ==
    LET new == Newest(LAMBDA w : Saves(w) \/ w.kind = "share")
    IN  IF new = {} THEN note.shared
        ELSE \E w \in new : IF w.kind = "share" THEN w.to ELSE w.shared

CodedSeen ==
    LET new == Newest(LAMBDA w : w.kind = "code")
    IN  IF new = {} THEN coded ELSE \E w \in new : w.to

-----------------------------------------------------------------------------
(* What the handlers of an editor do to it *)

\* setupNavBarUI of NoteDetail.
SetupNavBarUI(e) ==
    IF e.lockStatus
    THEN [e EXCEPT !.hasLock = TRUE, !.lockBtn = FALSE, !.shareBtn = FALSE, !.bar = "lock"]
    ELSE [e EXCEPT !.lockBtn = FALSE, !.shareBtn = FALSE, !.bar = "none"]

\* Mutant: the share button does not depend on hasLock.
CheckSharedAnyhow(e, shared) ==
    [e EXCEPT !.isShared = shared, !.lockBtn = ~shared /\ ~e.hasLock, !.shareBtn = TRUE]

\* The answer of checkIfDisableShareBtn, NoteDetail.
CheckShared(e, shared) ==
    [e EXCEPT !.isShared = shared, !.lockBtn = ~shared /\ ~e.hasLock,
              !.shareBtn = shared \/ ~e.hasLock]

\* checkIfDisableShareBtn of CreateNote, on the app-wide list; the open lock
\* enters the bar whatever hasLock says.
CheckCached(e, shared) ==
    [e EXCEPT !.isShared = shared, !.lockBtn = ~shared /\ e.filled,
              !.shareBtn = shared \/ (e.filled /\ ~e.hasLock), !.bar = "unlock"]

\* switchBetweenTextFieldAndTextView, but for NoteDetail's query.
SwitchField(e, shared) ==
    LET f == [e EXCEPT !.isRecord = FALSE, !.hasLock = FALSE, !.focused = TRUE]
    IN  IF e.kind = "detail" THEN [f EXCEPT !.bar = "none"]
        ELSE [CheckCached(f, shared) EXCEPT !.bar = "none"]

\* changeContent.
ChangeContent(e, filled) ==
    IF filled
    THEN [e EXCEPT !.filled = TRUE, !.lockBtn = ~e.isShared, !.shareBtn = ~e.hasLock]
    ELSE [e EXCEPT !.filled = FALSE, !.hasLock = FALSE, !.lockBtn = FALSE,
                   !.shareBtn = FALSE, !.bar = "none"]

\* voice: stopping enables both buttons whatever hasLock says.
ToggleVoice(e) ==
    IF e.isRecord
    THEN [e EXCEPT !.isRecord = FALSE, !.lockBtn = TRUE, !.shareBtn = TRUE]
    ELSE [e EXCEPT !.isRecord = TRUE, !.lockBtn = FALSE, !.shareBtn = FALSE,
                   !.bar = "none", !.focused = FALSE, !.recorded = TRUE]

\* addLockIconToNavBar.
AddLockIcon(e) ==
    [e EXCEPT !.hasLock = TRUE, !.shareBtn = FALSE, !.bar = "unlock",
              !.lockBtn = @ \/ e.kind = "detail"]

\* "Remove Lock".
RemoveLock(e) == [e EXCEPT !.hasLock = FALSE, !.shareBtn = TRUE, !.bar = "none"]

\* lockON and setupUILockON.
LockOn(e) ==
    [e EXCEPT !.lockStatus = TRUE, !.lockBtn = FALSE, !.shareBtn = FALSE,
              !.bar = "lock", !.focused = FALSE]

\* The right passcode: lockStatus = false and setupUIWhenLockOFF.
LockOff(e) == AddLockIcon([e EXCEPT !.lockStatus = FALSE, !.lockBtn = TRUE])

-----------------------------------------------------------------------------
Init ==
    /\ note \in [here : BOOLEAN, locked : BOOLEAN, shared : BOOLEAN, mine : {FALSE}]
    /\ note.shared \/ note.locked => note.here
    /\ coded \in BOOLEAN
    /\ queue = <<>>
    /\ screen = "list" /\ ed = NewEditor("detail", FALSE)
    /\ row = "none" /\ selected = FALSE /\ hidden = FALSE
    /\ alert = Loading
    /\ calls = [k \in Kinds |-> IF k = "rows" THEN 1 ELSE 0]
    /\ people = FALSE /\ form = "empty"
    /\ taps = 0 /\ others = 0 /\ crashes = 0
    /\ wasCoded = coded /\ slipped = (note.locked /\ ~coded)

Pend(ks) == [k \in Kinds |-> IF k \in ks THEN calls[k] + 1 ELSE calls[k]]
MayPend(ks) == \A k \in ks : calls[k] < MaxPending
Answered(k) == [calls EXCEPT ![k] = @ - 1]

\* Callbacks of an editor that is gone change nothing, but for the one of its
\* passcode screen, which still stores the passcode.
Abandoned == [k \in Kinds |-> CASE k = "late" -> calls["late"] + calls["store"]
                               [] k \in {"rows", "delete"} -> calls[k]
                               [] OTHER -> 0]

Send(w) == queue' = Append(queue, w)

\* An alert is not presented over another one.
Present(a) == alert' = IF alert = NoAlert THEN a ELSE alert

\* Back in the list: viewWillAppear, and viewDidAppear loads it behind "Loading..".
ShowList ==
    /\ screen' = "list"
    /\ alert' = Loading
    /\ hidden' = FALSE
    /\ ed' = NewEditor("detail", FALSE)
    /\ UNCHANGED <<row, selected>>
    /\ calls' = [Abandoned EXCEPT !["rows"] = @ + 1]

\* The app is started again: Firestore's queue is on disk.
Restart ==
    /\ screen' = "list" /\ alert' = Loading
    /\ calls' = [k \in Kinds |-> IF k = "rows" THEN 1 ELSE 0]
    /\ ed' = NewEditor("detail", FALSE) /\ people' = FALSE /\ form' = "empty"
    /\ row' = "none" /\ selected' = FALSE /\ hidden' = FALSE
    /\ UNCHANGED <<server, queue>>

Crash == Restart /\ UNCHANGED history

-----------------------------------------------------------------------------
(* The list of notes *)

\* The listener of the owner's notes, or pulling the list down.
Reload ==
    /\ MayPend({"rows"})
    /\ calls' = Pend({"rows"})
    /\ IF screen = "list" THEN Present(Loading) ELSE UNCHANGED alert
    /\ UNCHANGED <<server, list, queue, screen, ed, people, form, history>>

\* loadNoteList's callback.  An empty result leaves the rows below emptyNoteView;
\* reloadData deselects; dismiss takes away whatever alert is shown.
LoadRows ==
    /\ calls["rows"] > 0
    /\ calls' = Answered("rows")
    /\ alert' = NoAlert
    /\ IF HereSeen
       THEN /\ row' = IF LockSeen THEN "locked" ELSE "open"
            /\ hidden' = FALSE /\ selected' = FALSE
       ELSE hidden' = TRUE /\ UNCHANGED <<row, selected>>
    /\ UNCHANGED <<server, queue, screen, ed, people, form, history>>

\* Mutant: rows can be touched while they are loaded.
MayTouchAnyhow == screen = "list"

\* "Loading.." and every other alert keep the rows from being touched.
MayTouch == screen = "list" /\ alert = NoAlert

\* didSelectRowAt: getEditingValue is called.
TapRow ==
    /\ MayTouch /\ ~hidden /\ row # "none"
    /\ calls["ask"] = 0
    /\ calls' = Pend({"ask"})
    /\ selected' = TRUE
    /\ UNCHANGED <<server, row, hidden, queue, screen, ed, alert, people, form, history>>

\* viewWillAppear of NoteDetail; the title field takes the focus unless it has it,
\* and asks for the shared users once more than the callers count.
AppearDetail(e) ==
    \E focus \in BOOLEAN :
        ed' = IF focus /\ ~e.lockStatus THEN SwitchField(SetupNavBarUI(e), people)
              ELSE SetupNavBarUI(e)

\* getEditingValue's callback: "Someone is editing this note, please wait", or
\* prepare(for:), which needs a selected row and hands its isLocked on.
OpenRow ==
    /\ calls["ask"] > 0
    /\ IF ~HereSeen THEN Restart
       ELSE \/ /\ Present(Message)
               /\ calls' = Answered("ask")
               /\ UNCHANGED <<server, list, queue, screen, ed, people, form>>
            \/ ~selected /\ Restart
            \/ /\ selected
               /\ screen' = "detail"
               /\ AppearDetail(NewEditor("detail", row = "locked"))
               /\ calls' = [Pend({"check", "load"}) EXCEPT !["ask"] = @ - 1]
               /\ UNCHANGED <<server, list, queue, alert, people, form>>
    /\ UNCHANGED history

\* executeDeleteNote: deleteNote, and the row goes.
Remove ==
    /\ queue' = Append(queue, Delete)
    /\ row' = "none" /\ hidden' = TRUE /\ selected' = FALSE
    /\ UNCHANGED <<server, screen, ed, people, form>>

\* deleteAction: a locked row asks for the passcode first.
SwipeDelete ==
    /\ MayTouch /\ ~hidden /\ row # "none"
    /\ IF row = "open" THEN Remove /\ UNCHANGED calls
       ELSE /\ MayPend({"delete"})
            /\ calls' = Pend({"delete"})
            /\ selected' = FALSE
            /\ UNCHANGED <<server, row, hidden, queue, screen, ed, people, form>>
    /\ UNCHANGED <<alert, history>>

\* "+": prepare(for:) AddNewNote; an empty allNoteList gives the note's id.
AddNote ==
    /\ MayTouch /\ row = "none"
    /\ calls["ask"] = 0
    /\ screen' = "create"
    /\ \E focus \in BOOLEAN :
          LET e == NewEditor("create", FALSE)
          IN  ed' = CheckCached(IF focus THEN SwitchField(e, people) ELSE e, people)
    /\ UNCHANGED <<server, list, queue, alert, calls, people, form, history>>

-----------------------------------------------------------------------------
(* The editors *)

InEditor == screen = ed.kind /\ alert = NoAlert

\* A handler that changes only the editor.
Edits(e) ==
    /\ ed' = e
    /\ UNCHANGED <<server, list, queue, screen, alert, calls, people, form, history>>

\* A tap on the title or the description, which lockView covers when locked.
FocusField ==
    /\ InEditor /\ ~ed.lockStatus
    /\ ed' = SwitchField(ed, people)
    /\ IF ed.kind = "detail" THEN MayPend({"check"}) /\ calls' = Pend({"check"})
       ELSE UNCHANGED calls
    /\ UNCHANGED <<server, list, queue, screen, alert, people, form, history>>

Type == InEditor /\ ed.focused /\ \E filled \in BOOLEAN : Edits(ChangeContent(ed, filled))

\* Recognized speech is put into the fields without changeContent.
Dictate == InEditor /\ ed.recorded /\ Edits([ed EXCEPT !.filled = TRUE])

\* The microphone; it is disabled while the note is locked.
Voice == InEditor /\ ~ed.lockStatus /\ Edits(ToggleVoice(ed))

\* lockON, from the open lock in the bar.
LockNote ==
    /\ InEditor /\ ed.bar = "unlock"
    /\ IF ed.filled
       THEN /\ ed' = LockOn(ed)
            /\ slipped' = (slipped \/ (ed.kind = "create" /\ ~wasCoded))
            /\ UNCHANGED alert
       ELSE Present(Message) /\ UNCHANGED <<ed, slipped>>
    /\ UNCHANGED <<server, list, queue, screen, calls, people, form, wasCoded>>

\* An alert or the bar asks for a query.
Ask(k) ==
    /\ MayPend({k})
    /\ calls' = Pend({k})
    /\ alert' = NoAlert
    /\ UNCHANGED <<server, list, queue, screen, ed, people, form, history>>

\* lockOFF, and the button on lockView.
AskToUnlock == InEditor /\ (ed.lockStatus \/ ed.bar = "lock") /\ Ask("unlock")

\* addOrRemoveLock: the sheet keeps hasLock as it was.
ShowSheet ==
    /\ InEditor /\ ed.lockBtn
    /\ Present([kind |-> "sheet", with |-> ed.hasLock])
    /\ UNCHANGED <<server, list, queue, screen, ed, calls, people, form, history>>

ChooseRemove ==
    /\ alert.kind = "sheet" /\ alert.with
    /\ ed' = RemoveLock(ed) /\ alert' = NoAlert
    /\ UNCHANGED <<server, list, queue, screen, calls, people, form, history>>

ChooseAdd ==
    /\ alert.kind = "sheet" /\ ~alert.with
    /\ \/ ed.filled /\ Ask("add")
       \/ /\ ~ed.filled /\ alert' = Message
          /\ UNCHANGED <<server, list, queue, screen, ed, calls, people, form, history>>

\* Offered once a query has found a passcode.
ChooseEdit == alert.kind = "sheet" /\ CodedSeen /\ Ask("edit")

\* viewWillDisappear and saveNote; NoteDetail updates, CreateNote sets.
SaveNote ==
    /\ people' = FALSE
    /\ queue' = Append(queue,
          IF ~ed.filled THEN Delete
          ELSE [kind |-> IF ed.kind = "create" THEN "set" ELSE "save",
                locked |-> ed.lockStatus, shared |-> people])

\* On to the passcode screen or the share settings, which load what they show.
GoTo(s, cs) ==
    /\ screen = ed.kind /\ screen' = s
    /\ SaveNote
    /\ ed' = [ed EXCEPT !.focused = FALSE]
    /\ form' = IF s = "passcode" THEN "empty" ELSE form
    /\ s = "passcode" => calls["store"] = 0 /\ calls["late"] = 0
    /\ LET load == IF s = "passcode" THEN "fill" ELSE "people"
       IN  calls' = [cs EXCEPT ![load] = 1]
    /\ UNCHANGED <<server, list, history>>

ShareNote == InEditor /\ ed.shareBtn /\ GoTo("share", calls) /\ UNCHANGED alert

\* Mutant: hasLock is set without a look at the passcode.
AlwaysCoded == TRUE

PasscodeIsSet == CodedSeen

\* "Add Lock": getUserPasscode's callback.
AddLock ==
    /\ calls["add"] > 0
    /\ IF PasscodeIsSet
       THEN /\ ed' = AddLockIcon(ed) /\ calls' = Answered("add")
            /\ UNCHANGED <<server, list, queue, screen, people, form, history>>
       ELSE GoTo("passcode", Answered("add"))
    /\ UNCHANGED alert

\* getUserPasscode's callback in lockOFF, "Edit Passcode" and deleteAction: the
\* alert keeps the passcode; it is not shown by a controller out of sight.
AskPasscode(k) ==
    /\ calls[k] > 0
    /\ calls' = Answered(k)
    /\ IF screen = (IF k = "delete" THEN "list" ELSE ed.kind)
       THEN Present([kind |-> k, with |-> CodedSeen])
       ELSE UNCHANGED alert
    /\ UNCHANGED <<server, list, queue, screen, ed, people, form, history>>

\* The right passcode.  The row deleted is looked up now.
EnterPasscode ==
    /\ alert' = NoAlert
    /\ \/ /\ alert.kind = "unlock"
          /\ ed' = LockOff(ed)
          /\ UNCHANGED <<server, list, queue, screen, calls, people, form, history>>
       \/ alert.kind = "edit" /\ GoTo("passcode", calls)
       \/ /\ alert.kind = "delete" /\ row # "none"
          /\ Remove
          /\ UNCHANGED <<calls, history>>

\* Two alerts for one row: the second deletion is out of the array's range.
DeleteTwice ==
    /\ alert.kind = "delete" /\ row = "none"
    /\ Restart /\ UNCHANGED history

\* OK, or Cancel.
Dismiss ==
    /\ alert.kind \notin {"none", "loading", "stored"}
    /\ alert' = NoAlert
    /\ UNCHANGED <<server, list, queue, screen, ed, calls, people, form, history>>

\* checkIfDisableShareBtn's callback; getSharedUsers takes element 0.
CheckAnswer ==
    /\ calls["check"] > 0
    /\ IF ~HereSeen THEN Restart
       ELSE /\ ed' = CheckShared(ed, SharedSeen)
            /\ people' = SharedSeen
            /\ calls' = Answered("check")
            /\ UNCHANGED <<server, list, queue, screen, alert, form>>
    /\ UNCHANGED history

\* getNoteDetail's callback; a stored note has a title and a description.
LoadAnswer ==
    /\ calls["load"] > 0
    /\ calls' = Answered("load")
    /\ IF HereSeen THEN ed' = [ed EXCEPT !.filled = TRUE] /\ people' = SharedSeen
       ELSE UNCHANGED <<ed, people>>
    /\ UNCHANGED <<server, list, queue, screen, alert, form, history>>

\* Back to the list.
Leave ==
    /\ InEditor
    /\ SaveNote
    /\ ShowList
    /\ UNCHANGED <<server, form, history>>

-----------------------------------------------------------------------------
(* The passcode screen and the share settings *)

\* Back to the editor below, with viewWillAppear.
Return(cs) ==
    /\ screen' = ed.kind
    /\ IF ed.kind = "detail"
       THEN /\ AppearDetail(ed)
            /\ MayPend({"check", "load"})
            /\ calls' = [k \in Kinds |-> IF k \in {"check", "load"} THEN cs[k] + 1 ELSE cs[k]]
       ELSE /\ calls' = cs
            /\ \E focus \in BOOLEAN :
                  ed' = CheckCached(IF focus THEN SwitchField(ed, people) ELSE ed, people)

\* "Please wait.." covers the share settings until the accounts are loaded.
Waiting == calls["people"] > 0

Back ==
    /\ screen \in {"passcode", "share"} /\ alert = NoAlert /\ ~Waiting
    /\ Return([calls EXCEPT !["fill"] = 0])
    /\ UNCHANGED <<server, list, queue, alert, people, form, history>>

\* loadCurrentPasscode's callback.
FillForm ==
    /\ calls["fill"] > 0
    /\ calls' = Answered("fill")
    /\ form' = IF CodedSeen THEN "valid" ELSE form
    /\ UNCHANGED <<server, list, queue, screen, ed, alert, people, history>>

TypePasscode ==
    /\ screen = "passcode" /\ alert = NoAlert
    /\ form' \in Forms
    /\ UNCHANGED <<server, list, queue, screen, ed, alert, calls, people, history>>

\* setPasscode: validation, then isPasscodeEmpty.
SetPasscode ==
    /\ screen = "passcode" /\ alert = NoAlert
    /\ IF form = "valid" THEN calls["store"] = 0 /\ Ask("store")
       ELSE /\ alert' = Message
            /\ UNCHANGED <<server, list, queue, screen, ed, calls, people, form, history>>

\* isPasscodeEmpty's callback: what is stored is read from the field again.
StorePasscode ==
    /\ \E k \in {"store", "late"} :
          /\ calls[k] > 0
          /\ calls' = Answered(k)
          /\ ed' = IF CodedSeen \/ k = "late" THEN ed ELSE AddLockIcon(ed)
    /\ IF screen = "passcode" THEN Present(Stored) ELSE UNCHANGED alert
    /\ Send([kind |-> "code", to |-> form # "empty"])
    /\ wasCoded' = (wasCoded \/ form # "empty")
    /\ slipped' = (slipped \/ form = "empty")
    /\ UNCHANGED <<server, list, screen, people, form>>

\* OK below "Passcode successfully stored": back.
OkStored ==
    /\ alert = Stored /\ alert' = NoAlert
    /\ Return([calls EXCEPT !["fill"] = 0])
    /\ UNCHANGED <<server, list, queue, people, form, history>>

\* loadSharedUsers' callback.
PeopleAnswer ==
    /\ calls["people"] > 0
    /\ IF ~HereSeen THEN Restart
       ELSE /\ people' = SharedSeen
            /\ calls' = Answered("people")
            /\ UNCHANGED <<server, list, queue, screen, ed, alert, form>>
    /\ UNCHANGED history

\* The first account is added, or the last one removed; Sharing has the requests
\* between the tap and the write.
ChangePeople ==
    /\ screen = "share" /\ ~Waiting
    /\ people' = ~people
    /\ Send([kind |-> "share", to |-> ~people])
    /\ UNCHANGED <<server, list, screen, ed, alert, calls, form, history>>

-----------------------------------------------------------------------------
(* The server and everybody else *)

Commit ==
    /\ queue # <<>> /\ queue' = Tail(queue)
    /\ LET w == Head(queue)
       IN  /\ coded' = IF w.kind = "code" THEN w.to ELSE coded
           /\ note' = CASE w.kind = "set" \/ (w.kind = "save" /\ note.here) ->
                            [here |-> TRUE, locked |-> w.locked, shared |-> w.shared,
                             mine |-> TRUE]
                        [] w.kind = "share" /\ note.here -> [note EXCEPT !.shared = w.to]
                        [] w.kind = "delete" -> [note EXCEPT !.here = FALSE]
                        [] OTHER -> note
    /\ UNCHANGED <<list, screen, ed, alert, calls, people, form, history>>

\* A save from elsewhere: an owner's editor writes its lockStatus, a
\* collaborator's always isLocked = false.
SavedElsewhere ==
    \E locked, shared \in BOOLEAN :
        /\ note' = [here |-> TRUE, locked |-> locked, shared |-> shared, mine |-> FALSE]
        /\ slipped' = (slipped \/ (locked /\ ~wasCoded))
        /\ UNCHANGED <<coded, wasCoded>>

DeletedElsewhere == note' = [note EXCEPT !.here = FALSE] /\ UNCHANGED <<coded, history>>

\* Another device's passcode screen.
StoredElsewhere ==
    /\ coded' \in BOOLEAN
    /\ wasCoded' = (wasCoded \/ coded')
    /\ slipped' = (slipped \/ ~coded')
    /\ UNCHANGED note

Elsewhere ==
    /\ SavedElsewhere \/ DeletedElsewhere \/ StoredElsewhere
    /\ UNCHANGED <<list, queue, screen, ed, alert, calls, people, form>>

Lists   == TapRow \/ SwipeDelete \/ AddNote
Bar     == FocusField \/ Type \/ Voice \/ LockNote \/ AskToUnlock \/ ShareNote \/ Leave
Sheet   == ShowSheet \/ ChooseRemove \/ ChooseAdd \/ ChooseEdit
Alerts  == EnterPasscode \/ DeleteTwice \/ Dismiss \/ OkStored
Covers  == Back \/ TypePasscode \/ SetPasscode \/ ChangePeople
Answers == \/ LoadRows \/ OpenRow \/ AddLock \/ CheckAnswer \/ LoadAnswer \/ FillForm
           \/ StorePasscode \/ PeopleAnswer
           \/ \E k \in {"unlock", "edit", "delete"} : AskPasscode(k)

Count(c, max) == c < max /\ c' = c + 1

Next ==
    \/ /\ Count(taps, MaxTaps)
       /\ Lists \/ Bar \/ Sheet \/ Alerts \/ Covers
       /\ UNCHANGED <<others, crashes>>
    \/ /\ Answers \/ Reload \/ Dictate \/ Commit
       /\ UNCHANGED counters
    \/ Count(others, MaxOthers) /\ Elsewhere /\ UNCHANGED <<taps, crashes>>
    \/ Count(crashes, MaxCrashes) /\ Crash /\ UNCHANGED <<taps, others>>

Spec == Init /\ [][Next]_vars

-----------------------------------------------------------------------------
TypeOK ==
    /\ note \in Note /\ coded \in BOOLEAN
    /\ queue \in Seq(Write)
    /\ screen \in Screens /\ ed \in Editor
    /\ screen \in {"detail", "create"} => screen = ed.kind
    /\ row \in Rows /\ selected \in BOOLEAN /\ hidden \in BOOLEAN
    /\ alert \in Alert
    /\ calls \in [Kinds -> Nat]
    /\ people \in BOOLEAN /\ form \in Forms
    /\ taps \in 0 .. MaxTaps /\ others \in 0 .. MaxOthers /\ crashes \in 0 .. MaxCrashes
    /\ wasCoded \in BOOLEAN /\ slipped \in BOOLEAN

\* A stored note's text can be read.
Uncovered == screen # "list" /\ ed.kind = "detail" /\ ~ed.lockStatus

\* A note this device locked, as it sees it, is neither shown nor deleted from
\* its list before a passcode alert was answered: rows older than the lock
\* cannot be touched, since the list comes back behind "Loading..".
PasscodeFirst ==
    [][/\ HereSeen /\ LockSeen /\ MineSeen
       /\ \/ ~Uncovered /\ Uncovered'
          \/ screen = "list" /\ queue' = Append(queue, Delete)
       => alert.kind \in {"unlock", "delete"}]_vars

\* NoteDetail locks a note only in an account that has had a passcode, whatever
\* the order of alerts, answers and screens; that is, unless the app stored an
\* empty one, or a note was locked without one while it was created.
PasscodeBeforeLock ==
    [][screen = "detail" /\ screen' = "detail" /\ ~ed.lockStatus /\ ed'.lockStatus
       => wasCoded \/ slipped]_vars

\* A note with a lock is not offered for sharing, unless it is known to be shared
\* already or a recording was made in this editor.
LockOrShare ==
    screen \in {"detail", "create"} /\ ed.hasLock /\ ed.shareBtn => ed.isShared \/ ed.recorded
=============================================================================
