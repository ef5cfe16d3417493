------------------------------ MODULE NoteList ------------------------------
(***************************************************************************)
(* The owner's list of notes on several devices of one account: the rows   *)
(* NoteViewController holds and shows, the row tapped or swiped, the id a  *)
(* new note is given, and the listener that keeps the lists up to date.    *)
(*                                                                         *)
(* Abstractions.  A note is who made it, the how-many-eth it is and whether*)
(* it is locked.  Rows are in the order of their ids, as the query returns *)
(* documents by name (ids of two digits sort elsewhere; nothing depends on *)
(* which order it is).  Of a search only its scope matters.  The answer to *)
(* a tap does not come while an editor is open, and it may refuse the row: *)
(* isEditing is in EditLock.  Who is asked for the passcode knows it.  The *)
(* screens over an editor are in EditLock and NoteLock, what a deletion    *)
(* does to the accounts it was shared with in Sharing.                     *)
(***************************************************************************)
EXTENDS Integers, Sequences, FiniteSets

CONSTANTS Device,      \* the account's devices
          InitialRows, \* the notes there are at first
          MaxId,       \* bound: the ids in play
          MaxTaps,     \* bound: MaxTaps[d] user actions
          MaxCrashes,  \* bound: times an app is killed
          MaxLoads     \* bound: unanswered loads of a device

ASSUME BoundAssumption ==
    /\ MaxId \in Nat
    /\ MaxTaps \in [Device -> Nat] /\ MaxCrashes \in Nat /\ MaxLoads \in Nat

VARIABLES
    docs,     \* docs[i]: the document with id i, or None
    queue,    \* queue[d]: the device's writes not yet sent
    screen,   \* what the device shows; tabIndex is 1 in "shared"
    all,      \* allNoteList
    filtered, \* filteredNoteList
    empty,    \* is emptyNoteView over the rows?
    shown,    \* the block an answer left on the main queue
    selected, \* the selected row's index, 0 if there is none
    editor,   \* the note in the editor
    alert,    \* the alert over the screen
    loads,    \* loads[d]: unanswered getNoteList
    asks,     \* asks[d]: ids whose getEditingValue is unanswered
    swipes,   \* swipes[d]: indexPaths that wait for getUserPasscode
    changed,  \* changed[d]: a snapshot waits for the listener
    taps, crashes, \* bounded counters
    made,     \* history: the notes made so far
    tapped    \* history: tapped[d], the id of the row tapped last

rows     == <<all, filtered, empty, shown, selected>>
calls    == <<loads, asks, swipes>>
counters == <<taps, crashes>>
vars     == <<docs, queue, screen, rows, editor, alert, calls, changed, counters, made, tapped>>

Id      == 0 .. MaxId
Stamp   == Nat
NoId    == -1
None    == [stamp |-> 0]
Doc     == [stamp : Stamp \ {0}, by : Device, locked : BOOLEAN]
Row     == [id : Id, doc : Doc]
Write   == [kind : {"set"}, id : Id, doc : Doc, saw : SUBSET Stamp]
           \cup [kind : {"update"}, id : Id, locked : BOOLEAN]
           \cup [kind : {"delete"}, id : Id, new : BOOLEAN, saw : SUBSET Stamp]
Screens == {"list", "detail", "create", "shared"}
Scopes  == {"All", "Lock", "Unlock"}
Blocks  == {"none", "rows", "empty"}
Editor  == [id : Id, saw : SUBSET Stamp]
Alert   == [kind : {"none", "loading", "message"}]
           \cup [kind : {"passcode"}, index : Nat, rows : SUBSET Row]

NoAlert == [kind |-> "none"]
Loading == [kind |-> "loading"]
Message == [kind |-> "message"]
Closed  == [id |-> 0, saw |-> {}]

ASSUME InitialAssumption ==
    /\ InitialRows \subseteq Row /\ IsFiniteSet(InitialRows)
    /\ \A r \in InitialRows : r.doc.stamp <= Cardinality(InitialRows)
    /\ \A q, r \in InitialRows : q.id = r.id \/ q.doc.stamp = r.doc.stamp => q = r

-----------------------------------------------------------------------------
(* Rows and ids *)

\* The row at an index, as a set of at most one.
At(rs, k) == {r \in rs : Cardinality({q \in rs : q.id <= r.id}) = k}

\* Mutant: the new id is the number of rows.
CountRows(rs) == Cardinality(rs)

\* createNewUniqueNoteID: the greatest id of the rows plus one.
NewId(rs) ==
    IF rs = {} THEN 0
    ELSE 1 + CHOOSE i \in {r.id : r \in rs} : \A r \in rs : r.id <= i

\* applySearch with an empty text.
InScope(rs, scope) ==
    {r \in rs : scope = "All" \/ r.doc.locked = (scope = "Lock")}

\* What Firestore shows the device: the documents under its unsent writes.
Newest(d, i, kinds) ==
    {queue[d][k] : k \in {k \in DOMAIN queue[d] :
        /\ queue[d][k].id = i /\ queue[d][k].kind \in kinds
        /\ \A m \in DOMAIN queue[d] :
              m > k => queue[d][m].id # i \/ queue[d][m].kind \notin kinds}}

Base(d, i) == LET new == Newest(d, i, {"set", "delete"})
              IN  IF new = {} THEN {docs[i]} \ {None}
                  ELSE {w.doc : w \in {w \in new : w.kind = "set"}}

Visible(d) ==
    {[id |-> r.id, doc |-> [r.doc EXCEPT !.locked = r.locked]] : r \in
        UNION {LET new == Newest(d, i, {"set", "update"})
                   lock == {IF w.kind = "set" THEN w.doc.locked ELSE w.locked : w \in new}
               IN  {[id |-> i, doc |-> m, locked |-> l] :
                        m \in Base(d, i),
                        l \in IF new = {} THEN {m.locked : m \in Base(d, i)} ELSE lock} :
               i \in Id}}

-----------------------------------------------------------------------------
(* Steps that several handlers take *)

Show(d, s)    == screen' = [screen EXCEPT ![d] = s]
Cover(d, a)   == alert' = [alert EXCEPT ![d] = a]
\* An alert is not presented over another one.
Present(d, a) == IF alert[d] = NoAlert THEN Cover(d, a) ELSE UNCHANGED alert
Select(d, k)  == selected' = [selected EXCEPT ![d] = k]

\* A write is accepted: the device's own snapshot changes at once.
Send(d, w) == /\ queue' = [queue EXCEPT ![d] = Append(@, w)]
              /\ changed' = [changed EXCEPT ![d] = TRUE]

\* loadNoteList: getNoteList is called behind "Loading..".
Load(d) == loads[d] < MaxLoads /\ loads' = [loads EXCEPT ![d] = @ + 1]

\* Mutant: the list that comes back is not loaded.
ShowOldList(d) ==
    /\ Show(d, "list") /\ UNCHANGED <<loads, alert>>
    /\ empty' = [empty EXCEPT ![d] = FALSE]

\* Back in the list: viewWillAppear, viewDidAppear.
ShowList(d) ==
    /\ Show(d, "list") /\ Load(d) /\ Cover(d, Loading)
    /\ empty' = [empty EXCEPT ![d] = FALSE]

\* Started anew; Firestore's queue is on disk.
Restart(d) ==
    /\ Show(d, "list") /\ Cover(d, Loading) /\ Select(d, 0)
    /\ loads' = [loads EXCEPT ![d] = 1]
    /\ asks' = [asks EXCEPT ![d] = {}] /\ swipes' = [swipes EXCEPT ![d] = {}]
    /\ all' = [all EXCEPT ![d] = {}] /\ filtered' = [filtered EXCEPT ![d] = {}]
    /\ empty' = [empty EXCEPT ![d] = FALSE] /\ shown' = [shown EXCEPT ![d] = "none"]
    /\ changed' = [changed EXCEPT ![d] = TRUE]
    /\ UNCHANGED <<docs, queue, editor, made, tapped>>

-----------------------------------------------------------------------------
(* What the user does *)

\* Alerts keep the screen from being touched, emptyNoteView the rows; the main
\* queue is run before the next touch.
MayTouch(d, s)  == screen[d] = s /\ alert[d] = NoAlert /\ shown[d] = "none"
MayTouchRows(d) == MayTouch(d, "list") /\ ~empty[d]

\* didSelectRowAt.
TapRow(d, k) ==
    /\ MayTouchRows(d)
    /\ \E r \in At(filtered[d], k) :
          /\ asks' = [asks EXCEPT ![d] = @ \cup {r.id}]
          /\ tapped' = [tapped EXCEPT ![d] = r.id]
    /\ Select(d, k)
    /\ UNCHANGED <<docs, queue, screen, all, filtered, empty, shown, editor, alert,
                   loads, swipes, changed, made>>

Delete(i, new, saw) == [kind |-> "delete", id |-> i, new |-> new, saw |-> saw]

\* Mutant: the row stays in the list that is shown.
RemoveHeld(d, k) ==
    \E r \in At(filtered[d], k) :
        /\ Send(d, Delete(r.id, FALSE, {}))
        /\ all' = [all EXCEPT ![d] = {q \in @ : q.id # r.id}]
        /\ empty' = [empty EXCEPT ![d] = @ \/ all'[d] = {}] /\ UNCHANGED <<filtered, shown>>

\* executeDeleteNote: the document, both lists, and the row, which moves the
\* selection; an index beyond the rows is the end of the app.
Remove(d, k) ==
    \E r \in At(filtered[d], k) :
        /\ Send(d, Delete(r.id, FALSE, {}))
        /\ all' = [all EXCEPT ![d] = {q \in @ : q.id # r.id}]
        /\ filtered' = [filtered EXCEPT ![d] = @ \ {r}]
        /\ empty' = [empty EXCEPT ![d] = @ \/ all'[d] = {}] /\ UNCHANGED shown

\* Mutant: the selection moves wherever it is.
ShiftAlways(s, k) == s - 1

Shift(s, k) == IF s = k THEN 0 ELSE IF s > k THEN s - 1 ELSE s

\* deleteAction: a locked row asks for the passcode first; reloadData deselects.
SwipeDelete(d, k) ==
    /\ MayTouchRows(d)
    /\ \E r \in At(filtered[d], k) :
          IF r.doc.locked
          THEN /\ swipes' = [swipes EXCEPT ![d] = @ \cup {k}]
               /\ UNCHANGED <<queue, all, filtered, empty, shown, changed>>
          ELSE Remove(d, k) /\ UNCHANGED swipes
    /\ Select(d, 0)
    /\ UNCHANGED <<docs, screen, editor, alert, loads, asks, made, tapped>>

\* The right passcode is entered.
EnterPasscode(d) ==
    /\ alert[d].kind = "passcode" /\ shown[d] = "none"
    /\ IF At(filtered[d], alert[d].index) = {} THEN Restart(d)
       ELSE /\ Remove(d, alert[d].index)
            /\ Select(d, Shift(selected[d], alert[d].index))
            /\ Cover(d, NoAlert)
            /\ UNCHANGED <<docs, screen, editor, calls, made, tapped>>

Dismiss(d) ==
    /\ alert[d].kind \in {"passcode", "message"} /\ shown[d] = "none"
    /\ Cover(d, NoAlert)
    /\ UNCHANGED <<docs, queue, screen, rows, editor, calls, changed, made, tapped>>

\* A scope button: applySearch, which ends with reloadData.
Search(d, scope) ==
    /\ MayTouch(d, "list")
    /\ filtered' = [filtered EXCEPT ![d] = InScope(all[d], scope)]
    /\ Select(d, 0)
    /\ UNCHANGED <<docs, queue, screen, all, empty, shown, editor, alert, calls, changed,
                   made, tapped>>

Refresh(d) ==
    /\ MayTouch(d, "list")
    /\ Load(d) /\ Cover(d, Loading)
    /\ UNCHANGED <<docs, queue, screen, rows, editor, asks, swipes, changed, made, tapped>>

\* "+": prepare(for:) AddNewNote.
AddNote(d) ==
    /\ MayTouch(d, "list")
    /\ NewId(all[d]) \in Id
    /\ Show(d, "create")
    /\ editor' = [editor EXCEPT ![d] = [id |-> NewId(all[d]),
                                        saw |-> {r.doc.stamp : r \in all[d]}]]
    /\ UNCHANGED <<docs, queue, rows, alert, calls, changed, made, tapped>>

\* saveNote of CreateNote: setData, or deleteNote when both fields are empty.
LeaveCreate(d, filled, locked) ==
    /\ MayTouch(d, "create")
    /\ LET e == editor[d]
       IN  IF filled
           THEN /\ Send(d, [kind |-> "set", id |-> e.id, saw |-> e.saw,
                            doc |-> [stamp |-> made + 1, by |-> d, locked |-> locked]])
                /\ made' = made + 1
           ELSE /\ Send(d, Delete(e.id, TRUE, e.saw))
                /\ UNCHANGED made
    /\ ShowList(d)
    /\ editor' = [editor EXCEPT ![d] = Closed]
    /\ UNCHANGED <<docs, all, filtered, shown, selected, asks, swipes, tapped>>

\* saveNote of NoteDetail: updateData, or deleteNote.
LeaveDetail(d, filled, locked) ==
    /\ MayTouch(d, "detail")
    /\ Send(d, IF filled
               THEN [kind |-> "update", id |-> editor[d].id, locked |-> locked]
               ELSE Delete(editor[d].id, FALSE, {}))
    /\ ShowList(d)
    /\ editor' = [editor EXCEPT ![d] = Closed]
    /\ UNCHANGED <<docs, all, filtered, shown, selected, asks, swipes, made, tapped>>

\* The tab bar; tabIndex follows.
ShowShared(d) ==
    /\ MayTouch(d, "list")
    /\ Show(d, "shared")
    /\ UNCHANGED <<docs, queue, rows, editor, alert, calls, changed, made, tapped>>

BackToList(d) ==
    /\ MayTouch(d, "shared")
    /\ ShowList(d)
    /\ UNCHANGED <<docs, queue, all, filtered, shown, selected, editor, asks, swipes,
                   changed, made, tapped>>

-----------------------------------------------------------------------------
(* Answers, snapshots, the server *)

\* Mutant: the rows are not told of the new ones.
KeepSelection(d) == UNCHANGED selected

\* reloadData.
Deselect(d) == Select(d, 0)

\* getNoteList's callback sets both lists, an empty result leaves them; the rest
\* is a block for the main queue (bound: one at a time).
LoadAnswer(d) ==
    /\ loads[d] > 0 /\ loads' = [loads EXCEPT ![d] = @ - 1]
    /\ shown[d] = "none"
    /\ shown' = [shown EXCEPT ![d] = IF Visible(d) = {} THEN "empty" ELSE "rows"]
    /\ IF Visible(d) = {} THEN UNCHANGED <<all, filtered>>
       ELSE /\ all' = [all EXCEPT ![d] = Visible(d)]
            /\ filtered' = [filtered EXCEPT ![d] = Visible(d)]
    /\ UNCHANGED <<docs, queue, screen, empty, selected, editor, alert, asks, swipes,
                   changed, made, tapped>>

\* Mutant: only its own alert is taken away.
UncoverLoading(d) == IF alert[d] = Loading THEN Cover(d, NoAlert) ELSE UNCHANGED alert

\* dismiss(animated:).
Uncover(d) == Cover(d, NoAlert)

\* The block: dismiss takes any alert away, reloadData the selection.
ShowAnswer(d) ==
    /\ shown[d] # "none" /\ shown' = [shown EXCEPT ![d] = "none"]
    /\ Uncover(d)
    /\ empty' = [empty EXCEPT ![d] = shown[d] = "empty"]
    /\ IF shown[d] = "rows" THEN Deselect(d) ELSE UNCHANGED selected
    /\ UNCHANGED <<docs, queue, screen, all, filtered, editor, calls, changed, made, tapped>>

Answered(d, i) == asks' = [asks EXCEPT ![d] = @ \ {i}]

\* prepare(for:) EditNote: the selected row is read again, and is needed.
OpenSelected(d, i) ==
    IF At(filtered[d], selected[d]) = {} THEN Restart(d)
    ELSE /\ Show(d, "detail") /\ Answered(d, i)
         /\ \E r \in At(filtered[d], selected[d]) :
               editor' = [editor EXCEPT ![d] = [id |-> r.id, saw |-> {}]]
         /\ UNCHANGED <<docs, queue, rows, alert, loads, swipes, changed, made, tapped>>

\* getEditingValue's callback, which needs the document: the note, or a message.
OpenRow(d, i) ==
    /\ i \in asks[d] /\ screen[d] = "list"
    /\ IF Base(d, i) = {} THEN Restart(d)
       ELSE \/ OpenSelected(d, i)
            \/ /\ Present(d, Message) /\ Answered(d, i)
               /\ UNCHANGED <<docs, queue, screen, rows, editor, loads, swipes, changed,
                              made, tapped>>

\* getUserPasscode's callback: the alert, for the row that has the index now.
AskPasscode(d, k) ==
    /\ k \in swipes[d] /\ swipes' = [swipes EXCEPT ![d] = @ \ {k}]
    /\ IF screen[d] = "list"
       THEN Present(d, [kind |-> "passcode", index |-> k, rows |-> At(filtered[d], k)])
       ELSE UNCHANGED alert
    /\ UNCHANGED <<docs, queue, screen, rows, editor, loads, asks, changed, made, tapped>>

\* Mutant: the listener waits for the list to be on the screen.
ListTab(d) == screen[d] = "list"

\* tabIndex == 0.
OwnTab(d) == screen[d] # "shared"

\* listenNoteOwnerUpdate's callback: an empty snapshot is passed over, and so is
\* one that comes while the other tab is shown.
Notice(d) ==
    /\ changed[d] /\ changed' = [changed EXCEPT ![d] = FALSE]
    /\ IF OwnTab(d) /\ Visible(d) # {}
       THEN /\ Load(d)
            /\ IF screen[d] = "list" THEN Present(d, Loading) ELSE UNCHANGED alert
       ELSE UNCHANGED <<loads, alert>>
    /\ UNCHANGED <<docs, queue, screen, rows, editor, asks, swipes, made, tapped>>

\* The server applies the oldest write; an update of a missing document fails.
Commit(d) ==
    /\ queue[d] # <<>> /\ queue' = [queue EXCEPT ![d] = Tail(@)]
    /\ LET w == Head(queue[d])
       IN  docs' = [docs EXCEPT ![w.id] =
                      CASE w.kind = "set" -> w.doc
                        [] w.kind = "update" /\ @ # None -> [@ EXCEPT !.locked = w.locked]
                        [] w.kind = "delete" -> None
                        [] OTHER -> @]
    /\ changed' = [e \in Device |-> TRUE]
    /\ UNCHANGED <<screen, rows, editor, alert, calls, made, tapped>>

-----------------------------------------------------------------------------
Init ==
    /\ docs = [i \in Id |-> IF \E r \in InitialRows : r.id = i
                            THEN (CHOOSE r \in InitialRows : r.id = i).doc ELSE None]
    /\ queue = [d \in Device |-> <<>>]
    /\ screen = [d \in Device |-> "list"]
    /\ all = [d \in Device |-> {}] /\ filtered = [d \in Device |-> {}]
    /\ empty = [d \in Device |-> FALSE] /\ shown = [d \in Device |-> "none"]
    /\ selected = [d \in Device |-> 0]
    /\ editor = [d \in Device |-> Closed]
    /\ alert = [d \in Device |-> Loading]
    /\ loads = [d \in Device |-> 1] /\ asks = [d \in Device |-> {}]
    /\ swipes = [d \in Device |-> {}]
    /\ changed = [d \in Device |-> TRUE]
    /\ taps = [d \in Device |-> 0] /\ crashes = 0
    /\ made = Cardinality(InitialRows) /\ tapped = [d \in Device |-> NoId]

Tap(d) == taps[d] < MaxTaps[d] /\ taps' = [taps EXCEPT ![d] = @ + 1] /\ UNCHANGED crashes

Index == 1 .. MaxId + 1

Rows(d)    == \E k \in Index : TapRow(d, k) \/ SwipeDelete(d, k)
Lists(d)   == \/ \E scope \in Scopes : Search(d, scope)
              \/ Refresh(d) \/ AddNote(d) \/ ShowShared(d)
Edits(d)   == \E filled, locked \in BOOLEAN : LeaveDetail(d, filled, locked)
\* What ends what was begun is not counted.
Ends(d)    == \/ \E filled, locked \in BOOLEAN : LeaveCreate(d, filled, locked)
              \/ BackToList(d) \/ EnterPasscode(d) \/ Dismiss(d)
Answers(d) == \/ LoadAnswer(d) \/ ShowAnswer(d)
              \/ \E i \in Id : OpenRow(d, i)
              \/ \E k \in Index : AskPasscode(d, k)

User(d)   == (Tap(d) /\ (Rows(d) \/ Lists(d) \/ Edits(d))) \/ (Ends(d) /\ UNCHANGED counters)
Server(d) == (Answers(d) \/ Notice(d) \/ Commit(d)) /\ UNCHANGED counters
Crash(d)  == crashes < MaxCrashes /\ crashes' = crashes + 1 /\ Restart(d) /\ UNCHANGED taps

Next == \E d \in Device : User(d) \/ Server(d) \/ Crash(d)

\* Firestore sends every write, answers every query and reports every change.
Fairness == \A d \in Device : /\ WF_vars(LoadAnswer(d) /\ UNCHANGED counters)
                              /\ WF_vars(ShowAnswer(d) /\ UNCHANGED counters)
                              /\ WF_vars(Notice(d) /\ UNCHANGED counters)
                              /\ WF_vars(Commit(d) /\ UNCHANGED counters)

Spec == Init /\ [][Next]_vars /\ Fairness

-----------------------------------------------------------------------------
TypeOK ==
    /\ docs \in [Id -> Doc \cup {None}]
    /\ queue \in [Device -> Seq(Write)]
    /\ screen \in [Device -> Screens]
    /\ all \in [Device -> SUBSET Row] /\ filtered \in [Device -> SUBSET Row]
    /\ empty \in [Device -> BOOLEAN] /\ shown \in [Device -> Blocks]
    /\ selected \in [Device -> Nat]
    /\ editor \in [Device -> Editor]
    /\ alert \in [Device -> Alert]
    /\ loads \in [Device -> 0 .. MaxLoads + 1] /\ asks \in [Device -> SUBSET Id]
    /\ swipes \in [Device -> SUBSET Nat]
    /\ changed \in [Device -> BOOLEAN]
    /\ taps \in [Device -> Nat] /\ crashes \in Nat
    /\ made \in Nat /\ tapped \in [Device -> Id \cup {NoId}]

\* A selected row is the row that was tapped last, whatever was loaded, searched
\* or deleted since, once the rows are shown that the lists have: the index read
\* again after getEditingValue opens that note, unless it is read in between.
SelectionFollows ==
    \A d \in Device : selected[d] # 0 /\ shown[d] = "none" =>
        {r.id : r \in At(filtered[d], selected[d])} = {tapped[d]}

\* The rows do not move under a passcode alert that is there to be answered: the
\* index it deletes at has the row it had when the alert came up.
AlertKeepsItsRow ==
    \A d \in Device : alert[d].kind = "passcode" /\ shown[d] = "none" =>
        At(filtered[d], alert[d].index) = alert[d].rows

\* What is shown is a part of what is held, and no id is held twice: a search, a
\* load or a deletion never leaves the two lists apart.
ListsTogether ==
    \A d \in Device : /\ filtered[d] \subseteq all[d]
                      /\ \A q, r \in all[d] : q.id = r.id => q = r

\* A creation replaces, or when it is left empty deletes, only a note of another
\* device that was not in the list its id was chosen from.
KeepsWhatItKnows ==
    [][\A d \in Device : queue[d] # <<>> /\ queue'[d] = Tail(queue[d]) =>
        LET w == Head(queue[d])
            t == docs[w.id]
        IN  /\ t # None
            /\ \/ w.kind = "set" /\ t.stamp # w.doc.stamp
               \/ w.kind = "delete" /\ w.new
            => t.by # d /\ t.stamp \notin w.saw]_vars

\* The lists catch up with the server, except with the deletion of the last note,
\* which the listener passes over.
ListCatchesUp ==
    <>[](\A d \in Device : screen[d] # "shared" /\ Visible(d) # {} => all[d] = Visible(d))
=============================================================================
