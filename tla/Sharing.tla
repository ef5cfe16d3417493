------------------------------ MODULE Sharing ------------------------------
(***************************************************************************)
(* Sharing of notes between accounts: who holds access to a note, and whom *)
(* the note itself lists.                                                  *)
(*                                                                         *)
(* The two facts live in two Firestore documents that no transaction ties  *)
(* together: Users/{email}.sharedNotes (the notes an account can open,     *)
(* with a mode) and Notes/{owner+"note"+id}.sharedUsers (the accounts the  *)
(* owner sees in the share settings, with a mode).  Every handler reads a  *)
(* list with an asynchronous getDocuments, computes a new list in the      *)
(* callback and writes the whole list back with updateData.                *)
(*                                                                         *)
(* Abstractions.  An entry "a@xnote3modeview" is a record of its parts and *)
(* a list is the set of its entries: the code tells entries apart only     *)
(* with String.contains, and the order of a list only matters to loops     *)
(* that stop at the first match (names that contain one another are in     *)
(* ShareNames).  Of a note the model keeps its existence, its              *)
(* sharedUsers and its lastUpdateUser; texts, locks and the isEditing flag *)
(* are not told apart.  A device runs one signed-in account.               *)
(***************************************************************************)
EXTENDS Naturals, Sequences

CONSTANTS User,          \* accounts that have a Users document
          Device,        \* running copies of the app
          Account,       \* Account[d]: NoteViewModel.shared.username on d
          Note,          \* possible note documents
          Owner,         \* Owner[n]: the email field of n
          InitialNotes,  \* notes that exist at the start
          InitialOffers, \* shares made, without interference, before the start
          MaxTaps,       \* bound: MaxTaps[d] user actions on d
          MaxCrashes     \* bound: times the app is killed, all devices

Mode  == {"view", "edit"}
Offer == [note : Note, user : User, mode : Mode]

ASSUME AccountAssumption == Account \in [Device -> User]
ASSUME OwnerAssumption   == Owner \in [Note -> User]
ASSUME InitialAssumption ==
    /\ InitialNotes \subseteq Note
    /\ InitialOffers \subseteq {o \in Offer : o.note \in InitialNotes /\ o.user # Owner[o.note]}
    /\ \A o, p \in InitialOffers : o.note = p.note /\ o.user = p.user => o = p
ASSUME BoundAssumption   == MaxTaps \in [Device -> Nat] /\ MaxCrashes \in Nat

VARIABLES
    sharedNotes, \* sharedNotes[u]: the sharedNotes field of Users/u
    docs,        \* docs[n]: the document Notes/n
    screen,      \* screen[d]: the view controller on top on device d
    isEdit,      \* isEdit[d]: the mode selected in each ShareSettingViewController opened
    people,      \* people[d]: SharedNoteViewModel.shared.sharedUsers
    rows,        \* rows[d]: the rows of SharedNoteViewController
    calls,       \* calls[d]: getDocuments calls whose callback has not run
    queue,       \* queue[d]: writes Firestore has accepted and not yet sent
    taps,        \* taps[d]: user actions so far
    crashes,     \* kills so far
    offered,     \* history: every (note, user, mode) an owner has chosen
    wanted       \* history: the shares the taps made so far should leave in force

server  == <<sharedNotes, docs>>
ui      == <<screen, isEdit, people, rows>>
history == <<offered, wanted>>
vars    == <<server, ui, calls, queue, taps, crashes, history>>

Entry  == [note : Note, mode : Mode]
Person == [user : User, mode : Mode]
Row    == [note : Note, mode : Mode, people : SUBSET Person]
Doc    == [here : BOOLEAN, people : SUBSET Person, by : User]

Ops   == {"shareNote", "shareUser", "modeNote", "modeUser", "dropNote",
          "dropUser", "dropAll", "load", "check", "detail"}
Call  == [op : Ops, note : Note, user : User, mode : Mode, vc : Nat]
Kinds == {"user", "people", "save", "create", "delete"}
Write == [kind : Kinds, note : Note, user : User, entries : SUBSET Entry,
          people : SUBSET Person, then : SUBSET Call]

Home          == [at |-> "home"]
Editors       == {"detail", "create"}
Shares        == {"detailShare", "createShare"}
OwnerScreen   == [at : Editors \cup Shares, note : Note]
SharedScreen  == [at : {"shared"}, note : Note, mode : Mode, people : SUBSET Person]
Screen        == {Home} \cup OwnerScreen \cup SharedScreen

ShareOver(at) == IF at = "detail" THEN "detailShare" ELSE "createShare"
Under(at)     == IF at = "detailShare" THEN "detail" ELSE "create"
Other(m)      == IF m = "view" THEN "edit" ELSE "view"

-----------------------------------------------------------------------------
(* Firestore: latency compensated reads, writes sent in the order accepted *)

\* The writes of d's queue that pass Test and that no later one of them covers.
Newest(d, Test(_)) ==
    UNION { {w \in queue[d][i] : Test(w)} :
            i \in {i \in DOMAIN queue[d] :
                   \A j \in DOMAIN queue[d] : j > i => \A w \in queue[d][j] : ~Test(w)} }

\* What a query run on d returns for the sharedNotes of u: a singleton.
UserSeen(d, u) ==
    LET new == Newest(d, LAMBDA w : w.kind = "user" /\ w.user = u)
    IN  IF new = {} THEN {sharedNotes[u]} ELSE {w.entries : w \in new}

\* Does the note exist for d, its own unsent writes included?
HereSeen(d, n) ==
    LET new == Newest(d, LAMBDA w : w.kind \in {"create", "delete"} /\ w.note = n)
    IN  IF new = {} THEN docs[n].here ELSE \E w \in new : w.kind = "create"

\* What a query run on d returns for the sharedUsers of n: a singleton, or
\* nothing when the note is missing.
PeopleSeen(d, n) ==
    LET new == Newest(d, LAMBDA w : w.kind # "user" /\ w.note = n)
    IN  CASE ~HereSeen(d, n) -> {}
          [] HereSeen(d, n) /\ new = {} -> {docs[n].people}
          [] OTHER -> {w.people : w \in new}

UserWrite(n, u, es, then) ==
    [kind |-> "user", note |-> n, user |-> u, entries |-> es, people |-> {}, then |-> then]
NoteWrite(kind, n, u, ps, then) ==
    [kind |-> kind, note |-> n, user |-> u, entries |-> {}, people |-> ps, then |-> then]

\* A callback's writes to different documents are one element of the queue.
Enqueue(d, batch) ==
    queue' = IF batch = {} THEN queue ELSE [queue EXCEPT ![d] = Append(@, batch)]

NewCall(op, n, u, m, vc) == [op |-> op, note |-> n, user |-> u, mode |-> m, vc |-> vc]

\* Calls whose callback uses neither a user nor a mode.
Plain(d, op, n, vc) == NewCall(op, n, Account[d], "view", vc)

Start(d, new)  == calls' = [calls EXCEPT ![d] = @ \cup new]
Finish(d, c)   == calls' = [calls EXCEPT ![d] = @ \ {c}]

-----------------------------------------------------------------------------
Init ==
    /\ sharedNotes = [u \in User |->
           {[note |-> o.note, mode |-> o.mode] : o \in {o \in InitialOffers : o.user = u}}]
    /\ docs = [n \in Note |->
           [here |-> n \in InitialNotes,
            people |-> {[user |-> o.user, mode |-> o.mode] : o \in {o \in InitialOffers : o.note = n}},
            by |-> Owner[n]]]
    /\ screen = [d \in Device |-> Home]
    /\ isEdit = [d \in Device |-> <<>>]
    /\ people = [d \in Device |-> {}]
    /\ rows = [d \in Device |-> {}]
    /\ calls = [d \in Device |-> {}]
    /\ queue = [d \in Device |-> <<>>]
    /\ taps = [d \in Device |-> 0]
    /\ crashes = 0
    /\ offered = InitialOffers
    /\ wanted = InitialOffers

Tap(d) == /\ taps[d] < MaxTaps[d]
          /\ taps' = [taps EXCEPT ![d] = @ + 1]

At(d, places) == screen[d].at \in places
Go(d, s)      == screen' = [screen EXCEPT ![d] = s]

Unwant(n) == {o \in wanted : o.note # n}

-----------------------------------------------------------------------------
(* The owner's screens *)

\* Mutant: only the accounts that may view lose the note.
DropViewersCalls(d, n) == {NewCall("dropAll", n, Account[d], "view", 0)}

\* deleteOneNoteForAllSharedUsers asks for both kinds of entries.
DropAllCalls(d, n) == {NewCall("dropAll", n, Account[d], m, 0) : m \in Mode}

\* saveNote of both editors: writes the note with the cached list of people,
\* or deletes it when title and description are both empty (keep is FALSE).
SaveNote(d, keep) ==
    LET n    == screen[d].note
        kind == IF screen[d].at = "detail" THEN "save" ELSE "create"
    IN  /\ Enqueue(d, {IF keep THEN NoteWrite(kind, n, Account[d], people[d], {})
                               ELSE NoteWrite("delete", n, Account[d], {}, {})})
        /\ people' = [people EXCEPT ![d] = {}]
        /\ wanted' = IF keep THEN wanted ELSE Unwant(n)

\* Mutant: NoteDetail appears without loading its note and its list.
NoCalls(d, n) == {}

\* viewWillAppear of NoteDetail: checkIfDisableShareBtn and getNoteDetail.
OpeningCalls(d, n) == {Plain(d, "check", n, 0), Plain(d, "detail", n, 0)}

\* Mutant: the query for the list has lost its whereField.
EveryNote(d, n) == TRUE

\* getNoteList: the notes whose email is the account's.
IsOwn(d, n) == Owner[n] = Account[d]

\* A row of the own notes is opened: the advisory isEditing test lets it pass.
OpenDetail(d, n) ==
    /\ Tap(d) /\ At(d, {"home"})
    /\ IsOwn(d, n) /\ HereSeen(d, n)
    /\ Go(d, [at |-> "detail", note |-> n])
    /\ Start(d, OpeningCalls(d, n))
    /\ UNCHANGED <<server, isEdit, people, rows, queue, crashes, history>>

\* "+": a note whose document this device does not see.
OpenCreate(d, n) ==
    /\ Tap(d) /\ At(d, {"home"})
    /\ Owner[n] = Account[d] /\ ~HereSeen(d, n)
    /\ Go(d, [at |-> "create", note |-> n])
    /\ UNCHANGED <<server, isEdit, people, rows, calls, queue, crashes, history>>

\* Moving between title and description in NoteDetail reloads the list.
FocusField(d) ==
    /\ Tap(d) /\ At(d, {"detail"})
    /\ Start(d, {Plain(d, "check", screen[d].note, 0)})
    /\ UNCHANGED <<server, ui, queue, crashes, history>>

\* Back from an editor: viewWillDisappear saves.
LeaveEditor(d, keep) ==
    /\ Tap(d) /\ At(d, Editors)
    /\ SaveNote(d, keep)
    /\ Go(d, Home)
    /\ Start(d, IF keep THEN {} ELSE DropAllCalls(d, screen[d].note))
    /\ UNCHANGED <<server, isEdit, rows, crashes, offered>>

\* The share button: the editor disappears, so it saves as well, and the new
\* ShareSettingViewController loads the list.  An empty note has the button too, in
\* NoteDetail as in CreateNote: a recording that is stopped enables it.
OpenShare(d, keep) ==
    LET n == screen[d].note
    IN  /\ Tap(d) /\ At(d, Editors)
        /\ SaveNote(d, keep)
        /\ Go(d, [at |-> ShareOver(screen[d].at), note |-> n])
        /\ isEdit' = [isEdit EXCEPT ![d] = Append(@, "view")]
        /\ Start(d, {Plain(d, "load", n, Len(isEdit[d]) + 1)}
                    \cup IF keep THEN {} ELSE DropAllCalls(d, n))
        /\ UNCHANGED <<server, rows, crashes, offered>>

\* The "Please wait.." alert of loadSharedUsers covers the share settings.
Waiting(d) == \E c \in calls[d] : c.op = "load" /\ c.vc = Len(isEdit[d])

ShareTap(d) == Tap(d) /\ At(d, Shares) /\ ~Waiting(d)

\* Back from the share settings: NoteDetail reads the note and its list again.
BackToEditor(d) ==
    LET at == Under(screen[d].at)
        n  == screen[d].note
    IN  /\ ShareTap(d)
        /\ Go(d, [at |-> at, note |-> n])
        /\ Start(d, IF at = "detail" THEN OpeningCalls(d, n) ELSE {})
        /\ UNCHANGED <<server, isEdit, people, rows, queue, crashes, history>>

\* The view and edit buttons of the share settings.
ClickMode(d) ==
    /\ ShareTap(d)
    /\ isEdit' = [isEdit EXCEPT ![d][Len(isEdit[d])] = Other(@)]
    /\ UNCHANGED <<server, screen, people, rows, calls, queue, crashes, history>>

\* Mutant: the own address is not refused.
MayAddAnyone(d, u) == TRUE

MayAdd(d, u) == u # Account[d]

\* addPeopleBtn, u typed in the text field.
AddPeople(d, u) ==
    LET n == screen[d].note
        m == isEdit[d][Len(isEdit[d])]
        o == [note |-> n, user |-> u, mode |-> m]
    IN  /\ ShareTap(d)
        /\ MayAdd(d, u)
        /\ Start(d, {NewCall("shareNote", n, u, m, Len(isEdit[d]))})
        /\ offered' = offered \cup {o}
        /\ wanted' = IF \E p \in wanted : p.note = n /\ p.user = u
                     THEN wanted ELSE wanted \cup {o}
        /\ UNCHANGED <<server, ui, queue, crashes>>

\* stopShareBtn, confirmed.
StopShare(d) ==
    LET n == screen[d].note
    IN  /\ ShareTap(d)
        /\ Start(d, DropAllCalls(d, n) \cup {Plain(d, "load", n, Len(isEdit[d]))})
        /\ Enqueue(d, {NoteWrite("people", n, Account[d], {}, {})})
        /\ wanted' = Unwant(n)
        /\ UNCHANGED <<server, ui, crashes, offered>>

\* The two row actions of the share settings, on the cached list.
DeleteRow(d, p) ==
    LET n == screen[d].note
    IN  /\ ShareTap(d)
        /\ Start(d, {NewCall(op, n, p.user, p.mode, Len(isEdit[d])) : op \in {"dropNote", "dropUser"}})
        /\ wanted' = {o \in wanted : o.note # n \/ o.user # p.user}
        /\ UNCHANGED <<server, ui, queue, crashes, offered>>

ChangeMode(d, p) ==
    LET n == screen[d].note
        o == [note |-> n, user |-> p.user, mode |-> Other(p.mode)]
    IN  /\ ShareTap(d)
        /\ Start(d, {NewCall(op, n, p.user, o.mode, Len(isEdit[d])) : op \in {"modeNote", "modeUser"}})
        /\ offered' = offered \cup {o}
        /\ wanted' = {IF w.note = n /\ w.user = p.user THEN o ELSE w : w \in wanted}
        /\ UNCHANGED <<server, ui, queue, crashes>>

\* Swipe to delete in the list of own notes, which may be out of date.
SwipeDelete(d, n) ==
    /\ Tap(d) /\ At(d, {"home"}) /\ IsOwn(d, n)
    /\ Enqueue(d, {NoteWrite("delete", n, Account[d], {}, {})})
    /\ Start(d, DropAllCalls(d, n))
    /\ wanted' = Unwant(n)
    /\ UNCHANGED <<server, ui, crashes, offered>>

-----------------------------------------------------------------------------
(* A crash: Firestore keeps its queue on disk, the callbacks are lost *)

Forgotten(q) == [i \in DOMAIN q |-> {[w EXCEPT !.then = {}] : w \in q[i]}]

Restart(d) ==
    /\ Go(d, Home)
    /\ isEdit' = [isEdit EXCEPT ![d] = <<>>]
    /\ people' = [people EXCEPT ![d] = {}]
    /\ rows' = [rows EXCEPT ![d] = {}]
    /\ calls' = [calls EXCEPT ![d] = {}]
    /\ queue' = [queue EXCEPT ![d] = Forgotten(@)]
    /\ UNCHANGED <<server, history>>

Crash(d) ==
    /\ crashes < MaxCrashes
    /\ crashes' = crashes + 1
    /\ Restart(d)
    /\ UNCHANGED taps

-----------------------------------------------------------------------------
(* The screens of an account a note is shared with *)

\* loadNoteList: the account's entries, each with its note; a missing note
\* is an index out of range in getSharedNote.
LoadSharedNotes(d) ==
    \E es \in UserSeen(d, Account[d]) :
        /\ Tap(d) /\ At(d, {"home"})
        /\ IF \A e \in es : HereSeen(d, e.note)
           THEN /\ rows' = [rows EXCEPT ![d] =
                       UNION {{[note |-> e.note, mode |-> e.mode, people |-> ps] :
                               ps \in PeopleSeen(d, e.note)} : e \in es}]
                /\ UNCHANGED <<server, screen, isEdit, people, calls, queue, history>>
           ELSE Restart(d)
        /\ UNCHANGED crashes

\* A row is opened with the mode and the people the row was loaded with.
OpenShared(d, r) ==
    /\ Tap(d) /\ At(d, {"home"}) /\ HereSeen(d, r.note)
    /\ Go(d, [at |-> "shared", note |-> r.note, mode |-> r.mode, people |-> r.people])
    /\ UNCHANGED <<server, isEdit, people, rows, calls, queue, crashes, history>>

\* Mutants: viewers save as well; the list comes from the app-wide cache.
MayWriteAnyhow(s) == TRUE
CachedList(d)     == people[d]

MayWrite(s)   == s.mode = "edit"
ListToSave(d) == screen[d].people

\* saveNote of ViewModeShareViewController: a viewer writes nothing.
CloseShared(d) ==
    LET s == screen[d]
    IN  /\ Tap(d) /\ At(d, {"shared"})
        /\ Go(d, Home)
        /\ IF MayWrite(s)
           THEN /\ Enqueue(d, {NoteWrite("save", s.note, Account[d], ListToSave(d), {})})
                /\ people' = [people EXCEPT ![d] = {}]
           ELSE UNCHANGED <<queue, people>>
        /\ UNCHANGED <<server, isEdit, rows, calls, crashes, history>>

\* Swipe to delete in the shared list: the account gives the note up.
LeaveShared(d, r) ==
    /\ Tap(d) /\ At(d, {"home"})
    /\ Start(d, {NewCall("dropNote", r.note, Account[d], r.mode, 0)})
    /\ wanted' = {o \in wanted : o.note # r.note \/ o.user # Account[d]}
    /\ UNCHANGED <<server, ui, queue, crashes, offered>>

-----------------------------------------------------------------------------
(* Callbacks of getDocuments: each reads what d sees when it runs *)

\* Mutant: an entry is looked for with the wrong mode.
OfNoteToEdit(es, n) == {e \in es : e.note = n /\ e.mode = "edit"}

OfNote(es, n) == {e \in es : e.note = n}
OfUser(ps, u) == {p \in ps : p.user = u}

\* updateSharedNoteForSingleUser: written even when the entry is already there.
ShareNoteRead(d, c) ==
    /\ c.op = "shareNote"
    /\ \E es \in UserSeen(d, c.user) :
        LET new == IF OfNote(es, c.note) = {}
                   THEN es \cup {[note |-> c.note, mode |-> c.mode]} ELSE es
        IN  Enqueue(d, {UserWrite(c.note, c.user, new, {[c EXCEPT !.op = "shareUser"]})})
    /\ Finish(d, c)
    /\ UNCHANGED <<server, ui, history>>

\* deleteOneNoteForOneUser: entries are matched with their mode.
DropNoteRead(d, c) ==
    /\ c.op = "dropNote"
    /\ \E es \in UserSeen(d, c.user) :
        Enqueue(d, {UserWrite(c.note, c.user, es \ {[note |-> c.note, mode |-> c.mode]}, {})})
    /\ Finish(d, c)
    /\ UNCHANGED <<server, ui, history>>

\* changeModeOneNoteForOneUser: the entry of the note, if any, is replaced.
ModeNoteRead(d, c) ==
    /\ c.op = "modeNote"
    /\ \E es \in UserSeen(d, c.user) :
        LET new == IF OfNote(es, c.note) = {} THEN es
                   ELSE (es \ OfNote(es, c.note)) \cup {[note |-> c.note, mode |-> c.mode]}
        IN  Enqueue(d, {UserWrite(c.note, c.user, new, {})})
    /\ Finish(d, c)
    /\ UNCHANGED <<server, ui, history>>

\* deleteOneNoteForAllSharedUsers, one of its two queries: every account that
\* holds the note with this mode loses its entry of the note.
DropAllRead(d, c) ==
    /\ c.op = "dropAll"
    /\ Enqueue(d, UNION {{UserWrite(c.note, u, es \ OfNote(es, c.note), {}) :
                          es \in {es \in UserSeen(d, u) : [note |-> c.note, mode |-> c.mode] \in es}} :
                         u \in User})
    /\ Finish(d, c)
    /\ UNCHANGED <<server, ui, history>>

\* loadSharedUsers, when a write to the note has been acknowledged.
Reload(d, c) == Plain(d, "load", c.note, c.vc)

PeopleWrite(d, c, ps) ==
    Enqueue(d, {NoteWrite("people", c.note, Account[d], ps, {Reload(d, c)})})

\* updateSharedUserForSingleNote: an account already listed is left alone.
ShareUserRead(d, c, ps) ==
    /\ c.op = "shareUser"
    /\ IF OfUser(ps, c.user) = {}
       THEN PeopleWrite(d, c, ps \cup {[user |-> c.user, mode |-> c.mode]})
       ELSE UNCHANGED queue
    /\ UNCHANGED people

\* deleteOneUserForOneNote
DropUserRead(d, c, ps) ==
    /\ c.op = "dropUser"
    /\ PeopleWrite(d, c, ps \ {[user |-> c.user, mode |-> c.mode]})
    /\ UNCHANGED people

\* changeModeOneUserForOneNote
ModeUserRead(d, c, ps) ==
    /\ c.op = "modeUser"
    /\ PeopleWrite(d, c, IF OfUser(ps, c.user) = {} THEN ps
                         ELSE (ps \ OfUser(ps, c.user)) \cup {[user |-> c.user, mode |-> c.mode]})
    /\ UNCHANGED people

\* getSharedUser and getNoteDetail fill the one cache of the whole app,
\* whatever screen is on top by now.
FillCache(d, c, ps) ==
    /\ c.op \in {"load", "check", "detail"}
    /\ people' = [people EXCEPT ![d] = ps]
    /\ UNCHANGED queue

\* A query for one note by owner and id.
NoteRead(d, c) ==
    /\ \E ps \in PeopleSeen(d, c.note) : \/ ShareUserRead(d, c, ps)
                                         \/ DropUserRead(d, c, ps)
                                         \/ ModeUserRead(d, c, ps)
                                         \/ FillCache(d, c, ps)
    /\ Finish(d, c)
    /\ UNCHANGED <<server, screen, isEdit, rows, history>>

\* The note is gone: getNoteDetail loops over nothing, every other callback
\* takes element 0 of an empty result.
NoteMissing(d, c) ==
    /\ c.op \in {"shareUser", "dropUser", "modeUser", "load", "check", "detail"}
    /\ PeopleSeen(d, c.note) = {}
    /\ IF c.op = "detail"
       THEN Finish(d, c) /\ UNCHANGED <<server, ui, queue, history>>
       ELSE Restart(d)

Callback(d) ==
    /\ \E c \in calls[d] : \/ ShareNoteRead(d, c)
                           \/ DropNoteRead(d, c)
                           \/ ModeNoteRead(d, c)
                           \/ DropAllRead(d, c)
                           \/ NoteRead(d, c)
                           \/ NoteMissing(d, c)
    /\ UNCHANGED <<taps, crashes>>

-----------------------------------------------------------------------------
(* The server applies the writes of a device in order and acknowledges them *)

Applies(w) == w.kind \in {"people", "save"} => docs[w.note].here

\* Completion handlers.  The second half of addPeopleBtn reads self.isEdit
\* when the first half is acknowledged.
Resume(d, c) == IF c.op = "shareUser" THEN [c EXCEPT !.mode = isEdit[d][c.vc]] ELSE c

Written(w) ==
    LET old == docs[w.note]
    IN  CASE w.kind = "people" -> [old EXCEPT !.people = w.people]
          [] w.kind = "delete" -> [old EXCEPT !.here = FALSE, !.people = {}]
          [] OTHER             -> [here |-> TRUE, people |-> w.people, by |-> w.user]

\* The queue q once a write of its oldest batch is sent.
Sent(q, w) == IF Head(q) = {w} THEN Tail(q) ELSE [q EXCEPT ![1] = @ \ {w}]

Commit(d) ==
    /\ queue[d] # <<>>
    /\ \E w \in Head(queue[d]) :
        /\ queue' = [queue EXCEPT ![d] = Sent(@, w)]
        /\ IF Applies(w)
           THEN /\ Start(d, {Resume(d, c) : c \in w.then})
                /\ IF w.kind = "user"
                   THEN sharedNotes' = [sharedNotes EXCEPT ![w.user] = w.entries] /\ UNCHANGED docs
                   ELSE docs' = [docs EXCEPT ![w.note] = Written(w)] /\ UNCHANGED sharedNotes
           ELSE UNCHANGED <<calls, server>>
    /\ UNCHANGED <<ui, taps, crashes, history>>

-----------------------------------------------------------------------------
OwnerStep(d) ==
    \/ \E n \in Note : OpenDetail(d, n) \/ OpenCreate(d, n) \/ SwipeDelete(d, n)
    \/ \E keep \in BOOLEAN : LeaveEditor(d, keep)
    \/ OpenShare(d, TRUE)
    \/ FocusField(d)
    \/ BackToEditor(d)
    \/ ClickMode(d)
    \/ \E u \in User : AddPeople(d, u)
    \/ StopShare(d)
    \/ \E p \in people[d] : DeleteRow(d, p) \/ ChangeMode(d, p)

SharedStep(d) ==
    \/ LoadSharedNotes(d)
    \/ \E r \in rows[d] : OpenShared(d, r)
    \/ CloseShared(d)

\* Two habits that matter to the serial runs.
ClearAndShare(d) == OpenShare(d, FALSE)
GiveUp(d)        == \E r \in rows[d] : LeaveShared(d, r)

System(d) == Callback(d) \/ Commit(d)

Next == \E d \in Device :
            \/ OwnerStep(d) \/ ClearAndShare(d)
            \/ SharedStep(d) \/ GiveUp(d)
            \/ Crash(d)
            \/ System(d)

Spec == Init /\ [][Next]_vars

\* Firestore answers every query and sends every write sooner or later.
Fairness == \A d \in Device : WF_vars(Callback(d)) /\ WF_vars(Commit(d))

FairSpec == Spec /\ Fairness

-----------------------------------------------------------------------------
(* Properties *)

\* The closure of a call refers to a share settings screen that was opened since
\* the app started; "shareUser", which reads that screen's isEdit, always does.
ScreenKnown(d, c) == /\ c.vc <= Len(isEdit[d])
                     /\ c.op \in {"shareNote", "shareUser"} => c.vc >= 1

\* The shape of the state; the editors and the share settings are over notes of the
\* account, and no callback, running or waiting for an acknowledgement, outlives the
\* share settings screen it refers to.
TypeOK ==
    /\ sharedNotes \in [User -> SUBSET Entry]
    /\ docs \in [Note -> Doc]
    /\ screen \in [Device -> Screen]
    /\ isEdit \in [Device -> Seq(Mode)]
    /\ people \in [Device -> SUBSET Person]
    /\ rows \in [Device -> SUBSET Row]
    /\ calls \in [Device -> SUBSET Call]
    /\ queue \in [Device -> Seq(SUBSET Write)]
    /\ taps \in [Device -> Nat] /\ \A d \in Device : taps[d] <= MaxTaps[d]
    /\ crashes \in 0 .. MaxCrashes
    /\ offered \subseteq Offer
    /\ wanted \subseteq Offer
    /\ \A d \in Device :
        /\ At(d, Editors \cup Shares) => Owner[screen[d].note] = Account[d]
        /\ \A c \in calls[d] : ScreenKnown(d, c)
        /\ \A i \in DOMAIN queue[d] : \A w \in queue[d][i] : \A c \in w.then : ScreenKnown(d, c)

\* Access was offered: whatever the interleaving of the whole-list writes of
\* owners and collaborators, an account holds a note only in a mode that the
\* owner once chose for it, and never its own note.
AccessWasOffered ==
    \A u \in User : \A e \in sharedNotes[u] :
        /\ [note |-> e.note, user |-> u, mode |-> e.mode] \in offered
        /\ u # Owner[e.note]

\* One mode per note and account, on both sides: no sequence of overlapping
\* adds, mode changes, stale saves and retries leaves two entries for the
\* same note in an account's list, or for the same account in a note's list.
OneEntry(es)  == \A e, f \in es : e.note = f.note => e = f
OnePerson(ps) == \A p, q \in ps : p.user = q.user => p = q

SingleMode ==
    /\ \A u \in User : OneEntry(sharedNotes[u])
    /\ \A n \in Note : OnePerson(docs[n].people)

\* A note was last saved by its owner or by an account that was at some time
\* offered the edit mode: a viewer never writes, not even through stale rows.
EditorsOnly ==
    \A n \in Note : \/ docs[n].by = Owner[n]
                    \/ [note |-> n, user |-> docs[n].by, mode |-> "edit"] \in offered

\* A note lists only accounts to which its owner has offered some note: lists
\* may travel between the notes of one owner through the app-wide cache (see
\* FillCache), never between owners.
ListedBySameOwner ==
    \A n \in Note : \A p \in docs[n].people :
        \E o \in offered : o.user = p.user /\ Owner[o.note] = Owner[n]

-----------------------------------------------------------------------------
(* Quiescence, and a property of it that the code does not have *)

Settled  == \A d \in Device : calls[d] = {} /\ queue[d] = <<>>
Access   == {o \in Offer : [note |-> o.note, mode |-> o.mode] \in sharedNotes[o.user]}

\* "delete note name in shared note list of some user that have access to this
\* note" (NoteViewController.swift:219): nobody holds a note that is deleted.
DeletedNoteIsForgotten ==
    Settled => \A o \in Access : docs[o.note].here
=============================================================================
