# NoteWithFireStore: a verification project

NoteWithFireStore is an iOS app for notes kept in Firestore. An account owns
notes, locks them with a passcode, shares them with other accounts to view or to
edit, and dictates text. This directory holds TLA+ models of it, the TLC runs
that check them and the proofs TLAPS checks. Paths below are relative to
`src/NoteWithFireStore/NoteWithFireStore/`.

## Inventory

| component | code | state it keeps | operations |
|---|---|---|---|
| Firestore proxy | `Model/FireBaseProxy.swift` | none; queries and writes to `Users/{email}` and `Notes/{email+"note"+id}` | one asynchronous function per request |
| Sharing | `ViewModel/SharedNoteViewModel.swift`, `View/ShareSettingViewController.swift` | `sharedUsers` (one cache for the whole app), `isEdit`; in Firestore `sharedNotes` of an account, `sharedUsers` of a note | add people, stop share, delete a row, change a mode, load the list |
| Own notes | `View/NoteViewController.swift`, `ViewModel/NoteViewModel.swift` | `allNoteList`, `filteredNoteList`, `selectedRow` | load, search, open (test of `isEditing`), create (new id), delete (with passcode when locked) |
| Editors | `View/NoteDetailViewController.swift`, `View/CreateNoteViewController.swift` | `hasLock`, `lockStatus`, `isShared`, `isRecord`, three buttons | save on disappearing, lock and unlock, share, record |
| Shared notes | `View/SharedNoteViewController.swift`, `View/ViewModeShareViewController.swift` | rows with mode and list; the copy an editor was opened with | load, open, save, give up |
| Edit lock | all editors, `updateIsEditing`, `getEditingValue` | `isEditing` of a note | test, set, clear |
| Passcode | `View/SetPasscodeViewController.swift`, `ViewModel/SetPasscodeViewModel.swift` | `passcode`, `hint` of an account; `enterPasscodeCount` | set, change, ask |
| Session | `Login*`, `SignUp*`, `SceneDelegate.swift` | `username` in four view models and `UserDefaults` | sign up, verify, log in, log out |
| Voice | `ViewModel/VoiceViewModel.swift` | engine, request, task, tap, the text around the cursor | start, stop, result, last callback |
| Live updates | `listenNoteOwnerUpdate`, `tabIndex` | listeners that are never removed | a snapshot loads the list again |
| Search, images, helpers | see `PROJECT.json` | | |

How they interact. Controllers call view models (singletons), these call the
proxy, the proxy calls Firestore and hands the answer to a completion handler on
the main queue. Nothing waits: a screen can be left, covered or closed with
calls pending, and their handlers still run, on whatever the singletons hold by
then. Two documents describe one share (the account's entry and the note's) and
no transaction ties them; every change reads a list in one request and writes
the whole list back in another. Several devices do this at the same time.

What is hard, therefore: whole-list writes that overlap; a cache filled late; a
value read again after an acknowledgement; the advisory field `isEditing` tested
and set by separate requests, cleared only by a screen that disappears; crashes
(`notes[0]` of an empty result among them) that lose handlers while Firestore's
on-disk queue survives. `PROJECT.json` lists each hazard at its line.

What makes the components right:

- Sharing: access only as offered; one mode per pair; viewers never write; the
  two documents agree; what was stopped or deleted is gone.
- Edit lock: one editor at a time; no edit lost; a set field is somebody's; it
  becomes free again.
- Editors and passcode: a lock and sharing exclude one another; a note is locked
  only where there is a passcode; a locked note is opened or deleted only behind
  it.
- Own notes: a new id spares the notes there are; the row acted on is the row
  tapped; the lists follow the server.
- Session: Auth, the stored and the used name, listener and rows name one
  account; accounts and their documents belong together; only verified users
  get in.
- Voice: one recording at a time, the button tells the truth, no word is lost to
  a late result or answer, and a note is deleted only on purpose.

## Modules

| module | what it is |
|---|---|
| `Sharing` | the sharing protocol with Firestore's queues, all screens that touch it, kills |
| `SharingSerial` | the same, used one tap at a time; composes with `NoteAccess` |
| `NoteAccess` | abstract: what sharing promises, without documents |
| `EditLock` | the `isEditing` field and the text of one note |
| `EditLockCalm` | the same with spaced tests |
| `NoteLock` | the passcode lock: the owner's list, editors, alerts, passcode screen |
| `NoteList` | the owner's list on several devices: rows, indices, ids, listener |
| `Session` | sign-up, log-in, log-out and the screens that stay below |
| `Dictation` | the recorder and the text of a note |
| `ShareNames` | the lists of a share as strings, searched by what they contain |
| `Sharing_proofs`, `SharingSerial_proofs`, `ShareNames_proofs`, `EditLock_proofs`, `NoteLock_proofs`, `NoteList_proofs`, `Session_proofs`, `Dictation_proofs` | theorems and proofs |
| `MCSharing`, `MCEditLock`, `MCNoteLock`, `MCNoteList`, `MCSession`, `MCDictation`, `MCShareNames` | instances for TLC |

Each module follows one thread through the same screens and says in its head
which threads it leaves to the others: `Sharing` two accounts' lists, `EditLock`
one field of one note, `NoteLock` the lock, `NoteList` rows and ids, `Session`
accounts, `Dictation` text. What one of them needs of another is there as the
smallest step that can happen (an answer that may refuse the row, a list that
may change), so that its properties do not rest on what it leaves out.

### Sharing

`sharedNotes[u]` and `docs[n]` are the two documents. `queue[d]` are the writes
Firestore has accepted on device `d` and not yet sent; a query sees the server's
document under them (latency compensation: `UserSeen`, `HereSeen`,
`PeopleSeen`). `calls[d]` are the queries whose callback has not run: a call
record holds what its closure captured, `vc` the share settings controller it
belongs to. A write carries in `then` the calls its acknowledgement starts.

One action per handler. Taps: `OpenDetail`, `OpenCreate`, `FocusField`,
`LeaveEditor`, `OpenShare` (both save, through `SaveNote`), `BackToEditor`,
`ClickMode`, `AddPeople`, `StopShare`, `DeleteRow`, `ChangeMode`,
`SwipeDelete`; for the other side `LoadSharedNotes`, `OpenShared`,
`CloseShared`, `LeaveShared`. Callbacks of `getDocuments`: `ShareNoteRead`,
`ShareUserRead`, `DropNoteRead`, `DropUserRead`, `ModeNoteRead`,
`ModeUserRead`, `DropAllRead`, `FillCache`, `NoteMissing`. `Commit` applies the
oldest write and runs its completion handler; an `updateData` of a missing
document fails and runs the handler's error branch, which changes nothing.

Abstractions, beside those the module's head names:

- An entry is a record, a list is the set of its entries. Lists are appended to,
  searched and filtered; the position of an entry is never used between two
  requests. `String.contains` is equality here; `ShareNames` says when it may
  be (`note1`, `note10`).
- All accounts exist: "Username is invalid" changes no state. The extra
  existence read of `updateSharedUserForSingleNote` is part of its callback.
- Tapping a row, its `isEditing` test and the segue are one step; the test
  itself is `EditLock`'s subject. A note that is missing at the test is an index
  out of range, a kill like any other, so `OpenDetail` and `OpenShared` ask that
  it be there. `getSharedNote`'s loop of queries is one step too.
- Rows of the own list are notes of the account (`IsOwn`): `getNoteList` asks for
  its address. That the sharing screens of an owner are over such notes only is
  part of `TypeOK`, and what `AccessWasOffered` rests on.
- Two identical pending calls are one: their callbacks do the same.
- A crash is a kill or an index out of range: `Restart` clears all that is in
  memory; the queue stays, its completion handlers do not (`Forgotten`).
- When an account shares nothing the rows stay in memory but `emptyNoteView`
  lies over them: the model drops them.

History variables: `offered` grows with every mode an owner chose; `wanted` is
what the taps so far ask for.

### EditLock

One note, any number of devices, each the owner's, an editor's or a viewer's
(`Role`). `Ask` and `Answer` are the tap and the callback of
`getEditingValue`; entering queues the write that sets the field, leaving or
covering the editor (`Leave`, `Cover`) queues the save that clears it,
`Uncover` comes back from the share settings or the passcode screen without a
test. `text` is a stamp that names the save it comes from, and a save
remembers the stamp its editor was filled with (`base`): so a lost edit is a
save whose base is not the text it replaces.

### NoteLock

One note and one device of its owner. `note` and `coded` are the documents,
`queue` the unsent writes, `row`, `selected` and `hidden` the list, `alert` what
lies over the screen, `form` the passcode fields, `calls[k]` the pending queries
of each kind. `ed` is the open editor as a record with the names of the code:
`hasLock`, `lockStatus`, `isRecord`, `isShared`, the two buttons that are enabled
and disabled, and `bar`, the lock in the navigation bar (none, open, closed).

| action | code |
|---|---|
| `LoadRows`, `Reload`, `TapRow`, `OpenRow`, `SwipeDelete`, `Remove`, `AddNote` | `NoteViewController` |
| `FocusField`, `Type`, `Voice`, `Dictate`, `LockNote`, `AskToUnlock`, `ShareNote`, `Leave` | both editors; the handlers that only touch the editor are functions on `ed` (`CheckShared`, `SwitchField`, `ChangeContent`, `LockOn` ...) |
| `ShowSheet`, `ChooseRemove`, `ChooseAdd`, `ChooseEdit` | the lock's action sheet |
| `AddLock`, `AskPasscode(k)`, `EnterPasscode`, `DeleteTwice`, `Dismiss` | the answers of `getUserPasscode` and the alerts built from them |
| `CheckAnswer`, `LoadAnswer` | `checkIfDisableShareBtn`, `getNoteDetail` |
| `FillForm`, `TypePasscode`, `SetPasscode`, `StorePasscode`, `OkStored` | `SetPasscodeViewController` |
| `PeopleAnswer`, `ChangePeople`, `Back` | the share settings, as far as the editor sees them |
| `Commit`, `Elsewhere`, `Crash` | the server, other devices and collaborators, a kill |

The two editors share every action. Where their code differs the operators look
at `kind`: `CreateNote` reads the app-wide list at once (`CheckCached`) and puts
the open lock into its bar whatever `hasLock` says, `NoteDetail` asks the server.

Abstractions, beside those in the module's head: the cache holds the list of
this note or nothing (that it can hold another note's is `Sharing`'s subject);
one of the queries that `becomeFirstResponder` starts is left out, its answer
being that of the one next to it; a passcode alert is always answered right or
dismissed.

History variables: `wasCoded`, the account has had a passcode; `slipped`, an
empty one was stored, or a note was locked without one. The code lets this
happen in three places that the model keeps and the properties name as their
exceptions: the open lock in `CreateNote`'s bar
(`View/CreateNoteViewController.swift:83`), the passcode field read again after
a query (`View/SetPasscodeViewController.swift:72`), and the recording that
enables the share button of a note with a lock
(`View/NoteDetailViewController.swift:142`, `recorded`). No document of the
repository speaks of them, so they are hazards and not findings.

### NoteList

Several devices of one account. `docs` are the documents by id, `queue[d]` the
unsent writes, `Visible(d)` what a query on `d` returns: the documents under its
own writes, a `set`, a `delete`, and an `update` of the lock on top. `all` and
`filtered` are the two lists of the controller, `selected` the index of the
selected row, `shown` the block that a callback left on the main queue.

| action | code |
|---|---|
| `TapRow`, `OpenRow`, `OpenSelected` | `didSelectRowAt`, `getEditingValue`'s callback, `prepare(for:)`, which reads `indexPathForSelectedRow!` again |
| `SwipeDelete`, `AskPasscode`, `EnterPasscode`, `Dismiss`, `Remove` | `deleteAction`, `getUserPasscode`'s callback, the alert built from it, `executeDeleteNote` |
| `Search`, `Refresh` | the scope buttons (`applySearch`), the refresh button |
| `AddNote`, `LeaveCreate`, `LeaveDetail` | the new id, and what the editors save or delete |
| `ShowShared`, `BackToList` | the tab bar, `viewWillAppear` and `viewDidAppear` |
| `LoadAnswer`, `ShowAnswer` | the callback of `getNoteList`, which sets the lists at once and leaves `dismiss` and `reloadData` to the main queue |
| `Notice` | the listener: passes over an empty snapshot and the other tab |
| `Commit`, `Restart` | the server; a kill, or an index that is out of range |

A row is who made the note, as the how-many-eth, and whether it is locked: two
notes that had the same id are told apart by their stamp, and a write that
chooses an id remembers in `saw` the stamps its list held. Rows are in
the order of their ids.

### Session

One device. Auth's `accounts`, `verified` and `current`, the `Users` documents,
`UserDefaults` (`stored`), the view models' `username`, and `stack`: a log-out
presents a new login screen over the list, and nothing ever takes the old list
away, its listener (`fresh`) and its pending loads included. `Launch` is
`didLogin`, `CreateAccount`, `Created`, `CreateFails` and `CommitUser` are
`createUser`, its callback and `addNewUserToDatabase`; `SignedIn`, `SignInFails`
and `Enter` are `signIn` and its segue; `Snapshot` and `LoadAnswer` are the
listener and the list's callback, whose `self.dismiss` (`Dismissed`) takes away
what is presented over that list: an alert, or a whole login screen. UIKit's rule
for this is external and quoted in the module's head. Users may tap at any time
a waiting alert does not cover the screen; an answer may come arbitrarily late.

### Dictation

`running`, `tap`, `task` and `live` are the engine, the tap on bus 0, the view
model's `recognitionTask` and the tasks that will still call back. Stopping a
recording cancels its task and stops the engine; the tap goes with the last
callback, later. So a recording begun in between finds the bus taken, which
raises an exception: `Restart`. `text` are the two fields of whichever of the
three editors is open (`kind`), `loads` its unanswered queries, `base` what
stood in the field when the recording began. A text is a set of words, one per
recording or typing: all that matters is which words stand in a field, go into
the document, and come back. `Cover` and `Uncover` are the way to another
screen, which saves; `Search` is the alert that listens.

`locked` is the view over a locked note. `LockOn` ends the recording and the
editing but leaves `isRecord` as it is (`View/NoteDetailViewController.swift:205`,
`View/CreateNoteViewController.swift:196`); the open lock is in the bar during a
recording when the answer of `getUserPasscode` comes after the microphone was
tapped. `Unlock` is the right passcode. A locked `NoteDetail` that opens or comes
back takes no focus, so it stops nothing either. Which locks, buttons and alerts
there are is `NoteLock`'s subject; here the lock of any note that has a text may
be tapped.

History variables: `emptied`, the fields the user emptied; `answered`, a query
of this editor was answered; `adrift`, the engine stopped by itself, did not start,
or went on under an alert that was taken away, or a lock was set during the
recording, until a field is touched or the screen left.

### ShareNames

The two lists of a share as sequences of strings, beside them what is meant
(`grants`). A string is the record of its parts; `Within`, `Ends` and `Begins`
say which address contains, ends with, and which number begins with which. The
tests of the code are these: `Holds` (the note's name is found in an entry),
`HoldsMode` (with the mode), `Lists` and `ListsMode` for accounts; `Held` and the
like are the positions where they succeed. Each change is
one step here: `Share`, `StopShare` (with the entries of both modes dropped from
one snapshot or from two), `ChangeMode`, `DeleteRow`, `GiveUp`.

## Runs

| run | instance | shows |
|---|---|---|
| `sharing` | alice owns n1, shared with bob to view; 4 taps of alice, 3 of bob, one kill; `Spec` | `TypeOK`, `AccessWasOffered`, `SingleMode`, `EditorsOnly` |
| `sharing_cache` | bob owns n2, shared with carol, and edits alice's n1; 5 taps of bob | `ListedBySameOwner` |
| `sharing_serial` | alice's n1 and n2; 7 taps of alice, 3 of bob; one tap at a time | `ListsAgree`, `PromiseKept` (refinement of `NoteAccess`, with liveness) |
| `share_names` | ann, joann and bob, notes 1 and 10; 5 changes | `TypeOK`, `OnlyOffered`, `NamesApart` |
| `edit_lock` | an owner and an editor, 2 openings and 2 visits each, one kill | `TypeOK`, `FlagIsOwned`, `EventuallyFree` |
| `edit_lock_calm` | two devices of the owner, an editor, a viewer; spaced tests, no visits, one kill | `OneEditor`, `NoEditLost` |
| `note_lock` | the owner's device; 6 taps, one write from elsewhere, one kill, one pending query of a kind | `TypeOK`, `LockOrShare`, `PasscodeFirst`, `PasscodeBeforeLock` |
| `note_list` | two devices of one account, two notes, room for a third; a tap each, one kill | `TypeOK`, `SelectionFollows`, `AlertKeepsItsRow`, `ListsTogether`, `KeepsWhatItKnows`, `ListCatchesUp` |
| `session` | an old account and one that signs up; 8 taps, one change, one kill | `TypeOK`, `SessionAgrees`, `HomeHasName`, `DocsMatchAccounts`, `LoginVerifies`, `WaitEnds` |
| `dictation` | one note, 4 words, 7 taps, one disturbance from outside | `TypeOK`, `OneRecording`, `MicAgrees`, `WordsStay`, `DeletedOnPurpose`, `CanRecordAgain` |
| `deleted_note` | a small instance of `Sharing` | a statement of a comment that the code does not keep |
| `one_editor` | a small instance of `EditLock` with visits | a message that the code does not keep |

Bounds: `MaxTaps[d]` user actions, `MaxCrashes` kills, `MaxOpens`,
`MaxVisits`, and those named below; everything else is bounded through them.
Four taps of the owner in `sharing`
open a note, go to its settings and make two overlapping changes there; three
of the collaborator load the rows, open one and save it, all in every order with
callbacks, sends and a kill. Seven serial taps reach settings, two changes and
a second visit. `n2` starts unmade where it is in play, so that a note is made,
filled and shared from `CreateNote` too. Deadlock is not checked: users may
stop, and the taps run out.

Six taps of `note_lock` open a note, reach the sheet, add a lock, lock, leave and
open it again; or set a first passcode on the way. 8 taps with two pending
queries of a kind (20 million states) show nothing else. `MaxPending` also says
how far answers of one kind can overtake one another; the callbacks of different
kinds run in any order.

In `note_list` what ends a tap's work is not counted: leaving an editor,
answering an alert, coming back to the list. So one tap of each device is one
whole visit, and two of them meet in every order with both devices' loads,
snapshots and writes: enough for two devices to choose one id, for a deletion on
one to move the rows under an alert on the other, and for a kill in between.
Two taps of one device (one and a half million states, without the kill) show
nothing else. `MaxLoads` bounds the unanswered loads of a device: with one, a
snapshot waits while a load is under way, as a second load would only repeat the
answer of the first.

Eight taps of `session` sign up, verify, log in, log out, log in as the other and
log out of that again; one kill and one change of a note come at any moment. In
`dictation` seven taps open an editor, record, stop, type, cover it and record
again; or record, lock, unlock and record again. In `share_names` five changes share two notes with alike names, change the
mode of one, remove it and share again; note 10 is the first whose name contains
another.

`PasscodeFirst` speaks of notes that this device saved last, as it sees them:
a row loaded before somebody else's lock opens without a passcode, and the code
does nothing against it. `LockOrShare` and `PasscodeBeforeLock` are about the
steps between: a lock is set by an answer that was asked for several screens
earlier, while another answer enables the share button.

The serial run leaves out two habits, `ClearAndShare` and `GiveUp`, because each
of them breaks agreement all by itself; `deleted_note` switches on the first. The
calm run leaves out visits for the same reason (`one_editor`), and making a
deleted note anew.

Some properties of the newer modules name what they except, in history variables
that record just that: `fallen` and `letIn` in `Session`, `emptied`, `answered`
and `adrift` in `Dictation`, `left` in `ShareNames`. Without the exception the
property fails, with it TLC shows that there is no other.

Fairness. `Sharing`, `EditLock`: `WF(Callback)` and `WF(Commit)` per device.
Firestore answers every query (from its cache when offline) and sends every
queued write sooner or later; nothing is assumed of users. `EventuallyFree` and
the liveness half of `PromiseKept` need it. `NoteList`: the same, and that the
main queue is run and listeners are told, per device; `ListCatchesUp` needs all
four. `Session`: Auth answers a sign-up or a log-in, or reports failure; the
`Users` document is accepted or refused; nothing is assumed of lists, snapshots,
mails or users. `Dictation`: a cancelled task ends (`Ended`), which the speech
framework promises; nothing else.

### What the code does not keep

Two runs show statements of the repository that the code does not keep:

1. `DeletedNoteIsForgotten`: clear a note, open its share settings: the app dies
   on `myNote[0]` before the accounts' lists are written
   (`Model/FireBaseProxy.swift:461`).
2. `OneEditor`: a visit to the share settings clears `isEditing`
   (`View/NoteDetailViewController.swift:119`) under an editor that comes back.

The models show more that no document speaks of. The properties leave these
cases out, by a condition or a history variable, and are true of all others:

3. A collaborator's editor writes back the list it was opened with, after the
   owner stopped sharing (`View/ViewModeShareViewController.swift:80`).
4. Two owners share with one account at the same time, and one whole-list write
   removes the other's entry (`Model/FireBaseProxy.swift:428`).
5. After leaving a note, being added again in the other mode and being removed,
   an account keeps the entry with the other mode
   (`Model/FireBaseProxy.swift:569`; `left`).
6. A kill in an editor leaves `isEditing` set for good.
7. From the eleventh note on, note 1 is found in the entry of note 10
   (`Model/FireBaseProxy.swift:388`, `:425`, `:502`, `:662`): sharing it says
   "Username exists", or a change or removal hits the wrong entry. So it is with
   addresses that end alike. `NamesApart` says that it goes no further.
8. Two devices that add a note at the same time choose the same id, and the later
   `setData` replaces the other's note; left empty, it deletes it
   (`View/NoteViewController.swift:283`). `KeepsWhatItKnows` says that this
   never hits a note of one's own, or one that was in the list.
9. Between the callback that sets the lists and its `reloadData` the selected
   index may be that of another row, or of none, which ends the app; a swipe on
   a locked row asks for the passcode of whatever row has the index by then.
10. A late answer's `self.dismiss` takes a login screen away that lies over the
    list it is for: the list of one account is back under the username of
    another (`View/NoteViewController.swift:58`; `fallen`).
11. An unverified account is let in at launch, over the session that sign-up
    left (`Model/FireBaseProxy.swift:96`; `letIn`).
12. Leaving `NoteDetail` before its query is answered deletes the note
    (`View/NoteDetailViewController.swift:93`; `answered`). Words typed while a
    load or a stopped recording is unanswered are lost to the answer. A second
    recording too soon after the first ends the app. An answer that takes the
    search alert away leaves the microphone on.
13. A lock set during a recording stops it, but not `isRecord`
    (`View/NoteDetailViewController.swift:209`): once the note is unlocked the
    button shows the microphone off while it is on, and on while it is off
    (`adrift`).
14. Two overlapping changes of one share in `ShareSetting` leave different modes
    in the two documents (`View/ShareSettingViewController.swift:66`), and a kill
    between them leaves one of them without the entry.

So a property that names a hazard need not exclude its worst moment. Entries that
are lost or revived (3, 4, 14), the field of an app that died (6), a colliding id
(8) and words that an answer replaces (12) do come about in the models, and no
property forbids them; the properties say how far the damage goes.

## Proofs

`Sharing_proofs` proves, for all sets of accounts, devices and notes, all
initial offers and all bounds: `TypeCorrect` (`[]TypeOK`), `AccessSafe`
(`[]AccessWasOffered`), `ModesSafe` (`[]SingleMode`), `EditorsSafe`
(`[]EditorsOnly`) and `ListsSafe` (`[]ListedBySameOwner`). The assumptions are
those of `Sharing`: devices run accounts, notes have owners, the initial offers
are consistent, the bounds are numbers.

None of the properties is inductive: they speak of the documents, and a document
is overwritten by a list that was computed earlier, from a read that was already
stale. `IInv` therefore says of everything that can become a document what the
property says of documents. `GoodEntries(u)` are the lists the account `u` may
have (offered, foreign notes only, one entry per note), `GoodPeople(o)` the
lists a note of `o` may have; good are the documents, every list in a queued
write, every list cached in `people`, in a row or in an open shared editor, and
every pending call (its mode is one its owner offered; its controller exists).
Reads then return good lists (`UserSeenGood`, `PeopleSeenGood`), each callback
turns a good list and a good call into a good write, and `Commit` makes a good
write a document. One lemma per action; `Frame`, `Rest` and `ReadFrame` carry
what an action leaves alone; `offered` only grows (`Keeps`).

`SharingSerial_proofs` proves, from `Habits = {}` and nothing else about the
instance, `ListsAgreeHolds` (`SerialSpec => []ListsAgree`) and `PromiseSafe`
(`SerialSpec => Promise!Safe`: the serial system implements `NoteAccess`, its
fairness aside). `Habits = {}` leaves out the two habits that break the agreement
by themselves (`deleted_note` shows it of the first); the instance of
`sharing_serial` has it too. `ListsAgree` speaks of settled states only, and the
way there is long: a tap starts two queries, their callbacks queue writes, an
acknowledgement starts another query, and a save from an editor may be in
between. `SerialInv` needs no phases for this, since what was asked for (`wanted`)
is known from the tap on and does not change until all is settled. It says that
everything under way tends to it: an unsent write carries the list that was
asked for (`WriteFits`), a pending query will make that list of the one the
server has (`CallFits`, `PeopleCallFits`), a list of the server that is not yet
right has such a write or query coming (`UserComes`, `PeopleComes`), and what the
cache, the rows and the editors hold is right or about to be (`CacheFits`,
`ForeignFits`). Only one device is at work (`OneAtWork`), so the others' stale
lists are no danger. With nothing under way `SerialInv` makes every list right
(`CalmBefore`), which is where each tap starts. For the refinement a write of an
account's list may differ from the server's list only in the entry of the note
it is about: that is a conjunct of `WriteFits`, and makes a `Commit` one `Grants`.

`ShareNames_proofs` proves, for any accounts, notes and names, `TypeCorrect`,
`NothingUnoffered` (`[]OnlyOffered`) and `ConfusionStays` (`[]NamesApart`). Of the
containments it assumes what strings give: a name contains itself, and what ends
with a name contains it. An entry that is found for another is one that was
offered, under a name like the other's; so where an account and a note are like
nothing that was offered, a search finds their own entries only (`NoteFound`,
`UserFound`), and no search for what was offered finds theirs. `IInv` adds that
what is meant has one mode for a note and an account, as `StopShare` drops one
entry of each list. What is dropped, replaced or appended is then counted: the
lemmas on `Drop`, `Replace` and `Append` say of an entry that it stays once, or
stays away (`DropSays`, `ReplaceSays`, `AppendSays`). The list operators of
`ShareNames` work on sets of positions, as `SelectSeq` is defined by a recursion
that only an induction could follow.

`EditLock_proofs` proves `TypeCorrect` and `LockSafe` (`[]FlagIsOwned`) for any
number of devices, roles and bounds. The field alone is not inductive, since
the last write of a queue decides what it becomes: `LockInv` adds that the queue
of a device that is not editing ends with a write that clears the field, and that
a missing note has no field.

Its second half (of `EditLockCalm`) proves of the same lock that it does protect a note when
its tests are spaced (`CalmSpec`): `OneEditorHolds` (`[]OneEditor`) and
`NoEditLostHolds` (`NoEditLost`), again for any number of devices, roles and kills.
`CalmInv` calls a device active when it edits or has unsent writes, and says that
at most one is; that its queue is a set of the field, a save from the server's
text, or the one before the other; and that while a test is awaited the field is
set as long as anybody is active (`TestTells`). A test that finds the field clear
therefore finds nobody, and the editor it opens is the only one. The violated run
`one_editor` shows that one visit to a covering screen is enough to lose `OneEditor`.

`NoteLock_proofs` proves, for every bound, `TypeCorrect`, `LocksExcludeShares`
(`[]LockOrShare`), `PasscodeComesFirst` (`PasscodeBeforeLock`) and `PasscodeAsked`
(`PasscodeFirst`). `PasscodeComesFirst` needs an invariant, because what allows the tap that locks was brought about
long before it: by an answer, an alert, a row, a queued save, a note that was
locked elsewhere. `Clean` says that nothing of the kind exists, anywhere;
`Vouched`, that the account has had a passcode or an empty one slipped in; and
`Inv` that one of the two holds. `CleanReads` shows that a clean device cannot
read a passcode or a lock, each action gets a lemma, and the theorem follows
since a step that locks leads out of `Clean` while only three steps
(`HistoryKept`) can make `Vouched` true.
`PasscodeFirst` is about a row that was loaded before the note was locked. What
the device and the server together know of the lock is `OwnLock`: the last unsent
save locks the note, or there is none and the document has the lock it was saved
with here. A commit only moves this knowledge from the queue to the document, and
nobody elsewhere adds to it; only this device's own saves do, and after a save
the list comes back behind "Loading..". So `Covered` (`RowsCovered`) holds: while
`OwnLock` does, a row shown unlocked lies under that alert or under
`emptyNoteView`, with no query of `isEditing` pending, until a load replaces it,
and a load sees the lock.

`NoteList_proofs` proves, for any number of devices and ids and every bound,
`TypeCorrect`, `ListsStayTogether` (`[]ListsTogether`), `SelectionSafe`
(`[]SelectionFollows`), `AlertSafe` (`[]AlertKeepsItsRow`) and
`CreationsReplaceStrangers` (`KeepsWhatItKnows`). It assumes that the notes there
are at first have different ids and stamps. `SelectionFollows` speaks of the
moments when rows and lists agree; `SelectionOK` says more, that they are apart
only while a "rows" block waits, and is inductive. Three groups of lemmas carry
it: an index has one row at most, and when a row is removed every other is found
under the index `Shift` gives it (`RankWithout`, `ShiftFollows`, by counting the
rows above); what Firestore shows under unsent writes are rows with different
ids (`NewestOne`, `BaseOne`, `VisibleGood`); one lemma per action.
`KeepsWhatItKnows` is about the moment a creation reaches the server, long after
its id was chosen. `Clear` says of an id, and of the writes queued before a
creation, that the device finds there nothing of its own and nothing that was in
its list; it is so for every unsent creation (`CreationsClear`) and for the
editor (`EditorsClear`), and a commit, of this device or another, keeps it. An id
is clear when it is chosen, as it is that of no row (`NewIdFree`) and a list that
is not about to be loaded holds every note of its own (`OwnHeld`). That what
another device sends later was not in the list needs stamps: each is given once,
to a note of the device that sends it (`StampsGiven`, `StampsApart`), nobody
knows it before (`UnsentUnknown`), and a row has the id of its note
(`RowsPlaced`).

`Session_proofs` proves, for any set of accounts and every bound, `TypeCorrect`,
`SessionSafe` (`[]SessionAgrees`), `NameSafe` (`[]HomeHasName`), `DocsSafe`
(`[]DocsMatchAccounts`) and `VerifiedOnly` (`[]LoginVerifies`). The invariant adds
what holds of the screens nobody sees: those that are covered are lists without
an alert, a login or sign-up screen has asked for nothing, and the list on top
asks for the notes of the account in use only, unless what lay over it fell
(`TopGood`). Screens that fall are cut off a sequence, which the lemmas on
`CutTo` and `Dismissed` follow.

`Dictation_proofs` proves, for every bound, `TypeCorrect`, `OneRecordingSafe`,
`MicSafe` (with the exceptions that `adrift` records: engines, alerts, and a lock
set during a recording), and the action properties `DeletedOnPurposeHolds` and
`WordsStayHolds`.
`RecorderOK` adds to `OneRecording` that at most one task is to call back, which
makes `Begin` safe wherever the bus is free; `FieldsOK`, that an emptied field is
empty and that, once a query was answered, an empty one was emptied: so a note
whose fields are both empty is deleted on purpose. `WordsStay` is proved by
following one word through every step (`Standing`), from the same invariant.

Every safety property of a passing run is the statement of a theorem, `PromiseKept`
for its safety half. Only model-checked is what is out of the prover's reach,
liveness: `EventuallyFree`, `ListCatchesUp`, `WaitEnds`, `CanRecordAgain` and the
fairness half of `PromiseKept`. The two violated runs have nothing to prove.

## Plan

What the first plan listed is there. What would come next:

1. The shared notes' list with positions, sorting and its listener, as `NoteList`
   has the owner's.
2. Passcodes with values, so that a passcode changed elsewhere while an alert is
   up can be told from the one the alert compares with.

There are as many runs as one wants to wait for after every change; a new module
takes the place of a run that says least.

## Not modelled

Wording, layout, keyboard and icons; the text of a search and the order of shared
rows, which are pure; the value of a passcode, its hint and wrong answers, which
ask again; the reset of a password; addresses that contain "note" or "mode",
which end the app when a list with them is read (`Model/FireBaseProxy.swift:299`):
nothing in the repository says which addresses it is for; queries that fail, as
Firestore answers from its cache when offline, so `Model/FireBaseProxy.swift:290`
(no completion on an error) is only a hazard; images (`uploadImage` is never
called); Firebase, UIKit and the speech framework themselves, beyond what the
heads of the modules say; the pods.
