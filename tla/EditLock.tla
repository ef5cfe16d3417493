------------------------------ MODULE EditLock ------------------------------
(***************************************************************************)
(* The isEditing field of one note: the advisory lock that is meant to keep*)
(* two people from editing a note at the same time.                        *)
(*                                                                         *)
(* A tap on a row reads the field and opens the editor when it is false.   *)
(* The editor sets it in viewDidAppear, and viewWillDisappear, which saves *)
(* the whole note, clears it; the editor also disappears when the owner    *)
(* goes on to the share settings or to the passcode screen.  Test and set  *)
(* are separate requests, and every write waits in the queue of its device.*)
(*                                                                         *)
(* Abstractions.  Of the note the model keeps its existence, the field and *)
(* a stamp that names the save its text comes from.  Opening an editor     *)
(* takes viewWillAppear and viewDidAppear in one step, leaving it saves.   *)
(***************************************************************************)
EXTENDS Naturals, Sequences

CONSTANTS Device,    \* running copies of the app
          Role,      \* Role[d]: what d's account is to the note
          MaxOpens,  \* bound: rows tapped or notes created, per device
          MaxVisits, \* bound: visits to the share settings or passcode screen, per device
          MaxCrashes \* bound: times the app is killed, all devices

ASSUME RoleAssumption  == Role \in [Device -> {"owner", "edit", "view"}]
ASSUME BoundAssumption == MaxOpens \in Nat /\ MaxVisits \in Nat /\ MaxCrashes \in Nat

VARIABLES
    here,    \* does the document exist on the server?
    flag,    \* its isEditing field
    text,    \* the save its title and description come from
    screen,  \* screen[d]: what d shows
    calls,   \* calls[d]: queries whose callback has not run
    shown,   \* shown[d]: the text d's editor was filled with, if it was
    queue,   \* queue[d]: writes accepted by Firestore and not yet sent
    opens, visits, crashes, \* bounded counters
    saves,   \* saves[d]: saves made by d, to stamp them
    died     \* history: has an app been restarted, whatever killed it?

note     == <<here, flag, text>>
counters == <<opens, visits, crashes, saves>>
vars     == <<note, screen, calls, shown, queue, counters, died>>

Covers    == {"detailShare", "detailPasscode", "createShare", "createPasscode"}
Screens   == {"home", "detail", "create", "shared"} \cup Covers
Initially == <<>>
Nothing   == <<"nothing">>
Stamp     == Device \X Nat
Text      == Stamp \cup {Initially}
Write     == [kind : {"flag"}] \cup [kind : {"delete"}]
             \cup [kind : {"save", "set"}, text : Text, base : Text \cup {Nothing}]

RaiseFlag == [kind |-> "flag"]
Delete    == [kind |-> "delete"]

\* Mutant: a save leaves the field set.
SavesRaise(w) == w.kind \in {"flag", "save"}

\* Which writes set isEditing (all others clear it), and which carry a text.
Raises(w)  == w.kind = "flag"
Carries(w) == w.kind \in {"save", "set"}

-----------------------------------------------------------------------------
(* Latency compensated reads: the document under d's own unsent writes *)

LastOf(d, Test(_)) ==
    {queue[d][i] : i \in {i \in DOMAIN queue[d] :
        Test(queue[d][i]) /\ \A j \in DOMAIN queue[d] : j > i => ~Test(queue[d][j])}}

HereSeen(d) ==
    LET new == LastOf(d, LAMBDA w : w.kind \in {"set", "delete"})
    IN  IF new = {} THEN here ELSE \E w \in new : w.kind = "set"

\* Every write changes the field.
FlagSeen(d) ==
    LET new == LastOf(d, LAMBDA w : TRUE)
    IN  IF new = {} THEN flag ELSE \E w \in new : Raises(w)

TextSeen(d) ==
    LET new == LastOf(d, Carries)
    IN  IF new = {} THEN {text} ELSE {w.text : w \in new}

-----------------------------------------------------------------------------
Init ==
    /\ here = TRUE /\ flag = FALSE /\ text = Initially
    /\ screen = [d \in Device |-> "home"]
    /\ calls = [d \in Device |-> {}]
    /\ shown = [d \in Device |-> Nothing]
    /\ queue = [d \in Device |-> <<>>]
    /\ opens = [d \in Device |-> 0]
    /\ visits = [d \in Device |-> 0]
    /\ crashes = 0
    /\ saves = [d \in Device |-> 0]
    /\ died = FALSE

Show(d, s)    == screen' = [screen EXCEPT ![d] = s]
\* Mutant: an answered query stays pending.
AlsoCall(d, new) == calls' = [calls EXCEPT ![d] = @ \cup new]

Call(d, new)  == calls' = [calls EXCEPT ![d] = new]
Send(d, ws)   == queue' = [queue EXCEPT ![d] = @ \o ws]
Count(v, d)   == [v EXCEPT ![d] = @ + 1]

\* The app is restarted: Firestore keeps its queue on disk, callbacks are lost.
Restart(d) ==
    /\ Show(d, "home")
    /\ Call(d, {})
    /\ shown' = [shown EXCEPT ![d] = Nothing]
    /\ died' = TRUE
    /\ UNCHANGED <<note, queue>>

Crash(d) ==
    /\ crashes < MaxCrashes
    /\ crashes' = crashes + 1
    /\ Restart(d)
    /\ UNCHANGED <<opens, visits, saves>>

\* Mutant: the answer is not looked at.
MayOpenAnyhow(d) == TRUE

\* The editor opens if nobody is seen editing.
MayOpen(d) == ~FlagSeen(d)

\* didSelectRowAt: getEditingValue is called.
Ask(d) ==
    /\ screen[d] = "home" /\ calls[d] = {} /\ opens[d] < MaxOpens
    /\ opens' = Count(opens, d)
    /\ Call(d, {"ask"})
    /\ UNCHANGED <<note, screen, shown, queue, visits, crashes, saves, died>>

\* Mutant: an account that may edit does not set the field.
OwnerEntering(d) == IF Role[d] = "owner" THEN <<RaiseFlag>> ELSE <<>>

\* viewDidAppear of the two editors; a viewer never sets the field.
Entering(d) == IF Role[d] = "view" THEN <<>> ELSE <<RaiseFlag>>

\* The callback of getEditingValue: segue and viewDidAppear, or the alert
\* "Someone is editing this note, please wait".
Answer(d) ==
    /\ calls[d] = {"ask"}
    /\ IF ~HereSeen(d) THEN Restart(d)
       ELSE IF ~MayOpen(d)
            THEN Call(d, {}) /\ UNCHANGED <<note, screen, shown, queue, died>>
            ELSE /\ Show(d, IF Role[d] = "owner" THEN "detail" ELSE "shared")
                 /\ Call(d, {"load"})
                 /\ Send(d, Entering(d))
                 /\ UNCHANGED <<note, shown, died>>
    /\ UNCHANGED counters

\* getNoteDetail and loadNoteByID fill the editor; a missing note makes
\* getSharedUsers and loadNoteByID take element 0 of an empty result.
Load(d) ==
    /\ calls[d] = {"load"}
    /\ IF ~HereSeen(d) THEN Restart(d)
       ELSE /\ \E t \in TextSeen(d) : shown' = [shown EXCEPT ![d] = t]
            /\ Call(d, {})
            /\ UNCHANGED <<note, screen, queue, died>>
    /\ UNCHANGED counters

\* "+": a new note; nothing marks it as being edited.
Create(d) ==
    /\ screen[d] = "home" /\ calls[d] = {} /\ opens[d] < MaxOpens
    /\ Role[d] = "owner" /\ ~HereSeen(d)
    /\ opens' = Count(opens, d)
    /\ Show(d, "create")
    /\ UNCHANGED <<note, calls, shown, queue, visits, crashes, saves, died>>

\* saveNote, from viewWillDisappear.  keep is FALSE when title and description
\* are both empty: the owner's editors then delete the note.
Save(d, keep) ==
    LET stamp == <<d, saves[d] + 1>>
        kind  == IF screen[d] = "create" THEN "set" ELSE "save"
    IN  IF screen[d] = "shared" /\ Role[d] = "view"
        THEN UNCHANGED <<queue, saves>>
        ELSE /\ keep \/ Role[d] = "owner"
             /\ Send(d, IF keep THEN <<[kind |-> kind, text |-> stamp, base |-> shown[d]]>>
                                ELSE <<Delete>>)
             /\ saves' = Count(saves, d)

\* Back: what a pending load still returns goes to a controller nobody sees.
Leave(d, keep) ==
    /\ screen[d] \in {"detail", "create", "shared"}
    /\ Save(d, keep)
    /\ Show(d, "home")
    /\ Call(d, {})
    /\ shown' = [shown EXCEPT ![d] = Nothing]
    /\ UNCHANGED <<note, opens, visits, crashes, died>>

\* On to the share settings or the passcode screen: the editor disappears,
\* so it saves and clears the field, and stays below.
Cover(d, s, keep) ==
    /\ visits[d] < MaxVisits
    /\ \/ screen[d] = "detail" /\ s \in {"detailShare", "detailPasscode"}
       \/ screen[d] = "create" /\ s \in {"createShare", "createPasscode"}
    /\ visits' = Count(visits, d)
    /\ Save(d, keep)
    /\ Show(d, s)
    /\ UNCHANGED <<note, calls, shown, opens, crashes, died>>

\* Back to the editor, with no test of the field.  The share settings set it
\* through their delegate, NoteDetail in viewDidAppear; a new note covered by
\* the passcode screen comes back without it.  NoteDetail loads the note again.
Uncover(d) ==
    /\ screen[d] \in Covers
    /\ Send(d, CASE screen[d] = "detailShare"    -> <<RaiseFlag, RaiseFlag>>
                 [] screen[d] = "createPasscode" -> <<>>
                 [] OTHER                        -> <<RaiseFlag>>)
    /\ IF screen[d] \in {"detailShare", "detailPasscode"}
       THEN Show(d, "detail") /\ Call(d, {"load"})
       ELSE Show(d, "create") /\ UNCHANGED calls
    /\ UNCHANGED <<note, shown, counters, died>>

\* The server applies d's oldest write; an update of a missing note fails.
Commit(d) ==
    /\ queue[d] # <<>>
    /\ queue' = [queue EXCEPT ![d] = Tail(@)]
    /\ LET w == Head(queue[d])
       IN  IF w.kind \in {"save", "flag"} /\ ~here
           THEN UNCHANGED note
           ELSE /\ flag' = Raises(w)
                /\ text' = IF Carries(w) THEN w.text ELSE text
                /\ here' = (w.kind # "delete")
    /\ UNCHANGED <<screen, calls, shown, counters, died>>

Opening(d) == Ask(d) \/ Create(d)
Closing(d) == \E keep \in BOOLEAN : Leave(d, keep)
Visiting(d) == \/ \E s \in Covers, keep \in BOOLEAN : Cover(d, s, keep)
               \/ Uncover(d)

Next == \E d \in Device : \/ Opening(d) \/ Closing(d) \/ Visiting(d)
                          \/ Answer(d) \/ Load(d) \/ Commit(d)
                          \/ Crash(d)

\* Firestore sends every write sooner or later; nothing is assumed of users.
Spec == Init /\ [][Next]_vars /\ \A d \in Device : WF_vars(Commit(d))

-----------------------------------------------------------------------------
TypeOK ==
    /\ here \in BOOLEAN /\ flag \in BOOLEAN /\ text \in Text
    /\ screen \in [Device -> Screens]
    /\ calls \in [Device -> {{}, {"ask"}, {"load"}}]
    /\ shown \in [Device -> Text \cup {Nothing}]
    /\ queue \in [Device -> Seq(Write)]
    /\ opens \in [Device -> 0 .. MaxOpens]
    /\ visits \in [Device -> 0 .. MaxVisits]
    /\ crashes \in 0 .. MaxCrashes
    /\ saves \in [Device -> Nat]
    /\ died \in BOOLEAN

\* d has the note open for editing.
Editing(d) == \/ screen[d] \in {"detail", "create"}
              \/ screen[d] = "shared" /\ Role[d] = "edit"

\* As long as no app is restarted, a set field is somebody's: either an editor is
\* open, or a device still has to send the write that clears it.  Every way
\* out of an editor queues such a write last, so no interleaving of saves,
\* deletions, visits and tests leaves a note locked that nobody edits.
FlagIsOwned ==
    flag /\ ~died => \E d \in Device : Editing(d) \/ queue[d] # <<>>

\* Once everybody stays out of the editors, and no app was restarted, the note is
\* free for good: the queued writes cannot end with the field set.
EventuallyFree ==
    <>[](\A d \in Device : ~Editing(d)) /\ []~died => <>[]~flag

\* "Someone is editing this note, please wait" (NoteViewController.swift:275): a
\* note being edited is not opened by a second person.
OneEditor == \A d, e \in Device : Editing(d) /\ Editing(e) => d = e
=============================================================================
