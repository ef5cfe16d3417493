------------------------------ MODULE Session ------------------------------
(***************************************************************************)
(* Sign-up, log-in and log-out on one device: the account Firebase Auth    *)
(* takes for signed in, the name the view models use, the screens that lie *)
(* one over another, and the calls that are answered after the user has    *)
(* gone on.                                                                *)
(*                                                                         *)
(* A log-out presents a new login screen over the list it came from, which *)
(* is never taken away: stack[k] is a login screen with what is on top of  *)
(* it, stack[k + 1] what was presented over that.  Of UIKit (external) the *)
(* documented rule matters that dismiss takes away what a screen, or what  *)
(* contains it, presents, and all above; a screen that presents nothing is *)
(* itself taken away from the one that presented it.                       *)
(*                                                                         *)
(* Abstractions.  Of the lists only whose notes they show; every account   *)
(* has some.  The two tabs, which load and log out alike, are one.  An     *)
(* answer and the block it leaves on the main queue are one step: NoteList *)
(* tells them apart.  Input that is not valid changes nothing.  The        *)
(* messages that end a call can be dismissed at any time and are left out, *)
(* as is the reset of a password, which changes nothing on the device.     *)
(***************************************************************************)
EXTENDS Naturals, Sequences

CONSTANTS Email,       \* the addresses people sign up with
          OldAccounts, \* those that have signed up, and verified, before
          None,        \* no address
          MaxTaps,     \* bound: user actions
          MaxChanges,  \* bound: changes of notes by others
          MaxCrashes   \* bound: times the app is killed

ASSUME EmailAssumption == None \notin Email /\ OldAccounts \subseteq Email
ASSUME BoundAssumption == MaxTaps \in Nat /\ MaxChanges \in Nat /\ MaxCrashes \in Nat

VARIABLES
    accounts, \* Auth: the accounts there are
    verified, \* Auth: those whose address is verified
    users,    \* the documents of the Users collection
    current,  \* Auth.auth().currentUser, kept over a restart
    stored,   \* UserDefaults: "username", kept over a restart
    unsent,   \* new Users documents not yet sent, kept over a restart
    username, \* the view models' username
    stack,    \* the screens, the top one last
    wait,     \* the call "Verifying" or "Creating" is shown for
    fresh,    \* fresh[k]: a snapshot waits for the listener of stack[k]
    taps, changes, crashes, \* bounded counters
    cut,      \* history: accounts whose sign-up failed or was cut short
    fallen,   \* history: the screens over the list were taken from it, not left
    letIn     \* history: it was didLogin that took the username

auth     == <<accounts, verified, users>>
device   == <<current, stored, unsent>>
counters == <<taps, changes, crashes>>
history  == <<cut, fallen, letIn>>
vars     == <<auth, device, username, stack, wait, fresh, counters, history>>

Name    == Email \cup {None}
Kinds   == {"login", "signup", "home"}
Screen  == [kind : Kinds, owner : Name, rows : Name,
            alert : {"none", "loading", "exit"}, loads : [Email -> Nat]]
Idle    == [kind |-> "none", email |-> None, at |-> 0]
Wait    == [kind : {"none", "create", "created", "add", "signin", "enter"},
            email : Name, at : Nat]

Top     == Len(stack)
NoLoads == [e \in Email |-> 0]
Login   == [kind |-> "login", owner |-> None, rows |-> None,
            alert |-> "none", loads |-> NoLoads]

-----------------------------------------------------------------------------
(* Steps that several handlers take *)

\* loadNoteList: "Loading..", if nothing is presented, and getNoteList(username!).
Loading(s, name) == [s EXCEPT !.alert = IF @ = "none" THEN "loading" ELSE @,
                              !.loads[name] = @ + 1]

\* The list's viewDidLoad, which adds the listener, and viewDidAppear.
Home(s, name) == Loading([s EXCEPT !.kind = "home", !.owner = name], name)

\* Mutant: the view models are not told.
StoreName(e) == stored' = e /\ UNCHANGED username

\* updateCurrentUsername, after a log-in.
SetName(e) == username' = e /\ stored' = e

\* Mutant: a listener is thought of as gone with nothing.
AllFresh(n) == fresh

\* The snapshots the lists of the first n screens wait for.
FreshUpTo(n) == {k \in fresh : k <= n}

\* LoginViewController.viewDidLoad: didLogin.
Launch(below, name, user) ==
    /\ fallen' = FALSE
    /\ IF user = None
       THEN /\ stack' = Append(below, Login)
            /\ username' = name /\ UNCHANGED letIn
            /\ fresh' = FreshUpTo(Len(below))
       ELSE /\ stack' = Append(below, Home(Login, user))
            /\ username' = user /\ letIn' = TRUE
            /\ fresh' = FreshUpTo(Len(below)) \cup {Len(below) + 1}

\* What stack[k] has under it when those above are gone: viewDidAppear again.
CutTo(s, k) == [SubSeq(s, 1, k) EXCEPT ![k] = Loading(s[k], username)]

\* self.dismiss in the list of stack[k].
Dismissed(s, k) ==
    IF s[k].alert # "none" THEN [s EXCEPT ![k].alert = "none"]
    ELSE IF k < Len(s) THEN CutTo(s, k)
    ELSE IF k > 1 THEN CutTo(s, k - 1)
    ELSE s

-----------------------------------------------------------------------------
(* What the user does *)

\* The waiting alerts lie over everything.
On(kind) == wait = Idle /\ stack[Top].kind = kind /\ stack[Top].alert = "none"

OpenSignUp ==
    /\ On("login") /\ stack' = [stack EXCEPT ![Top].kind = "signup"]
    /\ UNCHANGED <<auth, device, username, wait, fresh, history>>

BackToLogin ==
    /\ On("signup") /\ stack' = [stack EXCEPT ![Top].kind = "login"]
    /\ UNCHANGED <<auth, device, username, wait, fresh, history>>

\* signUpAction with valid input.
SignUp(e) ==
    /\ On("signup") /\ wait' = [kind |-> "create", email |-> e, at |-> Top]
    /\ UNCHANGED <<auth, device, username, stack, fresh, history>>

\* loginAction.
LogIn(e) ==
    /\ On("login") /\ wait' = [kind |-> "signin", email |-> e, at |-> Top]
    /\ UNCHANGED <<auth, device, username, stack, fresh, history>>

Refresh ==
    /\ On("home") /\ stack' = [stack EXCEPT ![Top] = Loading(@, username)]
    /\ UNCHANGED <<auth, device, username, wait, fresh, history>>

\* exitAlert.
AskExit ==
    /\ On("home") /\ stack' = [stack EXCEPT ![Top].alert = "exit"]
    /\ UNCHANGED <<auth, device, username, wait, fresh, history>>

Cancel ==
    /\ wait = Idle /\ stack[Top].alert = "exit"
    /\ stack' = [stack EXCEPT ![Top].alert = "none"]
    /\ UNCHANGED <<auth, device, username, wait, fresh, history>>

\* Mutant: the view models' username goes too.
NoName == None

\* logOutUser removes only what UserDefaults holds.
NameLeft == username

\* OK: logOutUser, exit, whose signOut may fail, and the segue.
LogOut ==
    /\ wait = Idle /\ stack[Top].alert = "exit"
    /\ \E user \in {None, current} :
          /\ current' = user
          /\ Launch([stack EXCEPT ![Top].alert = "none"], NameLeft, user)
          /\ stored' = user
    /\ UNCHANGED <<auth, unsent, wait, cut>>

-----------------------------------------------------------------------------
(* Auth and Firestore *)

\* createUser makes the account ...
CreateAccount ==
    /\ wait.kind = "create" /\ wait.email \notin accounts
    /\ accounts' = accounts \cup {wait.email}
    /\ wait' = [wait EXCEPT !.kind = "created"]
    /\ UNCHANGED <<verified, users, device, username, stack, fresh, history>>

\* Mutant: only the account is made.
CreatedAlone ==
    /\ wait.kind = "created"
    /\ current' = wait.email /\ wait' = Idle
    /\ UNCHANGED <<auth, stored, unsent, username, stack, fresh, history>>

\* ... and its callback, for the user who is now signed in, the Users document.
Created ==
    /\ wait.kind = "created"
    /\ current' = wait.email
    /\ unsent' = unsent \cup {wait.email}
    /\ wait' = [wait EXCEPT !.kind = "add"]
    /\ UNCHANGED <<auth, stored, username, stack, fresh, history>>

\* Mutant: an error does not reach the completion.
CreateFailsSilently == FALSE /\ UNCHANGED vars

\* The address is taken, or the answer does not come through.
CreateFails ==
    /\ wait.kind \in {"create", "created"} /\ wait' = Idle
    /\ cut' = IF wait.kind = "created" THEN cut \cup {wait.email} ELSE cut
    /\ UNCHANGED <<auth, device, username, stack, fresh, fallen, letIn>>

\* The document is written, or refused; addNewUserToDatabase's callback.
CommitUser(e) ==
    /\ e \in unsent /\ unsent' = unsent \ {e}
    /\ \/ users' = users \cup {e} /\ UNCHANGED cut
       \/ cut' = cut \cup {e} /\ UNCHANGED users
    /\ wait' = IF wait.kind = "add" /\ wait.email = e THEN Idle ELSE wait
    /\ UNCHANGED <<accounts, verified, current, stored, username, stack, fresh,
                   fallen, letIn>>

\* The link in the mail.
Verify(e) ==
    /\ e \in accounts \ verified /\ verified' = verified \cup {e}
    /\ UNCHANGED <<accounts, users, device, username, stack, wait, fresh, history>>

\* Mutant: the address need not be verified.
Anyone(e) == TRUE

\* isEmailVerified.
IsVerified(e) == e \in verified

\* signIn's callback: who is signed in stays so without a verified address.
SignedIn ==
    /\ wait.kind = "signin" /\ wait.email \in accounts
    /\ current' = wait.email
    /\ IF IsVerified(wait.email)
       THEN SetName(wait.email) /\ letIn' = FALSE /\ wait' = [wait EXCEPT !.kind = "enter"]
       ELSE wait' = Idle /\ UNCHANGED <<username, stored, letIn>>
    /\ UNCHANGED <<auth, unsent, stack, fresh, cut, fallen>>

\* A wrong password, or no answer.
SignInFails ==
    /\ wait.kind = "signin" /\ wait' = Idle
    /\ UNCHANGED <<auth, device, username, stack, fresh, history>>

\* ShowNoteViewSegue, seen only if the login screen is still there.
Enter ==
    /\ wait.kind = "enter" /\ wait' = Idle
    /\ IF wait.at = Top /\ stack[Top].kind = "login"
       THEN /\ stack' = [stack EXCEPT ![Top] = Home(@, username)]
            /\ fresh' = fresh \cup {Top} /\ fallen' = FALSE
       ELSE UNCHANGED <<stack, fresh, fallen>>
    /\ UNCHANGED <<auth, device, username, cut, letIn>>

\* listenNoteOwnerUpdate: its list loads, wherever it is; an error is passed over.
Snapshot(k) ==
    /\ k \in fresh /\ fresh' = fresh \ {k}
    /\ \/ stack' = [stack EXCEPT ![k] =
                      IF k = Top THEN Loading(@, username)
                      ELSE [Loading(@, username) EXCEPT !.alert = stack[k].alert]]
       \/ UNCHANGED stack
    /\ UNCHANGED <<auth, device, username, wait, history>>

\* getNoteList's callback, which an error does not reach.
LoadAnswer(k, e) ==
    /\ k \in 1 .. Top /\ stack[k].loads[e] > 0
    /\ LET s == [stack EXCEPT ![k].loads[e] = @ - 1]
       IN  stack' \in {s, Dismissed([s EXCEPT ![k].rows = e], k)}
    /\ fresh' = FreshUpTo(Len(stack'))
    /\ fallen' = (fallen \/ Len(stack') < Len(stack))
    /\ UNCHANGED <<auth, device, username, wait, cut, letIn>>

\* A note of e is changed elsewhere.
Change(e) ==
    /\ \E k \in 1 .. Top : stack[k].owner = e
    /\ fresh' = fresh \cup {k \in 1 .. Top : stack[k].owner = e}
    /\ UNCHANGED <<auth, device, username, stack, wait, history>>

-----------------------------------------------------------------------------
Init ==
    /\ accounts = OldAccounts /\ verified = OldAccounts /\ users = OldAccounts
    /\ current = None /\ stored = None /\ unsent = {}
    /\ username = None /\ stack = <<Login>> /\ wait = Idle /\ fresh = {}
    /\ taps = 0 /\ changes = 0 /\ crashes = 0
    /\ cut = {} /\ fallen = FALSE /\ letIn = FALSE

Taps == \/ OpenSignUp \/ BackToLogin \/ Refresh \/ AskExit \/ Cancel \/ LogOut
        \/ \E e \in Email : SignUp(e) \/ LogIn(e)

User == taps < MaxTaps /\ taps' = taps + 1 /\ Taps /\ UNCHANGED <<changes, crashes>>

Answers ==
    \/ CreateAccount \/ Created \/ CreateFails \/ SignedIn \/ SignInFails \/ Enter
    \/ \E e \in Email : CommitUser(e) \/ \E k \in 1 .. Top : LoadAnswer(k, e)
    \/ \E k \in 1 .. Top : Snapshot(k)

Server == Answers /\ UNCHANGED counters

Others == /\ \E e \in Email : \/ Verify(e) /\ UNCHANGED changes
                              \/ changes < MaxChanges /\ changes' = changes + 1 /\ Change(e)
          /\ UNCHANGED <<taps, crashes>>

\* Killed and started anew.
Crash ==
    /\ crashes < MaxCrashes /\ crashes' = crashes + 1
    /\ Launch(<<>>, stored, current)
    /\ stored' = IF current = None THEN stored ELSE current
    /\ wait' = Idle
    /\ cut' = IF wait.kind = "created" THEN cut \cup {wait.email} ELSE cut
    /\ UNCHANGED <<auth, current, unsent, taps, changes>>

Next == User \/ Server \/ Others \/ Crash

\* Auth answers or fails, Firestore sends every write, the main queue is run.
Fairness == /\ WF_vars((CreateAccount \/ Created \/ CreateFails) /\ UNCHANGED counters)
            /\ WF_vars((SignedIn \/ SignInFails \/ Enter) /\ UNCHANGED counters)
            /\ \A e \in Email : WF_vars(CommitUser(e) /\ UNCHANGED counters)

Spec == Init /\ [][Next]_vars /\ Fairness

-----------------------------------------------------------------------------
TypeOK ==
    /\ accounts \subseteq Email /\ verified \subseteq Email /\ users \subseteq Email
    /\ current \in Name /\ stored \in Name /\ username \in Name /\ unsent \subseteq Email
    /\ stack \in Seq(Screen) /\ stack # <<>>
    /\ wait \in Wait /\ fresh \subseteq 1 .. Top
    /\ taps \in Nat /\ changes \in Nat /\ crashes \in Nat
    /\ cut \subseteq Email /\ fallen \in BOOLEAN /\ letIn \in BOOLEAN

\* The list that can be touched is that of the account signed in: Auth, the view
\* models, UserDefaults, the listener and the rows name the same one, unless the
\* screens over it were taken from it by a late answer.
SessionAgrees ==
    On("home") /\ ~fallen =>
        /\ current = username /\ stored = username
        /\ stack[Top].owner = username
        /\ stack[Top].rows \in {None, username}

\* Whatever was logged out of, a list that is still there finds a username: every
\* snapshot and every return loads for username!.
HomeHasName == (\E k \in 1 .. Top : stack[k].kind = "home") => username # None

\* Accounts and Users documents belong together: none is written for an account
\* that was not made, and an account has none only while its sign-up is under way
\* or when that was refused or cut short between the two.
DocsMatchAccounts ==
    /\ users \cup unsent \subseteq accounts
    /\ accounts \ users \subseteq
         unsent \cup cut \cup {e \in Email : wait.kind = "created" /\ wait.email = e}

\* "Verifying" and "Creating", which cannot be closed, do not stay.
WaitEnds == wait # Idle ~> wait = Idle

\* Sign-up says "please verify email to login": whoever is shown a list has done
\* so, or was let in by didLogin, which does not ask.  No fall, late answer or
\* restart is another way round.
LoginVerifies == stack[Top].kind = "home" => username \in verified \/ letIn
=============================================================================
