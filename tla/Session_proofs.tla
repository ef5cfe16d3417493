---------------------------- MODULE Session_proofs ----------------------------
(***************************************************************************)
(* The session, for every set of addresses and every bound: what a list    *)
(* shows, what Auth says and what the view models use name one account.    *)
(*                                                                         *)
(* None of the properties is inductive.  The invariant adds what holds of  *)
(* the screens that are covered (they are lists without an alert), of the  *)
(* login and sign-up screens (they have asked for nothing), of the call a  *)
(* waiting alert is shown for, and of the name that is stored.             *)
(***************************************************************************)
EXTENDS Session, TLAPS, SequenceTheorems

\* A login or sign-up screen shows nothing and waits for nothing.
Plain(s) == s.kind # "home" =>
    s.owner = None /\ s.rows = None /\ s.alert = "none" /\ s.loads = NoLoads

Covered(s) == s.kind = "home" /\ s.alert = "none"

StackGood(st) == /\ \A k \in 1 .. Len(st) : Plain(st[k])
                 /\ \A k \in 1 .. Len(st) : k < Len(st) => Covered(st[k])

\* The list s is that of name, and asks for that name's notes only.
ListOf(s, name) == /\ s.owner = name /\ s.rows \in {None, name}
                   /\ \A e \in Email : s.loads[e] > 0 => e = name

\* What waits is meant for an account; who enters is who is signed in.
WaitGood ==
    /\ wait.kind = "none" => wait = Idle
    /\ wait.kind # "none" => wait.email \in Email
    /\ wait.kind = "created" => wait.email \in accounts
    /\ wait.kind = "enter" => /\ username = wait.email /\ current = wait.email
                              /\ stored = wait.email

\* The top screen: what fell is a list; a list that did not is in step.
TopGood ==
    IF fallen THEN stack[Top].kind = "home"
    ELSE stack[Top].kind = "home" =>
            /\ wait = Idle /\ current = username /\ stored = username
            /\ ListOf(stack[Top], username)

NameGood == /\ stored # None => stored = username
            /\ username \in verified \cup {None} \/ letIn

Shape ==
    /\ accounts \subseteq Email /\ verified \subseteq Email /\ users \subseteq Email
    /\ current \in Name /\ stored \in Name /\ username \in Name /\ unsent \subseteq Email
    /\ wait \in Wait /\ cut \subseteq Email /\ fallen \in BOOLEAN /\ letIn \in BOOLEAN

Stacks    == {st \in Seq(Screen) : st # <<>> /\ StackGood(st)}
FreshGood == \A k \in fresh : k \in 1 .. Top /\ stack[k].kind = "home"

ScreensInv == stack \in Stacks /\ FreshGood /\ TopGood /\ HomeHasName

\* The bounded counters matter to nothing.
CoreInv    == Shape /\ ScreensInv /\ WaitGood /\ NameGood /\ DocsMatchAccounts
SessionInv == CoreInv /\ taps \in Nat /\ changes \in Nat /\ crashes \in Nat

-----------------------------------------------------------------------------
(* Screens *)

LEMMA LoginGood == Login \in Screen /\ Plain(Login) /\ Login.kind = "login"
BY DEF Login, Screen, Kinds, Name, NoLoads, Plain

\* A list that loads is still the list it was, and asks for one more name.
LEMMA LoadingKeeps ==
    ASSUME NEW s \in Screen, NEW name \in Email
    PROVE  /\ Loading(s, name) \in Screen
           /\ Loading(s, name).kind = s.kind /\ Loading(s, name).owner = s.owner
           /\ Loading(s, name).rows = s.rows
           /\ \A e \in Email : Loading(s, name).loads[e] > 0 => s.loads[e] > 0 \/ e = name
<1>1. s.loads \in [Email -> Nat] /\ s.loads[name] \in Nat
  BY DEF Screen
<1>2. [s.loads EXCEPT ![name] = s.loads[name] + 1] \in [Email -> Nat]
  BY <1>1
<1>3. \A e \in Email : [s.loads EXCEPT ![name] = s.loads[name] + 1][e] > 0
                          => s.loads[e] > 0 \/ e = name
  BY <1>1
<1>4. (IF s.alert = "none" THEN "loading" ELSE s.alert) \in {"none", "loading", "exit"}
  BY DEF Screen
<1>5. Loading(s, name) = [s EXCEPT !.alert = IF s.alert = "none" THEN "loading" ELSE s.alert,
                                   !.loads = [s.loads EXCEPT ![name] = s.loads[name] + 1]]
  BY DEF Loading
<1>. QED
  BY <1>2, <1>3, <1>4, <1>5 DEF Screen

\* viewDidLoad and viewDidAppear make a list of name's notes.
LEMMA HomeIsList ==
    ASSUME NEW s \in Screen, Plain(s), s.kind # "home", NEW name \in Email
    PROVE  /\ Home(s, name) \in Screen /\ Home(s, name).kind = "home"
           /\ ListOf(Home(s, name), name)
<1>. DEFINE t == [s EXCEPT !.kind = "home", !.owner = name]
<1>1. t \in Screen /\ t.kind = "home" /\ t.owner = name /\ t.rows = None /\ t.loads = NoLoads
  BY DEF Screen, Kinds, Name, Plain
<1>2. \A e \in Email : t.loads[e] = 0
  BY <1>1 DEF NoLoads
<1>3. Home(s, name) = Loading(t, name)
  BY DEF Home
<1>. HIDE DEF t
<1>4. /\ Loading(t, name) \in Screen
      /\ Loading(t, name).kind = t.kind /\ Loading(t, name).owner = t.owner
      /\ Loading(t, name).rows = t.rows
      /\ \A e \in Email : Loading(t, name).loads[e] > 0 => t.loads[e] > 0 \/ e = name
  BY <1>1, LoadingKeeps
<1>5. \A e \in Email : Loading(t, name).loads[e] > 0 => e = name
  BY <1>2, <1>4
<1>. QED
  BY <1>1, <1>3, <1>4, <1>5 DEF ListOf

-----------------------------------------------------------------------------
(* Stacks of screens *)

LEMMA StackFacts ==
    ASSUME NEW st \in Stacks
    PROVE  /\ Len(st) \in Nat /\ Len(st) \in 1 .. Len(st)
           /\ \A k \in 1 .. Len(st) : st[k] \in Screen /\ Plain(st[k])
           /\ \A k \in 1 .. Len(st) : k < Len(st) => Covered(st[k])
<1>1. st \in Seq(Screen) /\ st # <<>> /\ StackGood(st)
  BY DEF Stacks
<1>2. Len(st) \in Nat \ {0}
  BY <1>1, EmptySeq
<1>3. \A k \in 1 .. Len(st) : st[k] \in Screen
  BY <1>1, ElementOfSeq
<1>. QED
  BY <1>1, <1>2, <1>3 DEF StackGood

\* One screen changes.
LEMMA ReplaceGood ==
    ASSUME NEW st \in Stacks, NEW k \in 1 .. Len(st), NEW s \in Screen,
           Plain(s), k < Len(st) => Covered(s)
    PROVE  /\ [st EXCEPT ![k] = s] \in Stacks
           /\ Len([st EXCEPT ![k] = s]) = Len(st)
           /\ \A j \in 1 .. Len(st) : [st EXCEPT ![k] = s][j] = IF j = k THEN s ELSE st[j]
<1>. DEFINE t == [st EXCEPT ![k] = s]
<1>1. st \in Seq(Screen)
  BY DEF Stacks
<1>2. t \in Seq(Screen) /\ Len(t) = Len(st)
      /\ \A j \in 1 .. Len(st) : t[j] = IF j = k THEN s ELSE st[j]
  BY <1>1, ExceptSeq
<1>3. Len(st) \in Nat /\ Len(st) \in 1 .. Len(st)
  BY StackFacts
<1>. HIDE DEF t
<1>4. t # <<>>
  BY <1>2, <1>3, EmptySeq
<1>5. \A j \in 1 .. Len(t) : Plain(t[j])
  BY <1>2, StackFacts
<1>6. \A j \in 1 .. Len(t) : j < Len(t) => Covered(t[j])
  BY <1>2, StackFacts
<1>7. t \in Stacks
  BY <1>2, <1>4, <1>5, <1>6 DEF Stacks, StackGood
<1>. QED
  BY <1>2, <1>7 DEF t

\* A screen is put over screens that can be covered.
LEMMA AppendGood ==
    ASSUME NEW below \in Seq(Screen), \A k \in 1 .. Len(below) : Covered(below[k]),
           NEW s \in Screen, Plain(s)
    PROVE  /\ Append(below, s) \in Stacks
           /\ Len(Append(below, s)) = Len(below) + 1
           /\ Append(below, s)[Len(below) + 1] = s
           /\ \A k \in 1 .. Len(below) : Append(below, s)[k] = below[k]
<1>. DEFINE t == Append(below, s)
<1>1. Len(below) \in Nat
  BY LenProperties
<1>2. /\ t \in Seq(Screen) /\ Len(t) = Len(below) + 1
      /\ \A k \in 1 .. Len(t) : t[k] = IF k <= Len(below) THEN below[k] ELSE s
  BY <1>1, AppendProperties
<1>. HIDE DEF t
<1>3. t # <<>>
  BY <1>1, <1>2, EmptySeq
<1>4. /\ t[Len(below) + 1] = s
      /\ \A k \in 1 .. Len(below) : t[k] = below[k]
  BY <1>1, <1>2
<1>5. \A k \in 1 .. Len(t) : k # Len(below) + 1 => k \in 1 .. Len(below)
  BY <1>1, <1>2
<1>6. \A k \in 1 .. Len(t) : Plain(t[k])
  BY <1>4, <1>5 DEF Plain, Covered
<1>7. \A k \in 1 .. Len(t) : k < Len(t) => Covered(t[k])
  BY <1>1, <1>2, <1>4
<1>8. t \in Stacks
  BY <1>2, <1>3, <1>6, <1>7 DEF Stacks, StackGood
<1>. QED
  BY <1>2, <1>4, <1>8 DEF t

\* The screens over a list are taken away.
LEMMA CutGood ==
    ASSUME NEW st \in Stacks, NEW k \in 1 .. Len(st), k < Len(st), username \in Email
    PROVE  /\ CutTo(st, k) \in Stacks
           /\ Len(CutTo(st, k)) = k
           /\ \A j \in 1 .. k : CutTo(st, k)[j].kind = "home"
<1>. DEFINE u == SubSeq(st, 1, k)
            s == Loading(st[k], username)
<1>1. k \in Int /\ k >= 1 /\ Len(st) \in Nat
  BY StackFacts
<1>2. \A j \in 1 .. k : j \in 1 .. Len(st) /\ j < Len(st)
  BY <1>1
<1>3. \A j \in 1 .. k : st[j] \in Screen /\ Covered(st[j])
  BY <1>2, StackFacts
<1>4. u \in Seq(Screen) /\ Len(u) = k /\ \A j \in 1 .. k : u[j] = st[j]
  BY <1>1, <1>3, SubSeqProperties
<1>. HIDE DEF u
<1>5. u # <<>>
  BY <1>1, <1>4, EmptySeq
<1>6. \A j \in 1 .. k : Plain(u[j]) /\ Covered(u[j])
  BY <1>3, <1>4 DEF Covered, Plain
<1>7. u \in Stacks
  BY <1>4, <1>5, <1>6 DEF Stacks, StackGood
<1>8. k \in 1 .. k
  BY <1>1
<1>9. s \in Screen /\ s.kind = "home"
  BY <1>3, <1>8, LoadingKeeps DEF Covered
<1>. HIDE DEF s
<1>10. Plain(s) /\ ~(k < Len(u))
  BY <1>1, <1>4, <1>9 DEF Plain
<1>. k \in 1 .. Len(u) /\ s \in Screen
  BY <1>4, <1>8, <1>9
<1>11. /\ [u EXCEPT ![k] = s] \in Stacks /\ Len([u EXCEPT ![k] = s]) = Len(u)
       /\ \A j \in 1 .. Len(u) : [u EXCEPT ![k] = s][j] = IF j = k THEN s ELSE u[j]
  BY <1>7, <1>10, ReplaceGood
<1>12. CutTo(st, k) = [u EXCEPT ![k] = s]
  BY DEF CutTo, u, s
<1>13. \A j \in 1 .. k : [u EXCEPT ![k] = s][j].kind = "home"
  BY <1>4, <1>6, <1>9, <1>11 DEF Covered
<1>. QED
  BY <1>4, <1>11, <1>12, <1>13

\* What self.dismiss leaves.
LEMMA DismissedGood ==
    ASSUME NEW st \in Stacks, NEW k \in 1 .. Len(st), st[k].kind = "home", username \in Email
    PROVE  /\ Dismissed(st, k) \in Stacks
           /\ Len(Dismissed(st, k)) <= Len(st)
           /\ \A j \in 1 .. Len(Dismissed(st, k)) : Dismissed(st, k)[j].kind = st[j].kind
           /\ Len(Dismissed(st, k)) = Len(st) =>
                 \A j \in 1 .. Len(st) : /\ Dismissed(st, k)[j].owner = st[j].owner
                                         /\ Dismissed(st, k)[j].rows = st[j].rows
                                         /\ Dismissed(st, k)[j].loads = st[j].loads
           /\ Len(Dismissed(st, k)) < Len(st) =>
                 Dismissed(st, k)[Len(Dismissed(st, k))].kind = "home"
<1>1. /\ Len(st) \in Nat /\ Len(st) >= 1 /\ k \in Nat /\ k >= 1 /\ k <= Len(st)
      /\ \A j \in 1 .. Len(st) : st[j] \in Screen /\ Plain(st[j])
      /\ \A j \in 1 .. Len(st) : j < Len(st) => st[j].kind = "home" /\ st[j].alert = "none"
  BY StackFacts DEF Covered
<1>2. CASE st[k].alert # "none"
  <2>. DEFINE s == [st[k] EXCEPT !.alert = "none"]
  <2>1. /\ s \in Screen /\ s.kind = "home" /\ s.alert = "none" /\ s.owner = st[k].owner
        /\ s.rows = st[k].rows /\ s.loads = st[k].loads
    BY <1>1 DEF Screen
  <2>2. Dismissed(st, k) = [st EXCEPT ![k] = s]
    BY <1>2 DEF Dismissed
  <2>. HIDE DEF s
  <2>3. Plain(s) /\ (k < Len(st) => Covered(s))
    BY <2>1 DEF Plain, Covered
  <2>4. /\ [st EXCEPT ![k] = s] \in Stacks /\ Len([st EXCEPT ![k] = s]) = Len(st)
        /\ \A j \in 1 .. Len(st) : [st EXCEPT ![k] = s][j] = IF j = k THEN s ELSE st[j]
    BY <2>1, <2>3, ReplaceGood
  <2>5. \A j \in 1 .. Len(st) : /\ Dismissed(st, k)[j].kind = st[j].kind
                                /\ Dismissed(st, k)[j].owner = st[j].owner
                                /\ Dismissed(st, k)[j].rows = st[j].rows
                                /\ Dismissed(st, k)[j].loads = st[j].loads
    BY <2>1, <2>2, <2>4
  <2>. QED
    BY <1>1, <2>2, <2>4, <2>5
<1>3. ASSUME NEW m \in 1 .. Len(st), m < Len(st), Dismissed(st, k) = CutTo(st, m)
      PROVE  /\ Dismissed(st, k) \in Stacks /\ Len(Dismissed(st, k)) = m
             /\ \A j \in 1 .. m : Dismissed(st, k)[j].kind = "home" /\ st[j].kind = "home"
  <2>1. \A j \in 1 .. m : j \in 1 .. Len(st) /\ j < Len(st)
    BY <1>1, <1>3
  <2>2. CutTo(st, m) \in Stacks /\ Len(CutTo(st, m)) = m
        /\ \A j \in 1 .. m : CutTo(st, m)[j].kind = "home"
    BY <1>3, CutGood
  <2>. QED
    BY <1>1, <1>3, <2>1, <2>2
<1>4. ASSUME NEW m \in 1 .. Len(st), m < Len(st), Dismissed(st, k) = CutTo(st, m)
      PROVE  /\ Dismissed(st, k) \in Stacks /\ Len(Dismissed(st, k)) < Len(st)
             /\ \A j \in 1 .. Len(Dismissed(st, k)) : Dismissed(st, k)[j].kind = st[j].kind
             /\ Dismissed(st, k)[Len(Dismissed(st, k))].kind = "home"
  <2>1. /\ Dismissed(st, k) \in Stacks /\ Len(Dismissed(st, k)) = m
        /\ \A j \in 1 .. m : Dismissed(st, k)[j].kind = "home" /\ st[j].kind = "home"
    BY <1>3, <1>4
  <2>2. m \in 1 .. m
    BY <1>1
  <2>. QED
    BY <1>4, <2>1, <2>2
<1>5. CASE st[k].alert = "none" /\ k < Len(st)
  <2>1. Dismissed(st, k) = CutTo(st, k)
    BY <1>5 DEF Dismissed
  <2>. QED
    BY <1>1, <1>4, <1>5, <2>1
<1>6. CASE st[k].alert = "none" /\ ~(k < Len(st)) /\ k > 1
  <2>1. Dismissed(st, k) = CutTo(st, k - 1) /\ k - 1 \in 1 .. Len(st) /\ k - 1 < Len(st)
    BY <1>1, <1>6 DEF Dismissed
  <2>. QED
    BY <1>1, <1>4, <2>1
<1>7. CASE st[k].alert = "none" /\ ~(k < Len(st)) /\ ~(k > 1)
  <2>1. Dismissed(st, k) = st
    BY <1>7 DEF Dismissed
  <2>. QED
    BY <1>1, <2>1
<1>. QED
  BY <1>2, <1>5, <1>6, <1>7

-----------------------------------------------------------------------------
(* What the handlers do to the screens *)

LEMMA TopFacts ==
    ASSUME CoreInv
    PROVE  /\ Top \in Nat /\ Top \in 1 .. Top
           /\ \A k \in 1 .. Top : stack[k] \in Screen /\ Plain(stack[k])
           /\ \A k \in 1 .. Top : k < Top => Covered(stack[k])
           /\ \A k \in 1 .. Top : stack[k].kind = "home" => username \in Email
BY StackFacts DEF CoreInv, ScreensInv, HomeHasName, Top, Shape, Name

\* One screen changes, and stays a list, or a screen without one.
LEMMA ReplaceStep ==
    ASSUME CoreInv, NEW k \in 1 .. Top, NEW s \in Screen, Plain(s), k < Top => Covered(s),
           s.kind = "home" <=> stack[k].kind = "home",
           k = Top /\ s.kind = "home" /\ ListOf(stack[k], username) => ListOf(s, username),
           stack' = [stack EXCEPT ![k] = s], fresh' \subseteq fresh,
           UNCHANGED <<username, current, stored, wait, fallen>>
    PROVE  ScreensInv'
<1>1. stack \in Stacks /\ Top = Len(stack)
  BY DEF CoreInv, ScreensInv, Top
<1>b. /\ stack \in Stacks /\ k \in 1 .. Len(stack)
      /\ s \in Screen /\ Plain(s) /\ (k < Len(stack) => Covered(s))
  BY <1>1
<1>a. /\ [stack EXCEPT ![k] = s] \in Stacks /\ Len([stack EXCEPT ![k] = s]) = Len(stack)
      /\ \A j \in 1 .. Len(stack) :
            [stack EXCEPT ![k] = s][j] = IF j = k THEN s ELSE stack[j]
  BY ONLY <1>b, ReplaceGood
<1>2. /\ stack' \in Stacks /\ Len(stack') = Top
      /\ \A j \in 1 .. Top : stack'[j] = IF j = k THEN s ELSE stack[j]
  BY <1>1, <1>a
<1>3. \A j \in 1 .. Top : stack'[j].kind = "home" <=> stack[j].kind = "home"
  BY <1>2
<1>4. FreshGood'
  BY <1>2, <1>3 DEF CoreInv, ScreensInv, FreshGood, Top
<1>5. HomeHasName'
  BY <1>2, <1>3 DEF CoreInv, ScreensInv, HomeHasName, Top
<1>6. Top \in 1 .. Top
  BY TopFacts
<1>7. TopGood'
  <2>1. stack'[Top] = IF Top = k THEN s ELSE stack[Top]
    BY <1>2, <1>6
  <2>2. Top' = Top
    BY <1>2 DEF Top
  <2>3. CASE fallen
    BY <1>3, <1>6, <2>2, <2>3 DEF CoreInv, ScreensInv, TopGood
  <2>4. CASE ~fallen
    <3>1. ListOf(stack[Top], username) /\ stack[Top].kind = "home"
            => ListOf(stack'[Top], username)
      BY <2>1
    <3>2. stack[Top].kind = "home" =>
             /\ wait = Idle /\ current = username /\ stored = username
             /\ ListOf(stack[Top], username)
      BY <2>4 DEF CoreInv, ScreensInv, TopGood
    <3>3. stack'[Top].kind = "home" =>
             /\ wait' = Idle /\ current' = username' /\ stored' = username'
             /\ ListOf(stack'[Top], username')
      BY <1>3, <1>6, <3>1, <3>2
    <3>. QED
      BY <2>2, <2>4, <3>3 DEF TopGood, ListOf
  <2>. QED
    BY <2>3, <2>4
<1>. QED
  BY <1>2, <1>4, <1>5, <1>7 DEF ScreensInv

\* No screen changes; the list on top, if it has not fallen, stays in step.
LEMMA KeepStep ==
    ASSUME CoreInv, UNCHANGED <<stack, fresh, fallen>>,
           username' = username \/ username' # None,
           ~fallen /\ stack[Top].kind = "home" =>
               UNCHANGED <<username, current, stored>> /\ wait' = Idle
    PROVE  ScreensInv'
<1>1. StackGood(stack)' = StackGood(stack) /\ Stacks' = Stacks
  BY DEF StackGood, Plain, Covered, Stacks
<1>2. stack' \in Stacks' /\ FreshGood' /\ HomeHasName'
  BY <1>1 DEF CoreInv, ScreensInv, FreshGood, HomeHasName, Top
<1>3. TopGood'
  BY DEF CoreInv, ScreensInv, TopGood, Top, ListOf
<1>. QED
  BY <1>2, <1>3 DEF ScreensInv

\* The screens after a log-out, or of a new start.
LEMMA LaunchStep ==
    ASSUME CoreInv, NEW below \in Seq(Screen), NEW name, NEW user \in Name,
           \A k \in 1 .. Len(below) : Covered(below[k]),
           \A k \in fresh : k <= Len(below) => k \in 1 .. Len(below),
           Len(below) > 0 => name # None,
           Launch(below, name, user),
           user # None => stored' = user /\ current' = user /\ wait' = Idle
    PROVE  ScreensInv' /\ letIn' \in BOOLEAN /\ fallen' = FALSE
<1>. Len(below) \in Nat
  BY LenProperties
<1>1. \A k \in FreshUpTo(Len(below)) : k \in 1 .. Len(below) /\ below[k].kind = "home"
  BY DEF FreshUpTo, Covered
<1>2. CASE user = None
  <2>1. stack' = Append(below, Login) /\ username' = name /\ fresh' = FreshUpTo(Len(below))
    BY <1>2 DEF Launch
  <2>2. /\ stack' \in Stacks /\ Len(stack') = Len(below) + 1
        /\ stack'[Len(below) + 1] = Login
        /\ \A k \in 1 .. Len(below) : stack'[k] = below[k]
    BY <2>1, LoginGood, AppendGood
  <2>3. FreshGood'
    BY <1>1, <2>1, <2>2 DEF FreshGood, Top
  <2>4. ~fallen' /\ stack'[Len(stack')].kind # "home"
    BY <2>2, LoginGood DEF Launch
  <2>5. TopGood'
    BY <2>4 DEF TopGood, Top
  <2>6. HomeHasName'
    <3>1. ASSUME NEW k \in 1 .. Len(stack'), stack'[k].kind = "home" PROVE Len(below) > 0
      BY <2>2, <2>4, <3>1
    <3>. QED
      BY <2>1, <3>1 DEF HomeHasName, Top
  <2>. QED
    BY <1>2, <2>2, <2>3, <2>5, <2>6 DEF ScreensInv, Launch, CoreInv, Shape
<1>3. CASE user # None
  <2>. DEFINE s == Home(Login, user)
  <2>1. /\ stack' = Append(below, s) /\ username' = user
        /\ fresh' = FreshUpTo(Len(below)) \cup {Len(below) + 1}
    BY <1>3 DEF Launch
  <2>2. user \in Email /\ s \in Screen /\ s.kind = "home" /\ ListOf(s, user)
    BY <1>3, LoginGood, HomeIsList DEF Name
  <2>. HIDE DEF s
  <2>3. Plain(s)
    BY <2>2 DEF Plain
  <2>4. /\ stack' \in Stacks /\ Len(stack') = Len(below) + 1
        /\ stack'[Len(below) + 1] = s
        /\ \A k \in 1 .. Len(below) : stack'[k] = below[k]
    BY <2>1, <2>2, <2>3, AppendGood
  <2>5. FreshGood'
    BY <1>1, <2>1, <2>2, <2>4 DEF FreshGood, Top
  <2>6. ~fallen' /\ stack'[Len(stack')] = s
    BY <2>4 DEF Launch
  <2>7. TopGood'
    BY <1>3, <2>1, <2>2, <2>6 DEF TopGood, Top, ListOf
  <2>8. HomeHasName'
    BY <1>3, <2>1 DEF HomeHasName
  <2>. QED
    BY <1>3, <2>4, <2>5, <2>7, <2>8 DEF ScreensInv, Launch
<1>. QED
  BY <1>2, <1>3

-----------------------------------------------------------------------------
(* What the user does *)

LEMMA OpenSignUpGood ==
    ASSUME CoreInv, OpenSignUp \/ BackToLogin
    PROVE  CoreInv'
<1>. DEFINE to == IF OpenSignUp THEN "signup" ELSE "login"
            s  == [stack[Top] EXCEPT !.kind = to]
<1>1. Top \in 1 .. Top /\ stack[Top] \in Screen /\ Plain(stack[Top]) /\ stack[Top].kind # "home"
  BY TopFacts DEF OpenSignUp, BackToLogin, On
<1>2. stack' = [stack EXCEPT ![Top] = s]
  BY DEF OpenSignUp, BackToLogin, On
<1>3. s \in Screen /\ Plain(s) /\ s.kind # "home"
  BY <1>1 DEF Screen, Kinds, Plain
<1>. HIDE DEF s
<1>4. Top \in Nat
  BY TopFacts
<1>5. /\ fresh' \subseteq fresh /\ UNCHANGED <<username, current, stored, wait, fallen>>
      /\ ~(Top < Top) /\ ~(s.kind = "home") /\ ~(stack[Top].kind = "home")
  BY <1>1, <1>3, <1>4 DEF OpenSignUp, BackToLogin, device, history
<1>6. ScreensInv'
  BY <1>1, <1>2, <1>3, <1>5, ReplaceStep
<1>. QED
  BY <1>6 DEF CoreInv, Shape, WaitGood, NameGood, DocsMatchAccounts,
              OpenSignUp, BackToLogin, auth, device, history

\* signUpAction and loginAction start a call; no list is on top.
LEMMA CallGood ==
    ASSUME CoreInv, NEW e \in Email, SignUp(e) \/ LogIn(e)
    PROVE  CoreInv'
<1>1. stack[Top].kind # "home"
  BY DEF SignUp, LogIn, On
<1>2. ScreensInv'
  BY <1>1, KeepStep DEF SignUp, LogIn, device, history
<1>3. Top \in Nat
  BY TopFacts
<1>4. wait' \in Wait /\ wait'.email = e /\ wait'.kind \in {"create", "signin"}
  BY <1>3 DEF SignUp, LogIn, Wait, Name
<1>. QED
  BY <1>2, <1>4 DEF CoreInv, Shape, WaitGood, NameGood, DocsMatchAccounts, On, Idle,
                    SignUp, LogIn, auth, device, history

LEMMA RefreshGood ==
    ASSUME CoreInv, Refresh
    PROVE  CoreInv'
<1>. DEFINE s == Loading(stack[Top], username)
<1>1. Top \in Nat /\ Top \in 1 .. Top /\ stack[Top] \in Screen /\ stack[Top].kind = "home"
      /\ username \in Email
  BY TopFacts DEF Refresh, On
<1>2. stack' = [stack EXCEPT ![Top] = s]
  BY DEF Refresh
<1>3. /\ s \in Screen /\ s.kind = "home" /\ s.owner = stack[Top].owner
      /\ s.rows = stack[Top].rows
      /\ \A e \in Email : s.loads[e] > 0 => stack[Top].loads[e] > 0 \/ e = username
  BY <1>1, LoadingKeeps
<1>. HIDE DEF s
<1>4. Plain(s) /\ (ListOf(stack[Top], username) => ListOf(s, username))
  BY <1>3 DEF Plain, ListOf
<1>5. /\ fresh' \subseteq fresh /\ UNCHANGED <<username, current, stored, wait, fallen>>
      /\ ~(Top < Top)
  BY <1>1 DEF Refresh, device, history
<1>6. ScreensInv'
  BY <1>1, <1>2, <1>3, <1>4, <1>5, ReplaceStep
<1>. QED
  BY <1>6 DEF CoreInv, Shape, WaitGood, NameGood, DocsMatchAccounts,
              Refresh, auth, device, history

LEMMA AskExitGood ==
    ASSUME CoreInv, AskExit \/ Cancel
    PROVE  CoreInv'
<1>. DEFINE to == IF AskExit THEN "exit" ELSE "none"
            s  == [stack[Top] EXCEPT !.alert = to]
<1>1. Top \in Nat /\ Top \in 1 .. Top /\ stack[Top] \in Screen /\ Plain(stack[Top])
  BY TopFacts
<1>2. stack[Top].kind = "home"
  BY <1>1 DEF AskExit, Cancel, On, Plain
<1>3. stack' = [stack EXCEPT ![Top] = s]
  BY DEF AskExit, Cancel, On
<1>4. /\ s \in Screen /\ s.kind = "home" /\ s.owner = stack[Top].owner
      /\ s.rows = stack[Top].rows /\ s.loads = stack[Top].loads
  BY <1>1, <1>2 DEF Screen
<1>. HIDE DEF s
<1>5. Plain(s) /\ (ListOf(stack[Top], username) => ListOf(s, username))
  BY <1>4 DEF Plain, ListOf
<1>6. /\ fresh' \subseteq fresh /\ UNCHANGED <<username, current, stored, wait, fallen>>
      /\ ~(Top < Top)
  BY <1>1 DEF AskExit, Cancel, device, history
<1>7. ScreensInv'
  BY <1>1, <1>2, <1>3, <1>4, <1>5, <1>6, ReplaceStep
<1>. QED
  BY <1>7 DEF CoreInv, Shape, WaitGood, NameGood, DocsMatchAccounts,
              AskExit, Cancel, auth, device, history

LEMMA LogOutGood ==
    ASSUME CoreInv, LogOut
    PROVE  CoreInv'
<1>1. PICK user \in {None, current} :
          /\ current' = user /\ stored' = user
          /\ Launch([stack EXCEPT ![Top].alert = "none"], username, user)
  BY DEF LogOut, NameLeft
<1>2. wait = Idle /\ stack[Top].alert = "exit" /\ UNCHANGED <<auth, unsent, wait, cut>>
  BY DEF LogOut
<1>. DEFINE s == [stack[Top] EXCEPT !.alert = "none"]
            below == [stack EXCEPT ![Top] = s]
<1>3. /\ stack \in Stacks /\ Top = Len(stack) /\ Top \in Nat /\ Top \in 1 .. Top
      /\ stack[Top] \in Screen /\ Plain(stack[Top])
  BY TopFacts DEF CoreInv, ScreensInv, Top
<1>4. stack[Top].kind = "home" /\ username # None
  BY <1>2, <1>3, TopFacts, EmailAssumption DEF Plain
<1>5. s \in Screen /\ Plain(s) /\ Covered(s)
  BY <1>3, <1>4 DEF Screen, Plain, Covered
<1>6. [stack EXCEPT ![Top].alert = "none"] = below
  OBVIOUS
<1>. HIDE DEF s
<1>. Top \in 1 .. Len(stack) /\ (Top < Len(stack) => Covered(s))
  BY <1>3, <1>5
<1>a. stack \in Stacks
  BY <1>3
<1>b. s \in Screen /\ Plain(s)
  BY <1>5
<1>c. /\ [stack EXCEPT ![Top] = s] \in Stacks /\ Len([stack EXCEPT ![Top] = s]) = Len(stack)
      /\ \A j \in 1 .. Len(stack) :
            [stack EXCEPT ![Top] = s][j] = IF j = Top THEN s ELSE stack[j]
  BY <1>a, <1>b, ReplaceGood
<1>7. /\ below \in Stacks /\ Len(below) = Len(stack)
      /\ \A j \in 1 .. Len(stack) : below[j] = IF j = Top THEN s ELSE stack[j]
  BY <1>c DEF below
<1>. HIDE DEF below
<1>8. \A j \in 1 .. Len(below) : Covered(below[j])
  <2>1. \A j \in 1 .. Len(below) : j # Top => j < Top /\ j \in 1 .. Top
    BY <1>3, <1>7
  <2>. QED
    BY <1>3, <1>5, <1>7, <2>1, TopFacts
<1>9. \A k \in fresh : k <= Len(below) => k \in 1 .. Len(below)
  BY <1>3, <1>7 DEF CoreInv, ScreensInv, FreshGood
<1>10. user \in Name /\ below \in Seq(Screen) /\ Launch(below, username, user)
  BY <1>1, <1>6, <1>7 DEF CoreInv, Shape, Name, Stacks
<1>11. ScreensInv' /\ letIn' \in BOOLEAN /\ fallen' = FALSE
  BY <1>1, <1>2, <1>4, <1>8, <1>9, <1>10, LaunchStep
<1>12. IF user = None THEN username' = username /\ letIn' = letIn
       ELSE username' = user /\ letIn' = TRUE
  BY <1>10 DEF Launch
<1>13. NameGood'
  BY <1>1, <1>2, <1>12 DEF CoreInv, NameGood, auth
<1>14. Shape' /\ DocsMatchAccounts'
  BY <1>1, <1>2, <1>10, <1>11, <1>12 DEF CoreInv, Shape, DocsMatchAccounts, auth
<1>15. WaitGood'
  BY <1>2 DEF WaitGood, Idle
<1>. QED
  BY <1>11, <1>13, <1>14, <1>15 DEF CoreInv

-----------------------------------------------------------------------------
(* Answers *)

\* createUser's answers touch no screen; no list on top is in step meanwhile.
LEMMA SignUpAnswered ==
    ASSUME CoreInv, CreateAccount \/ Created \/ CreateFails
    PROVE  CoreInv'
<1>1. wait.kind \in {"create", "created"} /\ wait.email \in Email /\ wait \in Wait
  BY DEF CoreInv, WaitGood, Shape, CreateAccount, Created, CreateFails
<1>2. ~fallen => stack[Top].kind # "home"
  BY <1>1 DEF CoreInv, ScreensInv, TopGood, Idle
<1>3. ScreensInv'
  BY <1>2, KeepStep DEF CreateAccount, Created, CreateFails, device, history
<1>4. CASE CreateAccount
  <2>1. /\ accounts' = accounts \cup {wait.email}
        /\ wait' = [wait EXCEPT !.kind = "created"]
        /\ UNCHANGED <<verified, users, device, username, stack, fresh, history>>
    BY <1>4 DEF CreateAccount
  <2>2. wait'.kind = "created" /\ wait'.email = wait.email /\ wait' \in Wait
    BY <1>1, <2>1 DEF Wait
  <2>3. Shape' /\ WaitGood' /\ NameGood'
    BY <1>1, <2>1, <2>2 DEF CoreInv, Shape, WaitGood, NameGood, device, history
  <2>4. DocsMatchAccounts'
    BY <1>1, <2>1, <2>2 DEF CoreInv, DocsMatchAccounts, device, history
  <2>. QED
    BY <1>3, <2>3, <2>4 DEF CoreInv
<1>5. CASE Created
  <2>1. /\ wait.kind = "created" /\ current' = wait.email
        /\ unsent' = unsent \cup {wait.email} /\ wait' = [wait EXCEPT !.kind = "add"]
        /\ UNCHANGED <<auth, stored, username, stack, fresh, history>>
    BY <1>5 DEF Created
  <2>2. wait'.kind = "add" /\ wait'.email = wait.email /\ wait' \in Wait
    BY <1>1, <2>1 DEF Wait
  <2>3. Shape' /\ WaitGood' /\ NameGood'
    BY <1>1, <2>1, <2>2 DEF CoreInv, Shape, WaitGood, NameGood, Name, auth, history
  <2>4. wait.email \in accounts
    BY <2>1 DEF CoreInv, WaitGood
  <2>5. DocsMatchAccounts'
    BY <1>1, <2>1, <2>2, <2>4 DEF CoreInv, DocsMatchAccounts, auth, history
  <2>. QED
    BY <1>3, <2>3, <2>5 DEF CoreInv
<1>6. CASE CreateFails
  <2>1. /\ wait' = Idle
        /\ cut' = IF wait.kind = "created" THEN cut \cup {wait.email} ELSE cut
        /\ UNCHANGED <<auth, device, username, stack, fresh, fallen, letIn>>
    BY <1>6 DEF CreateFails
  <2>2. Shape' /\ WaitGood' /\ NameGood'
    BY <1>1, <2>1 DEF CoreInv, Shape, WaitGood, NameGood, Idle, Wait, Name, auth, device
  <2>3. DocsMatchAccounts'
    BY <1>1, <2>1 DEF CoreInv, DocsMatchAccounts, auth, device
  <2>. QED
    BY <1>3, <2>2, <2>3 DEF CoreInv
<1>. QED
  BY <1>4, <1>5, <1>6

LEMMA CommitUserGood ==
    ASSUME CoreInv, NEW e \in Email, CommitUser(e)
    PROVE  CoreInv'
<1>1. /\ e \in unsent /\ unsent' = unsent \ {e}
      /\ \/ users' = users \cup {e} /\ cut' = cut
         \/ users' = users /\ cut' = cut \cup {e}
      /\ wait' = IF wait.kind = "add" /\ wait.email = e THEN Idle ELSE wait
      /\ UNCHANGED <<accounts, verified, current, stored, username, stack, fresh,
                     fallen, letIn>>
  BY DEF CommitUser
<1>2. wait = Idle => wait' = Idle
  BY <1>1 DEF Idle
<1>3. ScreensInv'
  BY <1>1, <1>2, KeepStep DEF CoreInv, ScreensInv, TopGood
<1>4. Shape' /\ WaitGood' /\ NameGood'
  BY <1>1 DEF CoreInv, Shape, WaitGood, NameGood, Idle, Wait, Name
<1>5. wait.kind = "created" => wait' = wait
  BY <1>1
<1>6. DocsMatchAccounts'
  BY <1>1, <1>5 DEF CoreInv, DocsMatchAccounts
<1>. QED
  BY <1>3, <1>4, <1>6 DEF CoreInv

LEMMA VerifyGood ==
    ASSUME CoreInv, NEW e \in Email, Verify(e)
    PROVE  CoreInv'
<1>1. ScreensInv'
  BY KeepStep DEF CoreInv, ScreensInv, TopGood, Verify, device, history
<1>. QED
  BY <1>1 DEF CoreInv, Shape, WaitGood, NameGood, DocsMatchAccounts, Verify, device, history

\* signIn's answers: the name changes only where no list in step is on top.
LEMMA LogInAnswered ==
    ASSUME CoreInv, SignedIn \/ SignInFails
    PROVE  CoreInv'
<1>1. wait.kind = "signin" /\ wait.email \in Email /\ wait \in Wait
  BY DEF CoreInv, WaitGood, Shape, SignedIn, SignInFails
<1>2. ~fallen => stack[Top].kind # "home"
  BY <1>1 DEF CoreInv, ScreensInv, TopGood, Idle
<1>3. wait.email # None
  BY <1>1, EmailAssumption
<1>4. CASE SignInFails
  <2>1. ScreensInv'
    BY <1>2, <1>4, KeepStep DEF SignInFails, device, history
  <2>. QED
    BY <1>1, <1>4, <2>1 DEF CoreInv, Shape, WaitGood, NameGood, DocsMatchAccounts, SignInFails,
                            Idle, Wait, Name, auth, device, history
<1>5. CASE SignedIn /\ wait.email \in verified
  <2>1. /\ current' = wait.email /\ username' = wait.email /\ stored' = wait.email
        /\ letIn' = FALSE /\ wait' = [wait EXCEPT !.kind = "enter"]
        /\ UNCHANGED <<auth, unsent, stack, fresh, cut, fallen>>
    BY <1>5 DEF SignedIn, SetName, IsVerified
  <2>2. wait'.kind = "enter" /\ wait'.email = wait.email /\ wait' \in Wait
    BY <1>1, <2>1 DEF Wait
  <2>3. ScreensInv'
    BY <1>2, <1>3, <2>1, KeepStep
  <2>4. Shape' /\ WaitGood' /\ NameGood'
    BY <1>1, <1>5, <2>1, <2>2 DEF CoreInv, Shape, WaitGood, NameGood, Name, auth
  <2>5. DocsMatchAccounts'
    BY <1>1, <2>1, <2>2 DEF CoreInv, DocsMatchAccounts, auth
  <2>. QED
    BY <2>3, <2>4, <2>5 DEF CoreInv
<1>6. CASE SignedIn /\ wait.email \notin verified
  <2>1. /\ current' = wait.email /\ wait' = Idle
        /\ UNCHANGED <<auth, username, stored, letIn, unsent, stack, fresh, cut, fallen>>
    BY <1>6 DEF SignedIn, IsVerified
  <2>2. ScreensInv'
    BY <1>2, <2>1, KeepStep
  <2>3. Shape' /\ WaitGood' /\ NameGood'
    BY <1>1, <2>1 DEF CoreInv, Shape, WaitGood, NameGood, Name, Idle, Wait, auth
  <2>4. DocsMatchAccounts'
    BY <1>1, <2>1 DEF CoreInv, DocsMatchAccounts, Idle, auth
  <2>. QED
    BY <2>2, <2>3, <2>4 DEF CoreInv
<1>. QED
  BY <1>4, <1>5, <1>6

LEMMA EnterGood ==
    ASSUME CoreInv, Enter
    PROVE  CoreInv'
<1>1. /\ wait.kind = "enter" /\ wait' = Idle
      /\ UNCHANGED <<accounts, verified, users, current, stored, unsent, username, cut, letIn>>
  BY DEF Enter, auth, device
<1>2. /\ wait.email \in Email /\ username = wait.email /\ current = wait.email
      /\ stored = wait.email /\ wait # Idle
  BY <1>1 DEF CoreInv, WaitGood, Idle
<1>a. fallen' \in BOOLEAN
  BY DEF Enter, CoreInv, Shape
<1>b. Idle \in Wait
  BY DEF Idle, Wait, Name
<1>c. Shape'
  BY <1>1, <1>a, <1>b DEF CoreInv, Shape
<1>3. Shape' /\ WaitGood' /\ NameGood'
  BY <1>1, <1>c DEF CoreInv, WaitGood, NameGood, Idle
<1>4. DocsMatchAccounts'
  BY <1>1 DEF CoreInv, DocsMatchAccounts, Idle
<1>5. CASE wait.at = Top /\ stack[Top].kind = "login"
  <2>. DEFINE s == Home(stack[Top], username)
  <2>1. stack' = [stack EXCEPT ![Top] = s] /\ fresh' = fresh \cup {Top} /\ fallen' = FALSE
    BY <1>5 DEF Enter
  <2>2. Top \in Nat /\ Top \in 1 .. Top /\ stack[Top] \in Screen /\ Plain(stack[Top])
    BY TopFacts
  <2>3. s \in Screen /\ s.kind = "home" /\ ListOf(s, username)
    BY <1>2, <1>5, <2>2, HomeIsList
  <2>. HIDE DEF s
  <2>a. stack \in Stacks
    BY DEF CoreInv, ScreensInv
  <2>b. s \in Screen /\ Plain(s) /\ ~(Len(stack) < Len(stack))
    BY <2>2, <2>3 DEF Plain, Top
  <2>c. Len(stack) \in 1 .. Len(stack)
    BY <2>2 DEF Top
  <2>4. /\ [stack EXCEPT ![Len(stack)] = s] \in Stacks
        /\ Len([stack EXCEPT ![Len(stack)] = s]) = Len(stack)
        /\ \A j \in 1 .. Len(stack) :
              [stack EXCEPT ![Len(stack)] = s][j] = IF j = Len(stack) THEN s ELSE stack[j]
    BY <2>a, <2>b, <2>c, ReplaceGood
  <2>5. /\ stack' \in Stacks /\ Len(stack') = Len(stack)
        /\ \A j \in 1 .. Len(stack) : stack'[j] = IF j = Len(stack) THEN s ELSE stack[j]
    BY <2>1, <2>4 DEF Top
  <2>6. FreshGood'
    BY <2>1, <2>3, <2>5, <2>c DEF CoreInv, ScreensInv, FreshGood, Top
  <2>7. TopGood'
    BY <1>1, <1>2, <2>1, <2>3, <2>5, <2>c DEF TopGood, Top, ListOf
  <2>8. HomeHasName'
    BY <1>1, <1>2, EmailAssumption DEF HomeHasName
  <2>. QED
    BY <1>3, <1>4, <2>5, <2>6, <2>7, <2>8 DEF CoreInv, ScreensInv
<1>6. CASE ~(wait.at = Top /\ stack[Top].kind = "login")
  <2>1. UNCHANGED <<stack, fresh, fallen>>
    BY <1>6 DEF Enter
  <2>2. ScreensInv'
    BY <1>1, <2>1, KeepStep
  <2>. QED
    BY <1>3, <1>4, <2>2 DEF CoreInv
<1>. QED
  BY <1>5, <1>6

\* The parts of the invariant that speak of no screen.
LEMMA RestKept ==
    ASSUME CoreInv, UNCHANGED <<auth, device, username, wait, cut, letIn>>, fallen' \in BOOLEAN
    PROVE  Shape' /\ WaitGood' /\ NameGood' /\ DocsMatchAccounts'
<1>1. UNCHANGED <<accounts, verified, users, current, stored, unsent, username, wait, cut, letIn>>
  BY DEF auth, device
<1>2. Shape' /\ WaitGood' /\ NameGood'
  BY <1>1 DEF CoreInv, Shape, WaitGood, NameGood
<1>3. DocsMatchAccounts'
  BY <1>1 DEF CoreInv, DocsMatchAccounts
<1>. QED
  BY <1>2, <1>3

LEMMA SnapshotGood ==
    ASSUME CoreInv, NEW k \in 1 .. Top, Snapshot(k)
    PROVE  CoreInv'
<1>. DEFINE t == Loading(stack[k], username)
            s == IF k = Top THEN t ELSE [t EXCEPT !.alert = stack[k].alert]
<1>1. k \in fresh /\ stack[k].kind = "home"
  BY DEF Snapshot, CoreInv, ScreensInv, FreshGood
<1>2. stack[k] \in Screen /\ username \in Email /\ (k < Top => Covered(stack[k]))
      /\ Top \in Nat
  BY <1>1, TopFacts
<1>3. fresh' \subseteq fresh /\ UNCHANGED <<auth, device, username, wait, history>>
  BY DEF Snapshot
<1>4. UNCHANGED <<username, current, stored, wait, fallen, cut, letIn>>
  BY <1>3 DEF device, history
<1>5. CASE UNCHANGED stack
  <2>1. FreshGood'
    BY <1>3, <1>5 DEF CoreInv, ScreensInv, FreshGood, Top
  <2>2. ScreensInv'
    BY <1>4, <1>5, <2>1
       DEF CoreInv, ScreensInv, TopGood, HomeHasName, Top, ListOf
  <2>. QED
    BY <1>3, <1>4, <2>2, RestKept DEF CoreInv, Shape
<1>6. CASE stack' # stack
  <2>1. stack' = [stack EXCEPT ![k] = s]
    BY <1>6 DEF Snapshot
  <2>2. /\ t \in Screen /\ t.kind = "home" /\ t.owner = stack[k].owner
        /\ t.rows = stack[k].rows
        /\ \A e \in Email : t.loads[e] > 0 => stack[k].loads[e] > 0 \/ e = username
    BY <1>1, <1>2, LoadingKeeps
  <2>. HIDE DEF t
  <2>3. /\ s \in Screen /\ s.kind = "home" /\ s.owner = t.owner /\ s.rows = t.rows
        /\ s.loads = t.loads /\ (k # Top => s.alert = stack[k].alert)
    BY <1>2, <2>2 DEF Screen
  <2>. HIDE DEF s
  <2>4. /\ Plain(s) /\ (k < Top => Covered(s))
        /\ (ListOf(stack[k], username) => ListOf(s, username))
    BY <1>2, <2>2, <2>3 DEF Plain, Covered, ListOf
  <2>5. ScreensInv'
    BY <1>1, <1>3, <1>4, <2>1, <2>3, <2>4, ReplaceStep
  <2>. QED
    BY <1>3, <1>4, <2>5, RestKept DEF CoreInv, Shape
<1>. QED
  BY <1>5, <1>6

LEMMA ChangeGood ==
    ASSUME CoreInv, NEW e \in Email, Change(e)
    PROVE  CoreInv'
<1>1. /\ fresh' = fresh \cup {k \in 1 .. Top : stack[k].owner = e}
      /\ UNCHANGED <<auth, device, username, stack, wait, history>>
  BY DEF Change
<1>2. \A k \in 1 .. Top : stack[k].owner = e => stack[k].kind = "home"
  BY TopFacts, EmailAssumption DEF Plain
<1>3. FreshGood'
  BY <1>1, <1>2 DEF CoreInv, ScreensInv, FreshGood, Top
<1>4. UNCHANGED <<username, current, stored, wait, fallen, stack, cut, letIn>>
  BY <1>1 DEF device, history
<1>5. ScreensInv'
  BY <1>3, <1>4 DEF CoreInv, ScreensInv, TopGood, HomeHasName, Top, ListOf
<1>. QED
  BY <1>1, <1>4, <1>5, RestKept DEF CoreInv, Shape

LEMMA CrashGood ==
    ASSUME CoreInv, Crash
    PROVE  CoreInv'
<1>1. /\ Launch(<<>>, stored, current)
      /\ stored' = IF current = None THEN stored ELSE current
      /\ wait' = Idle
      /\ cut' = IF wait.kind = "created" THEN cut \cup {wait.email} ELSE cut
      /\ UNCHANGED <<accounts, verified, users, current, unsent>>
  BY DEF Crash, auth
<1>2. <<>> \in Seq(Screen) /\ Len(<<>>) = 0 /\ 1 .. 0 = {}
  BY EmptySeq
<1>3. \A k \in fresh : ~(k <= 0)
  BY TopFacts DEF CoreInv, ScreensInv, FreshGood
<1>4. current \in Name
  BY DEF CoreInv, Shape
<1>. DEFINE below == <<>>
<1>5. /\ below \in Seq(Screen) /\ \A k \in 1 .. Len(below) : Covered(below[k])
      /\ \A k \in fresh : k <= Len(below) => k \in 1 .. Len(below)
      /\ ~(Len(below) > 0) /\ Launch(below, stored, current)
      /\ current # None => stored' = current /\ current' = current /\ wait' = Idle
  BY <1>1, <1>2, <1>3
<1>. HIDE DEF below
<1>6. ScreensInv' /\ letIn' \in BOOLEAN /\ fallen' = FALSE
  BY <1>4, <1>5, LaunchStep
<1>7. IF current = None THEN username' = stored /\ letIn' = letIn
      ELSE username' = current /\ letIn' = TRUE
  BY <1>1 DEF Launch
<1>8. NameGood'
  BY <1>1, <1>7 DEF CoreInv, NameGood
<1>9. wait.kind = "created" => wait.email \in Email
  BY DEF CoreInv, WaitGood
<1>10. Shape' /\ WaitGood'
  BY <1>1, <1>6, <1>7, <1>9 DEF CoreInv, Shape, WaitGood, Idle, Wait, Name
<1>11. DocsMatchAccounts'
  BY <1>1, <1>9 DEF CoreInv, DocsMatchAccounts
<1>. QED
  BY <1>6, <1>8, <1>10, <1>11 DEF CoreInv

\* getNoteList's answer: the alert goes, or screens do.
LEMMA LoadAnswerGood ==
    ASSUME CoreInv, NEW k \in 1 .. Top, NEW e \in Email, LoadAnswer(k, e)
    PROVE  CoreInv'
<1>. DEFINE r1 == [stack[k] EXCEPT !.loads = [stack[k].loads EXCEPT ![e] = stack[k].loads[e] - 1]]
            s1 == [stack EXCEPT ![k] = r1]
            r2 == [s1[k] EXCEPT !.rows = e]
            s2 == [s1 EXCEPT ![k] = r2]
<1>1. /\ stack[k].loads[e] > 0
      /\ stack' = s1 \/ stack' = Dismissed(s2, k)
      /\ fresh' = FreshUpTo(Len(stack'))
      /\ fallen' = (fallen \/ Len(stack') < Len(stack))
      /\ UNCHANGED <<auth, device, username, wait, cut, letIn>>
  BY DEF LoadAnswer
<1>2. /\ stack[k] \in Screen /\ Plain(stack[k]) /\ (k < Top => Covered(stack[k]))
      /\ stack \in Stacks /\ Top = Len(stack) /\ Top \in Nat /\ Top \in 1 .. Top
  BY TopFacts DEF CoreInv, ScreensInv, Top
<1>3. stack[k].kind = "home" /\ username \in Email
  BY <1>1, <1>2, TopFacts DEF Plain, NoLoads
<1>4. /\ r1 \in Screen /\ r1.kind = "home" /\ r1.alert = stack[k].alert
      /\ r1.owner = stack[k].owner /\ r1.rows = stack[k].rows
      /\ \A f \in Email : r1.loads[f] > 0 => stack[k].loads[f] > 0
  <2>1. /\ stack[k].loads \in [Email -> Nat] /\ stack[k].loads[e] - 1 \in Nat
        /\ stack[k].loads[e] \in Nat
    BY <1>1, <1>2 DEF Screen
  <2>2. [stack[k].loads EXCEPT ![e] = stack[k].loads[e] - 1] \in [Email -> Nat]
    BY <2>1
  <2>3. \A f \in Email : [stack[k].loads EXCEPT ![e] = stack[k].loads[e] - 1][f] > 0
                            => stack[k].loads[f] > 0
    BY <2>1
  <2>. QED
    BY <1>2, <1>3, <2>2, <2>3 DEF Screen
<1>. HIDE DEF r1
<1>a. k \in 1 .. Len(stack) /\ Plain(r1) /\ (k < Len(stack) => Covered(r1))
  BY <1>2, <1>4 DEF Plain, Covered
<1>b. r1 \in Screen /\ stack \in Stacks
  BY <1>2, <1>4
<1>5. /\ s1 \in Stacks /\ Len(s1) = Len(stack)
      /\ \A j \in 1 .. Len(stack) : s1[j] = IF j = k THEN r1 ELSE stack[j]
  BY <1>a, <1>b, ReplaceGood
<1>. HIDE DEF s1
<1>6. s1[k] = r1 /\ k \in 1 .. Len(s1)
  BY <1>5, <1>a
<1>7. /\ r2 \in Screen /\ r2.kind = "home" /\ r2.alert = r1.alert
      /\ r2.owner = r1.owner /\ r2.rows = e /\ r2.loads = r1.loads
  BY <1>4, <1>6 DEF Screen, Name
<1>. HIDE DEF r2
<1>c. Plain(r2) /\ (k < Len(s1) => Covered(r2)) /\ k \in 1 .. Len(s1) /\ r2 \in Screen
  BY <1>a, <1>4, <1>5, <1>6, <1>7 DEF Plain, Covered
<1>d. s1 \in Stacks
  BY <1>5
<1>e. /\ s2 \in Stacks /\ Len(s2) = Len(s1)
      /\ \A j \in 1 .. Len(s1) : s2[j] = IF j = k THEN r2 ELSE s1[j]
  BY <1>c, <1>d, ReplaceGood
<1>8. /\ s2 \in Stacks /\ Len(s2) = Len(stack)
      /\ \A j \in 1 .. Len(stack) : s2[j] = IF j = k THEN r2 ELSE stack[j]
  BY <1>5, <1>e
<1>. HIDE DEF s2
<1>9. s2[k].kind = "home" /\ k \in 1 .. Len(s2)
  BY <1>7, <1>8, <1>a
<1>. DEFINE t == Dismissed(s2, k)
<1>10. /\ t \in Stacks /\ Len(t) <= Len(s2)
       /\ \A j \in 1 .. Len(t) : t[j].kind = s2[j].kind
       /\ Len(t) = Len(s2) =>
             \A j \in 1 .. Len(s2) : /\ t[j].owner = s2[j].owner /\ t[j].rows = s2[j].rows
                                     /\ t[j].loads = s2[j].loads
       /\ Len(t) < Len(s2) => t[Len(t)].kind = "home"
  BY <1>3, <1>8, <1>9, DismissedGood
<1>11. stack' = s1 \/ stack' = t
  BY <1>1
<1>. HIDE DEF t
\* Either way a screen that is left is of the kind it was.
<1>12. /\ stack' \in Stacks /\ Len(stack') <= Len(stack) /\ Len(stack') \in Nat
       /\ Len(stack') \in 1 .. Len(stack')
       /\ Len(stack') < Len(stack) => stack'[Len(stack')].kind = "home"
  BY <1>2, <1>5, <1>8, <1>10, <1>11, StackFacts
<1>13. \A j \in 1 .. Len(stack') : stack'[j].kind = stack[j].kind /\ j \in 1 .. Len(stack)
  <2>1. \A j \in 1 .. Len(stack') : j \in 1 .. Len(stack)
    BY <1>2, <1>12
  <2>2. \A j \in 1 .. Len(stack) : s1[j].kind = stack[j].kind /\ s2[j].kind = stack[j].kind
    BY <1>3, <1>4, <1>5, <1>7, <1>8
  <2>. QED
    BY <1>10, <1>11, <2>1, <2>2
\* If none goes, the list shows what it asked for.
<1>14. ASSUME Len(stack') = Len(stack), ListOf(stack[Top], username)
       PROVE  ListOf(stack'[Top], username)
  <2>1. Top \in 1 .. Len(stack) /\ Top \in 1 .. Len(s2) /\ Len(s2) = Len(stack)
    BY <1>2, <1>8
  <2>2. /\ stack[Top].owner = username /\ stack[Top].rows \in {None, username}
        /\ \A f \in Email : stack[Top].loads[f] > 0 => f = username
    BY <1>14 DEF ListOf
  <2>3. k = Top => e = username
    BY <1>1, <2>2
  <2>4. k = Top => ListOf(r1, username) /\ ListOf(r2, username)
    BY <1>4, <1>7, <2>2, <2>3 DEF ListOf
  <2>5. ListOf(s1[Top], username) /\ ListOf(s2[Top], username)
    BY <1>5, <1>8, <1>14, <2>1, <2>4
  <2>6. CASE stack' = s1
    BY <2>5, <2>6
  <2>7. CASE stack' = t
    <3>1. /\ t[Top].owner = s2[Top].owner /\ t[Top].rows = s2[Top].rows
          /\ t[Top].loads = s2[Top].loads
      BY <1>10, <1>14, <2>1, <2>7
    <3>. QED
      BY <2>5, <2>7, <3>1 DEF ListOf
  <2>. QED
    BY <1>11, <2>6, <2>7
<1>15. FreshGood'
  <2>1. \A j \in fresh' : j \in fresh /\ j <= Len(stack')
    BY <1>1 DEF FreshUpTo
  <2>2. \A j \in fresh : j \in 1 .. Len(stack) /\ stack[j].kind = "home"
    BY DEF CoreInv, ScreensInv, FreshGood, Top
  <2>3. \A j \in fresh' : j \in 1 .. Len(stack')
    BY <1>2, <1>12, <2>1, <2>2
  <2>. QED
    BY <1>13, <2>1, <2>2, <2>3 DEF FreshGood, Top
<1>16. TopGood'
  <2>1. UNCHANGED <<current, stored, username, wait>>
    BY <1>1 DEF device
  <2>2. CASE Len(stack') < Len(stack)
    BY <1>1, <1>12, <2>2 DEF TopGood, Top
  <2>3. CASE ~(Len(stack') < Len(stack))
    <3>1. Len(stack') = Len(stack) /\ (fallen' = fallen)
      BY <1>1, <1>2, <1>12, <2>3 DEF CoreInv, Shape
    <3>2. stack'[Top].kind = stack[Top].kind
      BY <1>2, <1>13, <3>1
    <3>3. fallen => stack'[Top].kind = "home"
      BY <3>2 DEF CoreInv, ScreensInv, TopGood
    <3>4. ~fallen /\ stack'[Top].kind = "home" =>
             /\ wait = Idle /\ current = username /\ stored = username
             /\ ListOf(stack'[Top], username)
      BY <1>14, <3>1, <3>2 DEF CoreInv, ScreensInv, TopGood
    <3>5. Top' = Top
      BY <3>1 DEF Top
    <3>. QED
      BY <2>1, <3>1, <3>3, <3>4, <3>5 DEF TopGood, ListOf
  <2>. QED
    BY <2>2, <2>3
<1>17. HomeHasName'
  BY <1>1, <1>3, EmailAssumption DEF HomeHasName
<1>18. fallen' \in BOOLEAN
  BY <1>1
<1>. QED
  BY <1>1, <1>12, <1>15, <1>16, <1>17, <1>18, RestKept DEF CoreInv, ScreensInv

-----------------------------------------------------------------------------
(* The invariant holds *)

LEMMA InvInit == Init => SessionInv
<1>. SUFFICES ASSUME Init PROVE SessionInv
  OBVIOUS
<1>1. stack = <<Login>> /\ Len(stack) = 1 /\ stack[1] = Login
  BY DEF Init
<1>2. Login \in Screen /\ Plain(Login) /\ Login.kind = "login"
  BY LoginGood
<1>3. stack \in Seq(Screen) /\ stack # <<>>
  BY <1>1, <1>2
<1>4. StackGood(stack)
  BY <1>1, <1>2 DEF StackGood
<1>5. FreshGood /\ TopGood /\ HomeHasName
  BY <1>1, <1>2 DEF Init, FreshGood, TopGood, HomeHasName, Top
<1>6. Shape /\ WaitGood /\ NameGood /\ DocsMatchAccounts
  BY EmailAssumption
     DEF Init, Shape, WaitGood, NameGood, DocsMatchAccounts, Name, Idle, Wait
<1>. QED
  BY <1>3, <1>4, <1>5, <1>6 DEF SessionInv, CoreInv, ScreensInv, Stacks, Init

LEMMA InvStep == SessionInv /\ [Next]_vars => SessionInv'
<1>. SUFFICES ASSUME SessionInv, [Next]_vars PROVE SessionInv'
  OBVIOUS
<1>. CoreInv /\ taps \in Nat /\ changes \in Nat /\ crashes \in Nat
  BY DEF SessionInv
<1>1. CASE User
  <2>1. CoreInv'
    BY <1>1, OpenSignUpGood, CallGood, RefreshGood, AskExitGood, LogOutGood DEF User, Taps
  <2>. QED
    BY <1>1, <2>1 DEF User, SessionInv
<1>2. CASE Server
  <2>1. CoreInv'
    BY <1>2, SignUpAnswered, LogInAnswered, EnterGood, CommitUserGood, LoadAnswerGood,
       SnapshotGood DEF Server, Answers
  <2>. QED
    BY <1>2, <2>1 DEF Server, SessionInv, counters
<1>3. CASE Others
  <2>1. CoreInv'
    BY <1>3, VerifyGood, ChangeGood DEF Others
  <2>. QED
    BY <1>3, <2>1 DEF Others, SessionInv
<1>4. CASE Crash
  <2>1. CoreInv'
    BY <1>4, CrashGood
  <2>. QED
    BY <1>4, <2>1 DEF Crash, SessionInv
<1>5. CASE UNCHANGED vars
  <2>1. UNCHANGED <<auth, device, username, stack, wait, fresh, cut, fallen, letIn>>
        /\ UNCHANGED <<taps, changes, crashes>>
    BY <1>5 DEF vars, history, counters
  <2>2. ScreensInv'
    BY <2>1 DEF CoreInv, ScreensInv, FreshGood, TopGood, HomeHasName, Top, ListOf, device
  <2>3. fallen' \in BOOLEAN
    BY <2>1 DEF CoreInv, Shape
  <2>4. CoreInv'
    BY <2>1, <2>2, <2>3, RestKept DEF CoreInv
  <2>. QED
    BY <2>1, <2>4 DEF SessionInv
<1>. QED
  BY <1>1, <1>2, <1>3, <1>4, <1>5 DEF Next

LEMMA InvHolds == Spec => []SessionInv
BY InvInit, InvStep, PTL DEF Spec

-----------------------------------------------------------------------------
\* The shape of the session's state, and that every snapshot that waits has a
\* screen to wait for (LoginViewController, NoteViewController, Alertable).
THEOREM TypeCorrect == Spec => []TypeOK
<1>1. SessionInv => TypeOK
  BY TopFacts DEF SessionInv, CoreInv, ScreensInv, Shape, Stacks, FreshGood, TypeOK
<1>. QED
  BY <1>1, InvHolds, PTL

\* Log-ins and log-outs in any number (updateCurrentUsername, exitAlert) leave the
\* list that can be touched, Auth, the view models and UserDefaults with one name.
THEOREM SessionSafe == Spec => []SessionAgrees
<1>1. SessionInv => SessionAgrees
  BY DEF SessionInv, CoreInv, ScreensInv, TopGood, SessionAgrees, On, ListOf
<1>. QED
  BY <1>1, InvHolds, PTL

\* username! of loadNoteList never ends the app, on whatever screen it is run.
THEOREM NameSafe == Spec => []HomeHasName
<1>1. SessionInv => HomeHasName
  BY DEF SessionInv, CoreInv, ScreensInv
<1>. QED
  BY <1>1, InvHolds, PTL

\* A Users document is written for accounts only, and an account without one is
\* one whose sign-up is under way or was cut short (createNewAuthAndDatabaseAccount).
THEOREM DocsSafe == Spec => []DocsMatchAccounts
<1>1. SessionInv => DocsMatchAccounts
  BY DEF SessionInv, CoreInv
<1>. QED
  BY <1>1, InvHolds, PTL

\* No list comes up for an address that is not verified but through didLogin.
THEOREM VerifiedOnly == Spec => []LoginVerifies
<1>1. SessionInv => LoginVerifies
  BY TopFacts, EmailAssumption DEF SessionInv, CoreInv, NameGood, LoginVerifies
<1>. QED
  BY <1>1, InvHolds, PTL
=============================================================================
