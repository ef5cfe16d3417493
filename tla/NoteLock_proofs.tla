--------------------------- MODULE NoteLock_proofs ---------------------------
(***************************************************************************)
(* The passcode lock, for every bound: the shape of the state, that a lock *)
(* and the share button exclude one another, that NoteDetail locks a note  *)
(* only in an account which has had a passcode, and that a note this       *)
(* device locked is not shown or deleted before a passcode was asked for.  *)
(*                                                                         *)
(* Locking is about a single tap, but the open lock got into the bar long  *)
(* before it, through an answer, an alert or a note that was locked        *)
(* already.  The invariant collects everything that can bring it there     *)
(* (Clean: none of it exists) and says that none exists in an account that *)
(* never had a passcode, unless an empty one slipped in.                   *)
(*                                                                         *)
(* Showing is about a row, which was loaded before the note was locked:    *)
(* Covered says that such a row lies below an alert or below emptyNoteView *)
(* until it is loaded again, and OwnLock what the device and the server    *)
(* together know of the lock, which no commit and nobody elsewhere adds to.*)
(***************************************************************************)
EXTENDS NoteLock, TLAPS, SequenceTheorems, WellFoundedInduction

Shape ==
    /\ note \in Note /\ coded \in BOOLEAN
    /\ queue \in Seq(Write)
    /\ screen \in Screens
    /\ screen \in {"detail", "create"} => screen = ed.kind
    /\ row \in Rows /\ selected \in BOOLEAN /\ hidden \in BOOLEAN
    /\ alert \in Alert
    /\ calls \in [Kinds -> Nat]
    /\ people \in BOOLEAN /\ form \in Forms
    /\ wasCoded \in BOOLEAN /\ slipped \in BOOLEAN

CountersOK ==
    taps \in 0 .. MaxTaps /\ others \in 0 .. MaxOthers /\ crashes \in 0 .. MaxCrashes

\* What is so of every editor.
GoodEd(e) == /\ e \in Editor
             /\ e.isRecord => e.recorded
             /\ e.hasLock /\ e.shareBtn => e.isShared \/ e.recorded

\* What speaks for a passcode: a lock, or the way to one.
Sure(e)    == e.lockStatus \/ e.bar = "lock" \/ (e.kind = "detail" /\ e.bar = "unlock")
Proves(w)  == (w.kind = "code" /\ w.to) \/ (Saves(w) /\ w.locked)
NoneIn(q)  == \A i \in DOMAIN q : ~Proves(q[i])
Vouched    == wasCoded \/ slipped

Clean == /\ ~coded /\ ~note.locked /\ row # "locked" /\ ~Sure(ed)
         /\ alert.kind # "unlock" /\ calls["unlock"] = 0
         /\ NoneIn(queue)

Inv     == Shape /\ GoodEd(ed) /\ (Vouched \/ Clean)
LockInv == Inv /\ CountersOK

-----------------------------------------------------------------------------
(* What the handlers of an editor keep *)

LEMMA NewEditorGood ==
    ASSUME NEW k \in {"detail", "create"}, NEW locked \in BOOLEAN
    PROVE  /\ GoodEd(NewEditor(k, locked)) /\ NewEditor(k, locked).kind = k
           /\ NewEditor(k, locked).lockStatus = locked
           /\ Sure(NewEditor(k, locked)) => locked
BY DEF GoodEd, Editor, Bars, NewEditor, Sure

\* A handler that does not lock brings no new evidence.
LEMMA HandlersGood ==
    ASSUME NEW e, GoodEd(e), NEW b \in BOOLEAN
    PROVE  /\ GoodEd(SetupNavBarUI(e)) /\ SetupNavBarUI(e).kind = e.kind
           /\ SetupNavBarUI(e).lockStatus = e.lockStatus
           /\ Sure(SetupNavBarUI(e)) => Sure(e)
           /\ GoodEd(CheckShared(e, b)) /\ CheckShared(e, b).kind = e.kind
           /\ Sure(CheckShared(e, b)) => Sure(e)
           /\ GoodEd(CheckCached(e, b)) /\ CheckCached(e, b).kind = e.kind
           /\ e.kind = "create" /\ Sure(CheckCached(e, b)) => Sure(e)
           /\ GoodEd(ChangeContent(e, b)) /\ ChangeContent(e, b).kind = e.kind
           /\ Sure(ChangeContent(e, b)) => Sure(e)
           /\ GoodEd(ToggleVoice(e)) /\ ToggleVoice(e).kind = e.kind
           /\ Sure(ToggleVoice(e)) => Sure(e)
           /\ GoodEd(RemoveLock(e)) /\ RemoveLock(e).kind = e.kind
           /\ Sure(RemoveLock(e)) => Sure(e)
<1>. USE DEF GoodEd, Editor, Bars, Sure
<1>1. /\ GoodEd(SetupNavBarUI(e)) /\ SetupNavBarUI(e).kind = e.kind
      /\ SetupNavBarUI(e).lockStatus = e.lockStatus
      /\ Sure(SetupNavBarUI(e)) => Sure(e)
  BY DEF SetupNavBarUI
<1>2. /\ GoodEd(CheckShared(e, b)) /\ CheckShared(e, b).kind = e.kind
      /\ Sure(CheckShared(e, b)) => Sure(e)
  <2>1. GoodEd(CheckShared(e, b))
    BY DEF CheckShared
  <2>2. CheckShared(e, b).kind = e.kind
    BY DEF CheckShared
  <2>3. Sure(CheckShared(e, b)) => Sure(e)
    BY DEF CheckShared
  <2>. HIDE DEF GoodEd, Editor, Bars, Sure
  <2>. QED
    BY <2>1, <2>2, <2>3
<1>3. /\ GoodEd(CheckCached(e, b)) /\ CheckCached(e, b).kind = e.kind
      /\ e.kind = "create" /\ Sure(CheckCached(e, b)) => Sure(e)
  <2>1. GoodEd(CheckCached(e, b))
    BY DEF CheckCached
  <2>2. CheckCached(e, b).kind = e.kind
    BY DEF CheckCached
  <2>3. e.kind = "create" /\ Sure(CheckCached(e, b)) => Sure(e)
    BY DEF CheckCached
  <2>. HIDE DEF GoodEd, Editor, Bars, Sure
  <2>. QED
    BY <2>1, <2>2, <2>3
<1>4. /\ GoodEd(ChangeContent(e, b)) /\ ChangeContent(e, b).kind = e.kind
      /\ Sure(ChangeContent(e, b)) => Sure(e)
  <2>1. GoodEd(ChangeContent(e, b))
    BY DEF ChangeContent
  <2>2. ChangeContent(e, b).kind = e.kind
    BY DEF ChangeContent
  <2>3. Sure(ChangeContent(e, b)) => Sure(e)
    BY DEF ChangeContent
  <2>. HIDE DEF GoodEd, Editor, Bars, Sure
  <2>. QED
    BY <2>1, <2>2, <2>3
<1>5. /\ GoodEd(ToggleVoice(e)) /\ ToggleVoice(e).kind = e.kind
      /\ Sure(ToggleVoice(e)) => Sure(e)
  <2>1. GoodEd(ToggleVoice(e))
    BY DEF ToggleVoice
  <2>2. ToggleVoice(e).kind = e.kind
    BY DEF ToggleVoice
  <2>3. Sure(ToggleVoice(e)) => Sure(e)
    BY DEF ToggleVoice
  <2>. HIDE DEF GoodEd, Editor, Bars, Sure
  <2>. QED
    BY <2>1, <2>2, <2>3
<1>6. /\ GoodEd(RemoveLock(e)) /\ RemoveLock(e).kind = e.kind
      /\ Sure(RemoveLock(e)) => Sure(e)
  <2>1. GoodEd(RemoveLock(e))
    BY DEF RemoveLock
  <2>2. RemoveLock(e).kind = e.kind
    BY DEF RemoveLock
  <2>3. Sure(RemoveLock(e)) => Sure(e)
    BY DEF RemoveLock
  <2>. HIDE DEF GoodEd, Editor, Bars, Sure
  <2>. QED
    BY <2>1, <2>2, <2>3
<1>. HIDE DEF GoodEd, Editor, Bars, Sure
<1>. QED
  BY <1>1, <1>2, <1>3, <1>4, <1>5, <1>6

LEMMA SwitchFieldGood ==
    ASSUME NEW e, GoodEd(e), NEW b \in BOOLEAN
    PROVE  /\ GoodEd(SwitchField(e, b)) /\ SwitchField(e, b).kind = e.kind
           /\ Sure(SwitchField(e, b)) => Sure(e)
<1>. DEFINE f == [e EXCEPT !.isRecord = FALSE, !.hasLock = FALSE, !.focused = TRUE]
            g == [f EXCEPT !.bar = "none"]
            h == [CheckCached(f, b) EXCEPT !.bar = "none"]
<1>1. /\ GoodEd(f) /\ f.kind = e.kind /\ f.lockStatus = e.lockStatus
  BY DEF GoodEd, Editor
<1>2. SwitchField(e, b) = IF e.kind = "detail" THEN g ELSE h
  BY DEF SwitchField
<1>. HIDE DEF f
<1>3. GoodEd(g) /\ g.kind = f.kind /\ (Sure(g) => f.lockStatus)
  BY <1>1 DEF GoodEd, Editor, Bars, Sure
<1>4. /\ GoodEd(CheckCached(f, b)) /\ CheckCached(f, b).kind = f.kind
      /\ CheckCached(f, b).lockStatus = f.lockStatus
  <2>1. f \in Editor
    BY <1>1 DEF GoodEd
  <2>2. CheckCached(f, b).lockStatus = f.lockStatus
    BY <2>1 DEF CheckCached, Editor
  <2>. QED
    BY <1>1, <2>2, HandlersGood
<1>5. GoodEd(h) /\ h.kind = f.kind /\ (Sure(h) => f.lockStatus)
  BY <1>4 DEF GoodEd, Editor, Bars, Sure
<1>. HIDE DEF g, h
<1>. QED
  BY <1>1, <1>2, <1>3, <1>5 DEF Sure

LEMMA LocksGood ==
    ASSUME NEW e, GoodEd(e)
    PROVE  /\ GoodEd(AddLockIcon(e)) /\ AddLockIcon(e).kind = e.kind
           /\ GoodEd(LockOn(e)) /\ LockOn(e).kind = e.kind
           /\ GoodEd(LockOff(e)) /\ LockOff(e).kind = e.kind
           /\ GoodEd([e EXCEPT !.filled = TRUE]) /\ GoodEd([e EXCEPT !.focused = FALSE])
<1>. USE DEF GoodEd, Editor, Bars
<1>1. GoodEd(AddLockIcon(e)) /\ AddLockIcon(e).kind = e.kind
  BY DEF AddLockIcon
<1>2. GoodEd(LockOn(e)) /\ LockOn(e).kind = e.kind
  BY DEF LockOn
<1>3. GoodEd(LockOff(e)) /\ LockOff(e).kind = e.kind
  BY DEF LockOff, AddLockIcon
<1>. QED
  BY <1>1, <1>2, <1>3

\* Filling a field, or losing the focus, is no evidence either.
LEMMA FieldsKeep ==
    ASSUME NEW e \in Editor
    PROVE  /\ [e EXCEPT !.filled = TRUE].kind = e.kind
           /\ [e EXCEPT !.focused = FALSE].kind = e.kind
           /\ Sure([e EXCEPT !.filled = TRUE]) => Sure(e)
           /\ Sure([e EXCEPT !.focused = FALSE]) => Sure(e)
BY DEF Editor, Sure

-----------------------------------------------------------------------------
(* Queues and reads *)

LEMMA AppendOK ==
    ASSUME Shape, NEW w \in Write, queue' = Append(queue, w)
    PROVE  /\ queue' \in Seq(Write)
           /\ NoneIn(queue) /\ ~Proves(w) => NoneIn(queue')
<1>1. queue \in Seq(Write)
  BY DEF Shape
<1>2. /\ queue' \in Seq(Write) /\ Len(queue') = Len(queue) + 1
      /\ queue'[Len(queue) + 1] = w
      /\ \A i \in 1 .. Len(queue) : queue'[i] = queue[i]
  BY <1>1, AppendProperties
<1>3. /\ DOMAIN queue = 1 .. Len(queue) /\ DOMAIN queue' = 1 .. Len(queue')
      /\ Len(queue) \in Nat
  BY <1>1, <1>2, LenProperties
<1>. QED
  BY <1>2, <1>3 DEF NoneIn

LEMMA SendOK ==
    ASSUME Shape, NEW w \in Write, Send(w)
    PROVE  queue' \in Seq(Write) /\ (NoneIn(queue) /\ ~Proves(w) => NoneIn(queue'))
BY AppendOK DEF Send

LEMMA CommitQueue ==
    ASSUME Shape, queue # <<>>, queue' = Tail(queue)
    PROVE  /\ Head(queue) \in Write /\ queue' \in Seq(Write)
           /\ NoneIn(queue) => ~Proves(Head(queue)) /\ NoneIn(queue')
<1>1. queue \in Seq(Write)
  BY DEF Shape
<1>2. /\ Head(queue) \in Write /\ Tail(queue) \in Seq(Write)
      /\ Len(Tail(queue)) = Len(queue) - 1
      /\ \A i \in 1 .. Len(Tail(queue)) : Tail(queue)[i] = queue[i + 1]
  BY <1>1, HeadTailProperties
<1>3. Len(queue) \in Nat \ {0} /\ DOMAIN queue = 1 .. Len(queue)
  BY <1>1, LenProperties, EmptySeq
<1>4. Head(queue) = queue[1] /\ DOMAIN queue' = 1 .. Len(queue) - 1
  BY <1>1, <1>2, LenProperties
<1>. QED
  BY <1>2, <1>3, <1>4 DEF NoneIn

LEMMA SeenTyped ==
    ASSUME Shape
    PROVE  /\ HereSeen \in BOOLEAN /\ LockSeen \in BOOLEAN
           /\ SharedSeen \in BOOLEAN /\ CodedSeen \in BOOLEAN
<1>1. \A i \in DOMAIN queue : queue[i] \in Write
  BY LenProperties DEF Shape
<1>2. HereSeen \in BOOLEAN
  BY DEF HereSeen, Shape, Note
<1>3. LockSeen \in BOOLEAN
  BY DEF LockSeen, Shape, Note
<1>4. SharedSeen \in BOOLEAN
  BY DEF SharedSeen, Shape, Note
<1>5. CodedSeen \in BOOLEAN
  BY DEF CodedSeen, Shape
<1>. QED
  BY <1>2, <1>3, <1>4, <1>5

LEMMA CleanReads ==
    ASSUME Shape, Clean
    PROVE  ~CodedSeen /\ ~LockSeen
<1>1. ~CodedSeen
  BY DEF Clean, NoneIn, Proves, CodedSeen, Newest
<1>2. ~LockSeen
  BY DEF Clean, NoneIn, Proves, LockSeen, Newest
<1>. QED
  BY <1>1, <1>2

-----------------------------------------------------------------------------
(* Steps that several actions share *)

LEMMA Step ==
    ASSUME Inv, Shape', GoodEd(ed)', Vouched => Vouched', Clean => Clean' \/ Vouched'
    PROVE  Inv'
BY DEF Inv

LEMMA RestartOK ==
    ASSUME Inv, Restart, UNCHANGED history
    PROVE  Inv'
<1>1. GoodEd(ed)' /\ ~Sure(ed)' /\ ed'.kind = "detail"
  BY NewEditorGood DEF Restart
<1>2. Shape'
  BY <1>1 DEF Inv, Shape, Restart, history, server, Screens, Rows, Alert, Loading, Kinds, Forms
<1>3. Clean => Clean'
  BY <1>1 DEF Clean, Restart, server, Loading, Kinds, NoneIn
<1>. QED
  BY <1>1, <1>2, <1>3, Step DEF history, Vouched

\* Leaving an editor queues a deletion or a save with its lockStatus.
LEMMA SaveOK ==
    ASSUME Inv, SaveNote
    PROVE  queue' \in Seq(Write) /\ people' \in BOOLEAN /\ (Clean => NoneIn(queue'))
<1>. DEFINE w == IF ~ed.filled THEN Delete
                 ELSE [kind |-> IF ed.kind = "create" THEN "set" ELSE "save",
                       locked |-> ed.lockStatus, shared |-> people]
<1>1. w \in Write /\ (Clean => ~Proves(w))
  BY DEF Inv, Shape, GoodEd, Editor, Write, Delete, Clean, Sure, Proves, Saves
<1>2. queue' = Append(queue, w)
  BY DEF SaveNote
<1>. HIDE DEF w
<1>. QED
  BY <1>1, <1>2, AppendOK DEF Inv, SaveNote, Clean

LEMMA GoToOK ==
    ASSUME Inv, NEW s \in {"passcode", "share"}, NEW cs \in [Kinds -> Nat],
           Clean => cs["unlock"] = 0, GoTo(s, cs),
           alert' = NoAlert \/ alert' = alert
    PROVE  Inv'
<1>1. ed' = [ed EXCEPT !.focused = FALSE] /\ GoodEd(ed)' /\ (Sure(ed)' => Sure(ed))
  BY LocksGood, FieldsKeep DEF GoTo, Inv, GoodEd
<1>2. queue' \in Seq(Write) /\ people' \in BOOLEAN /\ (Clean => NoneIn(queue'))
  BY SaveOK DEF GoTo
<1>3. calls' \in [Kinds -> Nat] /\ (Clean => calls'["unlock"] = 0)
  BY DEF GoTo, Kinds
<1>4. /\ screen' = s /\ form' \in Forms /\ alert' \in Alert
      /\ (Clean => alert'.kind # "unlock")
  BY DEF GoTo, Inv, Shape, Forms, Alert, NoAlert, Clean
<1>5. Shape'
  BY <1>1, <1>2, <1>3, <1>4 DEF Inv, Shape, GoTo, server, list, history, Screens
<1>6. Clean => Clean'
  BY <1>1, <1>2, <1>3, <1>4 DEF Clean, GoTo, server, list
<1>. QED
  BY <1>1, <1>5, <1>6, Step DEF GoTo, history, Vouched

\* The editor appears again, above the list or from below a screen.
LEMMA AppearOK ==
    ASSUME NEW e, GoodEd(e), e.kind = "detail", people \in BOOLEAN, AppearDetail(e)
    PROVE  GoodEd(ed') /\ ed'.kind = "detail" /\ (Sure(ed') => Sure(e))
<1>1. PICK focus \in BOOLEAN :
         ed' = IF focus /\ ~e.lockStatus THEN SwitchField(SetupNavBarUI(e), people)
               ELSE SetupNavBarUI(e)
  BY DEF AppearDetail
<1>2. GoodEd(SetupNavBarUI(e)) /\ SetupNavBarUI(e).kind = "detail"
      /\ (Sure(SetupNavBarUI(e)) => Sure(e))
  BY HandlersGood
<1>. QED
  BY <1>1, <1>2, SwitchFieldGood

LEMMA AppearCreateOK ==
    ASSUME NEW e, GoodEd(e), e.kind = "create", people \in BOOLEAN, NEW focus \in BOOLEAN,
           ed' = CheckCached(IF focus THEN SwitchField(e, people) ELSE e, people)
    PROVE  GoodEd(ed') /\ ed'.kind = "create" /\ (Sure(ed') => Sure(e))
<1>1. GoodEd(SwitchField(e, people)) /\ SwitchField(e, people).kind = "create"
      /\ (Sure(SwitchField(e, people)) => Sure(e))
  BY SwitchFieldGood
<1>2. CASE focus
  BY <1>1, <1>2, HandlersGood
<1>3. CASE ~focus
  BY <1>3, HandlersGood
<1>. QED
  BY <1>2, <1>3

LEMMA ReturnOK ==
    ASSUME Inv, NEW cs \in [Kinds -> Nat], cs["unlock"] = calls["unlock"], Return(cs),
           alert' = NoAlert \/ alert' = alert,
           UNCHANGED <<server, list, queue, people, form, history>>
    PROVE  Inv'
<1>1. ed.kind \in {"detail", "create"} /\ GoodEd(ed) /\ people \in BOOLEAN
  BY DEF Inv, Shape, GoodEd, Editor
<1>2. GoodEd(ed)' /\ ed'.kind = ed.kind /\ (Sure(ed)' => Sure(ed))
  <2>1. CASE ed.kind = "detail"
    BY <1>1, <2>1, AppearOK DEF Return
  <2>2. CASE ed.kind = "create"
    <3>1. PICK focus \in BOOLEAN :
             ed' = CheckCached(IF focus THEN SwitchField(ed, people) ELSE ed, people)
      BY <2>2 DEF Return
    <3>. QED
      BY <1>1, <2>2, <3>1, AppearCreateOK
  <2>. QED
    BY <1>1, <2>1, <2>2
<1>3. calls' \in [Kinds -> Nat] /\ calls'["unlock"] = calls["unlock"]
  BY DEF Return, Kinds
<1>4. screen' = ed.kind /\ alert' \in Alert /\ (Clean => alert'.kind # "unlock")
  BY DEF Return, Inv, Shape, Alert, NoAlert, Clean
<1>5. Shape'
  BY <1>1, <1>2, <1>3, <1>4 DEF Inv, Shape, server, list, history, Screens
<1>6. Clean => Clean'
  BY <1>2, <1>3, <1>4 DEF Clean, server, list, NoneIn
<1>. QED
  BY <1>2, <1>5, <1>6, Step DEF history, Vouched

\* A handler of the editor that does not lock.
LEMMA EditsOK ==
    ASSUME Inv, NEW e, Edits(e), GoodEd(e), e.kind = ed.kind, Sure(e) => Sure(ed)
    PROVE  Inv'
<1>1. Shape'
  BY DEF Inv, Shape, Edits, server, list, history
<1>2. Clean => Clean'
  BY DEF Clean, Edits, server, list, NoneIn
<1>. QED
  BY <1>1, <1>2, Step DEF Edits, history, Vouched

\* A step that only changes what is pending or what covers the screen.
LEMMA QuietOK ==
    ASSUME Inv, UNCHANGED <<server, queue, screen, ed, people, history>>,
           row' \in Rows, selected' \in BOOLEAN, hidden' \in BOOLEAN,
           Clean => row' # "locked",
           alert' \in Alert, Clean => alert'.kind # "unlock",
           calls' \in [Kinds -> Nat], Clean => calls'["unlock"] = 0, form' \in Forms
    PROVE  Inv'
<1>1. Shape' /\ GoodEd(ed)'
  BY DEF Inv, Shape, server, history
<1>2. Clean => Clean'
  BY DEF Clean, server, NoneIn
<1>. QED
  BY <1>1, <1>2, Step DEF history, Vouched

\* The pending queries stay counted; only a press on a lock asks to unlock.
LEMMA CallsOK ==
    ASSUME Shape, NEW ks \in SUBSET Kinds, NEW k \in Kinds
    PROVE  /\ Pend(ks) \in [Kinds -> Nat]
           /\ "unlock" \notin ks => Pend(ks)["unlock"] = calls["unlock"]
           /\ calls[k] > 0 => Answered(k) \in [Kinds -> Nat]
           /\ calls[k] > 0 /\ calls["unlock"] = 0 => Answered(k)["unlock"] = 0
           /\ Abandoned \in [Kinds -> Nat] /\ Abandoned["unlock"] = 0
<1>1. calls \in [Kinds -> Nat]
  BY DEF Shape
<1>2. Pend(ks) \in [Kinds -> Nat] /\ ("unlock" \notin ks => Pend(ks)["unlock"] = calls["unlock"])
  BY <1>1 DEF Pend, Kinds
<1>3. /\ calls[k] > 0 => Answered(k) \in [Kinds -> Nat]
      /\ calls[k] > 0 /\ calls["unlock"] = 0 => Answered(k)["unlock"] = 0
  BY <1>1 DEF Answered, Kinds
<1>4. Abandoned \in [Kinds -> Nat] /\ Abandoned["unlock"] = 0
  BY <1>1 DEF Abandoned, Kinds
<1>. QED
  BY <1>2, <1>3, <1>4

-----------------------------------------------------------------------------
(* The list *)

LEMMA ReloadOK ==
    ASSUME Inv, Reload
    PROVE  Inv'
<1>1. calls' \in [Kinds -> Nat] /\ (Clean => calls'["unlock"] = 0)
  BY CallsOK, "rows" \in Kinds, {"rows"} \in SUBSET Kinds DEF Kinds, Inv, Reload, Clean
<1>2. alert' \in Alert /\ (Clean => alert'.kind # "unlock")
  BY DEF Reload, Present, Loading, Inv, Shape, Alert, Clean
<1>. QED
  BY <1>1, <1>2, QuietOK DEF Reload, list, Inv, Shape, Clean

LEMMA LoadRowsOK ==
    ASSUME Inv, LoadRows
    PROVE  Inv'
<1>1. calls' \in [Kinds -> Nat] /\ (Clean => calls'["unlock"] = 0)
  BY CallsOK, "rows" \in Kinds, {} \in SUBSET Kinds DEF Kinds, Inv, LoadRows, Clean
<1>2. alert' \in Alert /\ alert'.kind # "unlock"
  BY DEF LoadRows, NoAlert, Alert
<1>3. /\ row' \in Rows /\ selected' \in BOOLEAN /\ hidden' \in BOOLEAN
      /\ Clean => row' # "locked"
  BY CleanReads DEF LoadRows, Rows, Inv, Shape, Clean
<1>. QED
  BY <1>1, <1>2, <1>3, QuietOK DEF LoadRows, Inv, Shape

LEMMA TapRowOK ==
    ASSUME Inv, TapRow
    PROVE  Inv'
<1>1. calls' \in [Kinds -> Nat] /\ (Clean => calls'["unlock"] = 0)
  BY CallsOK, "ask" \in Kinds, {"ask"} \in SUBSET Kinds DEF Kinds, Inv, TapRow, Clean
<1>. QED
  BY <1>1, QuietOK DEF TapRow, Inv, Shape, Clean

LEMMA OpenRowOK ==
    ASSUME Inv, OpenRow
    PROVE  Inv'
<1>1. calls["ask"] > 0 /\ UNCHANGED history
  BY DEF OpenRow
<1>2. CASE Restart
  BY <1>1, <1>2, RestartOK
<1>3. CASE /\ Present(Message) /\ calls' = Answered("ask")
           /\ UNCHANGED <<server, list, queue, screen, ed, people, form>>
  <2>1. calls' \in [Kinds -> Nat] /\ (Clean => calls'["unlock"] = 0)
    BY <1>1, <1>3, CallsOK, "ask" \in Kinds, {} \in SUBSET Kinds DEF Kinds, Inv, Clean
  <2>2. alert' \in Alert /\ (Clean => alert'.kind # "unlock")
    BY <1>3 DEF Present, Message, Inv, Shape, Alert, Clean
  <2>. QED
    BY <1>1, <1>3, <2>1, <2>2, QuietOK DEF list, Inv, Shape, Clean
<1>4. CASE /\ screen' = "detail"
           /\ AppearDetail(NewEditor("detail", row = "locked"))
           /\ calls' = [Pend({"check", "load"}) EXCEPT !["ask"] = @ - 1]
           /\ UNCHANGED <<server, list, queue, alert, people, form>>
  <2>1. GoodEd(ed)' /\ ed'.kind = "detail" /\ (Sure(ed)' => row = "locked")
    <3>. DEFINE e == NewEditor("detail", row = "locked")
    <3>1. GoodEd(e) /\ e.kind = "detail" /\ (Sure(e) => row = "locked")
      BY NewEditorGood
    <3>2. AppearDetail(e) /\ people \in BOOLEAN
      BY <1>4 DEF Inv, Shape
    <3>. HIDE DEF e
    <3>. QED
      BY <3>1, <3>2, AppearOK
  <2>2. calls' \in [Kinds -> Nat] /\ (Clean => calls'["unlock"] = 0)
    <3>. DEFINE p == Pend({"check", "load"})
    <3>1. p \in [Kinds -> Nat] /\ p["unlock"] = calls["unlock"] /\ p["ask"] = calls["ask"]
      BY DEF Pend, Kinds, Inv, Shape
    <3>2. calls' = [p EXCEPT !["ask"] = @ - 1]
      BY <1>4
    <3>. HIDE DEF p
    <3>. QED
      BY <1>1, <3>1, <3>2 DEF Kinds, Clean
  <2>3. Shape'
    BY <1>1, <1>4, <2>1, <2>2 DEF Inv, Shape, server, list, history, Screens
  <2>4. Clean => Clean'
    BY <1>4, <2>1, <2>2 DEF Clean, server, list, NoneIn
  <2>. QED
    BY <1>1, <2>1, <2>3, <2>4, Step DEF history, Vouched
<1>. QED
  BY <1>2, <1>3, <1>4 DEF OpenRow

\* A deletion is no evidence.
LEMMA RemoveOK ==
    ASSUME Inv, Remove, UNCHANGED <<calls, history>>, alert' \in Alert,
           Clean => alert'.kind # "unlock"
    PROVE  Inv'
<1>1. queue' \in Seq(Write) /\ (Clean => NoneIn(queue'))
  BY AppendOK DEF Inv, Remove, Delete, Write, Proves, Saves, Clean
<1>2. Shape'
  BY <1>1 DEF Inv, Shape, Remove, server, history, Rows
<1>3. Clean => Clean'
  BY <1>1 DEF Clean, Remove, server
<1>. QED
  BY <1>2, <1>3, Step DEF Inv, Remove, history, Vouched

LEMMA SwipeDeleteOK ==
    ASSUME Inv, SwipeDelete
    PROVE  Inv'
<1>1. CASE row = "open"
  BY <1>1, RemoveOK DEF SwipeDelete, Inv, Shape, Clean
<1>2. CASE row # "open"
  <2>1. calls' \in [Kinds -> Nat] /\ (Clean => calls'["unlock"] = 0)
    BY <1>2, CallsOK, "delete" \in Kinds, {"delete"} \in SUBSET Kinds
    DEF Kinds, Inv, SwipeDelete, Clean
  <2>. QED
    BY <1>2, <2>1, QuietOK DEF SwipeDelete, Inv, Shape, Clean
<1>. QED
  BY <1>1, <1>2

LEMMA AddNoteOK ==
    ASSUME Inv, AddNote
    PROVE  Inv'
<1>. DEFINE e == NewEditor("create", FALSE)
<1>1. GoodEd(e) /\ e.kind = "create" /\ ~Sure(e)
  BY NewEditorGood
<1>2. PICK focus \in BOOLEAN :
         ed' = CheckCached(IF focus THEN SwitchField(e, people) ELSE e, people)
  BY DEF AddNote
<1>. HIDE DEF e
<1>3. GoodEd(ed)' /\ ed'.kind = "create" /\ ~Sure(ed)'
  BY <1>1, <1>2, AppearCreateOK DEF Inv, Shape
<1>4. Shape'
  BY <1>3 DEF Inv, Shape, AddNote, server, list, history, Screens
<1>5. Clean => Clean'
  BY <1>3 DEF Clean, AddNote, server, list, NoneIn
<1>. QED
  BY <1>3, <1>4, <1>5, Step DEF AddNote, history, Vouched

-----------------------------------------------------------------------------
(* The editors *)

LEMMA FocusFieldOK ==
    ASSUME Inv, FocusField
    PROVE  Inv'
<1>1. ed' = SwitchField(ed, people) /\ UNCHANGED <<server, list, queue, screen, alert,
                                                   people, form, history>>
  BY DEF FocusField
<1>2. GoodEd(ed)' /\ ed'.kind = ed.kind /\ (Sure(ed)' => Sure(ed))
  BY <1>1, SwitchFieldGood DEF Inv, Shape
<1>3. calls' \in [Kinds -> Nat] /\ (Clean => calls'["unlock"] = 0)
  BY CallsOK, "check" \in Kinds, {"check"} \in SUBSET Kinds
  DEF Kinds, Inv, Shape, FocusField, Clean
<1>4. Shape'
  BY <1>1, <1>2, <1>3 DEF Inv, Shape, server, list, history
<1>5. Clean => Clean'
  BY <1>1, <1>2, <1>3 DEF Clean, server, list, NoneIn
<1>. QED
  BY <1>1, <1>2, <1>4, <1>5, Step DEF history, Vouched

LEMMA TypeKeeps ==
    ASSUME Inv, Type
    PROVE  Inv'
<1>1. PICK filled \in BOOLEAN : Edits(ChangeContent(ed, filled))
  BY DEF Type
<1>2. /\ GoodEd(ChangeContent(ed, filled)) /\ ChangeContent(ed, filled).kind = ed.kind
      /\ Sure(ChangeContent(ed, filled)) => Sure(ed)
  BY HandlersGood DEF Inv
<1>. QED
  BY <1>1, <1>2, EditsOK

LEMMA DictateOK ==
    ASSUME Inv, Dictate
    PROVE  Inv'
<1>. DEFINE e == [ed EXCEPT !.filled = TRUE]
<1>1. Edits(e)
  BY DEF Dictate
<1>2. GoodEd(e) /\ e.kind = ed.kind /\ (Sure(e) => Sure(ed))
  BY LocksGood, FieldsKeep DEF Inv, GoodEd
<1>. HIDE DEF e
<1>. QED
  BY <1>1, <1>2, EditsOK

LEMMA VoiceOK ==
    ASSUME Inv, Voice
    PROVE  Inv'
<1>1. Edits(ToggleVoice(ed))
  BY DEF Voice
<1>2. /\ GoodEd(ToggleVoice(ed)) /\ ToggleVoice(ed).kind = ed.kind
      /\ Sure(ToggleVoice(ed)) => Sure(ed)
  BY HandlersGood, TRUE \in BOOLEAN DEF Inv
<1>. QED
  BY <1>1, <1>2, EditsOK

\* The open lock in NoteDetail's bar is evidence; CreateNote's is not, and a lock
\* set from there is remembered in slipped.
LEMMA LockNoteOK ==
    ASSUME Inv, LockNote
    PROVE  Inv'
<1>1. CASE ed.filled
  <2>1. ed' = LockOn(ed) /\ GoodEd(ed)' /\ ed'.kind = ed.kind
    BY <1>1, LocksGood DEF LockNote, Inv
  <2>2. Shape'
    BY <1>1, <2>1 DEF LockNote, Inv, Shape, server, list
  <2>3. Vouched => Vouched'
    BY <1>1 DEF LockNote, Vouched
  <2>4. Clean => Vouched'
    BY <1>1 DEF LockNote, Clean, Sure, Vouched, Inv, GoodEd, Editor
  <2>. QED
    BY <2>1, <2>2, <2>3, <2>4, Step
<1>2. CASE ~ed.filled
  <2>1. alert' \in Alert /\ (Clean => alert'.kind # "unlock")
    BY <1>2 DEF LockNote, Present, Message, Inv, Shape, Alert, Clean
  <2>. QED
    BY <1>2, <2>1, QuietOK DEF LockNote, Inv, Shape, Clean, list, history
<1>. QED
  BY <1>1, <1>2

LEMMA AskOK ==
    ASSUME Inv, NEW k \in Kinds, Ask(k), k = "unlock" => ~Clean
    PROVE  Inv'
<1>1. {k} \in SUBSET Kinds
  OBVIOUS
<1>2. calls' = Pend({k}) /\ calls' \in [Kinds -> Nat]
  BY <1>1, CallsOK DEF Ask, Inv
<1>3. Clean => calls'["unlock"] = 0
  BY <1>1, <1>2, CallsOK DEF Inv, Clean
<1>4. alert' \in Alert /\ alert'.kind # "unlock"
  BY DEF Ask, NoAlert, Alert
<1>. QED
  BY <1>2, <1>3, <1>4, QuietOK DEF Ask, list, Inv, Shape, Clean

LEMMA AskToUnlockOK ==
    ASSUME Inv, AskToUnlock
    PROVE  Inv'
BY AskOK DEF AskToUnlock, Kinds, Clean, Sure

LEMMA ShowSheetOK ==
    ASSUME Inv, ShowSheet
    PROVE  Inv'
<1>1. alert' \in Alert /\ (Clean => alert'.kind # "unlock")
  BY DEF ShowSheet, Present, Inv, Shape, GoodEd, Editor, Alert, Clean
<1>. QED
  BY <1>1, QuietOK DEF ShowSheet, list, Inv, Shape, Clean

LEMMA ChooseRemoveOK ==
    ASSUME Inv, ChooseRemove
    PROVE  Inv'
<1>1. /\ GoodEd(ed)' /\ ed'.kind = ed.kind /\ (Sure(ed)' => Sure(ed))
  BY HandlersGood, TRUE \in BOOLEAN DEF ChooseRemove, Inv
<1>2. alert' \in Alert /\ alert'.kind # "unlock"
  BY DEF ChooseRemove, NoAlert, Alert
<1>3. Shape'
  BY <1>1, <1>2 DEF ChooseRemove, Inv, Shape, server, list, history
<1>4. Clean => Clean'
  BY <1>1, <1>2 DEF ChooseRemove, Clean, server, list, NoneIn
<1>. QED
  BY <1>1, <1>3, <1>4, Step DEF ChooseRemove, history, Vouched

LEMMA ChooseAddOK ==
    ASSUME Inv, ChooseAdd
    PROVE  Inv'
<1>1. CASE Ask("add")
  BY <1>1, AskOK DEF Kinds
<1>2. CASE /\ alert' = Message
           /\ UNCHANGED <<server, list, queue, screen, ed, calls, people, form, history>>
  BY <1>2, QuietOK DEF Message, Alert, list, Inv, Shape, Clean
<1>. QED
  BY <1>1, <1>2 DEF ChooseAdd

LEMMA ChooseEditOK ==
    ASSUME Inv, ChooseEdit
    PROVE  Inv'
BY AskOK DEF ChooseEdit, Kinds

LEMMA ShareNoteOK ==
    ASSUME Inv, ShareNote
    PROVE  Inv'
BY GoToOK DEF ShareNote, Inv, Shape, Clean

\* "Add Lock" finds no passcode in an account that never had one.
LEMMA AddLockOK ==
    ASSUME Inv, AddLock
    PROVE  Inv'
<1>1. Answered("add") \in [Kinds -> Nat] /\ (Clean => Answered("add")["unlock"] = 0)
  BY CallsOK, "add" \in Kinds, {} \in SUBSET Kinds DEF Kinds, Inv, AddLock, Clean
<1>2. CASE PasscodeIsSet
  <2>1. GoodEd(ed)' /\ ed'.kind = ed.kind
    BY <1>2, LocksGood DEF AddLock, Inv
  <2>2. Shape'
    BY <1>1, <1>2, <2>1 DEF AddLock, Inv, Shape, server, list, history
  <2>3. ~Clean
    BY <1>2, CleanReads DEF PasscodeIsSet, Inv
  <2>. QED
    BY <1>2, <2>1, <2>2, <2>3, Step DEF AddLock, history, Vouched
<1>3. CASE ~PasscodeIsSet
  BY <1>1, <1>3, GoToOK DEF AddLock
<1>. QED
  BY <1>2, <1>3

LEMMA AskPasscodeOK ==
    ASSUME Inv, NEW k \in {"unlock", "edit", "delete"}, AskPasscode(k)
    PROVE  Inv'
<1>1. k \in Kinds /\ k \in {"sheet", "unlock", "edit", "delete"}
  BY DEF Kinds
<1>2. calls[k] > 0 /\ calls' = Answered(k) /\ calls' \in [Kinds -> Nat]
  BY <1>1, CallsOK, {} \in SUBSET Kinds DEF AskPasscode, Inv
<1>3. Clean => calls'["unlock"] = 0 /\ k # "unlock"
  BY <1>1, <1>2, CallsOK, {} \in SUBSET Kinds DEF Inv, Clean
<1>4. [kind |-> k, with |-> CodedSeen] \in Alert
  BY <1>1, SeenTyped DEF Alert, Inv
<1>5. alert' \in Alert /\ (Clean => alert'.kind # "unlock")
  BY <1>3, <1>4 DEF AskPasscode, Present, Inv, Shape, Clean
<1>. QED
  BY <1>2, <1>3, <1>5, QuietOK DEF AskPasscode, list, Inv, Shape, Clean

LEMMA EnterPasscodeOK ==
    ASSUME Inv, EnterPasscode
    PROVE  Inv'
<1>1. alert' \in Alert /\ alert'.kind # "unlock" /\ alert' = NoAlert
  BY DEF EnterPasscode, NoAlert, Alert
<1>2. CASE /\ alert.kind = "unlock" /\ ed' = LockOff(ed)
           /\ UNCHANGED <<server, list, queue, screen, calls, people, form, history>>
  <2>1. GoodEd(ed)' /\ ed'.kind = ed.kind
    BY <1>2, LocksGood DEF Inv
  <2>2. Shape'
    BY <1>1, <1>2, <2>1 DEF Inv, Shape, server, list, history
  <2>. QED
    BY <1>2, <2>1, <2>2, Step DEF Clean, history, Vouched
<1>3. CASE GoTo("passcode", calls)
  BY <1>1, <1>3, GoToOK DEF Inv, Shape, Clean
<1>4. CASE Remove /\ UNCHANGED <<calls, history>>
  BY <1>1, <1>4, RemoveOK
<1>. QED
  BY <1>2, <1>3, <1>4 DEF EnterPasscode

LEMMA DismissOK ==
    ASSUME Inv, Dismiss
    PROVE  Inv'
<1>1. alert' \in Alert /\ alert'.kind # "unlock"
  BY DEF Dismiss, NoAlert, Alert
<1>. QED
  BY <1>1, QuietOK DEF Dismiss, list, Inv, Shape, Clean

LEMMA CheckAnswerOK ==
    ASSUME Inv, CheckAnswer
    PROVE  Inv'
<1>1. CASE ~HereSeen
  BY <1>1, RestartOK DEF CheckAnswer
<1>2. CASE HereSeen
  <2>1. calls' \in [Kinds -> Nat] /\ (Clean => calls'["unlock"] = 0)
    BY <1>2, CallsOK, "check" \in Kinds, {} \in SUBSET Kinds
       DEF Kinds, CheckAnswer, Inv, Clean
  <2>2. SharedSeen \in BOOLEAN
    BY SeenTyped DEF Inv
  <2>3. GoodEd(ed)' /\ ed'.kind = ed.kind /\ (Sure(ed)' => Sure(ed))
    BY <1>2, <2>2, HandlersGood DEF CheckAnswer, Inv
  <2>4. Shape'
    BY <1>2, <2>1, <2>2, <2>3 DEF CheckAnswer, Inv, Shape, server, list, history
  <2>5. Clean => Clean'
    BY <1>2, <2>1, <2>3 DEF CheckAnswer, Clean, server, list, NoneIn
  <2>. QED
    BY <2>3, <2>4, <2>5, Step DEF CheckAnswer, history, Vouched
<1>. QED
  BY <1>1, <1>2

LEMMA LoadAnswerOK ==
    ASSUME Inv, LoadAnswer
    PROVE  Inv'
<1>1. calls' \in [Kinds -> Nat] /\ (Clean => calls'["unlock"] = 0)
  BY CallsOK, "load" \in Kinds, {} \in SUBSET Kinds
     DEF Kinds, LoadAnswer, Inv, Clean
<1>2. people' \in BOOLEAN
  BY SeenTyped DEF LoadAnswer, Inv, Shape
<1>3. GoodEd(ed)' /\ ed'.kind = ed.kind /\ (Sure(ed)' => Sure(ed))
  BY LocksGood, FieldsKeep DEF LoadAnswer, Inv, GoodEd
<1>4. Shape'
  BY <1>1, <1>2, <1>3 DEF LoadAnswer, Inv, Shape, server, list, history
<1>5. Clean => Clean'
  BY <1>1, <1>3 DEF LoadAnswer, Clean, server, list, NoneIn
<1>. QED
  BY <1>3, <1>4, <1>5, Step DEF LoadAnswer, history, Vouched

LEMMA LeaveOK ==
    ASSUME Inv, Leave
    PROVE  Inv'
<1>1. queue' \in Seq(Write) /\ people' \in BOOLEAN /\ (Clean => NoneIn(queue'))
  BY SaveOK DEF Leave
<1>2. GoodEd(ed)' /\ ~Sure(ed)' /\ ed'.kind = "detail"
  BY NewEditorGood DEF Leave, ShowList
<1>3. calls' \in [Kinds -> Nat] /\ calls'["unlock"] = 0
  <2>1. Abandoned \in [Kinds -> Nat] /\ Abandoned["unlock"] = 0
    BY CallsOK, "rows" \in Kinds, {} \in SUBSET Kinds DEF Inv, Kinds
  <2>. QED
    BY <2>1 DEF Leave, ShowList, Kinds
<1>4. Shape'
  BY <1>1, <1>2, <1>3
  DEF Leave, ShowList, Inv, Shape, server, history, Screens, Loading, Alert
<1>5. Clean => Clean'
  BY <1>1, <1>2, <1>3 DEF Leave, ShowList, Clean, server, Loading
<1>. QED
  BY <1>2, <1>4, <1>5, Step DEF Leave, history, Vouched

-----------------------------------------------------------------------------
(* The passcode screen, the share settings, the server and everybody else *)

LEMMA BackOK ==
    ASSUME Inv, Back
    PROVE  Inv'
<1>. DEFINE cs == [calls EXCEPT !["fill"] = 0]
<1>1. cs \in [Kinds -> Nat] /\ cs["unlock"] = calls["unlock"]
  BY DEF Inv, Shape, Kinds
<1>2. Return(cs) /\ UNCHANGED <<server, list, queue, alert, people, form, history>>
  BY DEF Back
<1>. HIDE DEF cs
<1>. QED
  BY <1>1, <1>2, ReturnOK

LEMMA OkStoredOK ==
    ASSUME Inv, OkStored
    PROVE  Inv'
<1>. DEFINE cs == [calls EXCEPT !["fill"] = 0]
<1>1. cs \in [Kinds -> Nat] /\ cs["unlock"] = calls["unlock"]
  BY DEF Inv, Shape, Kinds
<1>2. Return(cs) /\ alert' = NoAlert /\ UNCHANGED <<server, list, queue, people, form, history>>
  BY DEF OkStored
<1>. HIDE DEF cs
<1>. QED
  BY <1>1, <1>2, ReturnOK

LEMMA FillFormOK ==
    ASSUME Inv, FillForm
    PROVE  Inv'
<1>1. calls' \in [Kinds -> Nat] /\ (Clean => calls'["unlock"] = 0)
  BY CallsOK, "fill" \in Kinds, {} \in SUBSET Kinds DEF Kinds, FillForm, Inv, Clean
<1>2. form' \in Forms
  BY DEF FillForm, Inv, Shape, Forms
<1>. QED
  BY <1>1, <1>2, QuietOK DEF FillForm, list, Inv, Shape, Clean

LEMMA TypePasscodeOK ==
    ASSUME Inv, TypePasscode
    PROVE  Inv'
BY QuietOK DEF TypePasscode, list, Inv, Shape, Clean

LEMMA SetPasscodeOK ==
    ASSUME Inv, SetPasscode
    PROVE  Inv'
<1>1. CASE Ask("store")
  BY <1>1, AskOK DEF Kinds
<1>2. CASE /\ alert' = Message
           /\ UNCHANGED <<server, list, queue, screen, ed, calls, people, form, history>>
  BY <1>2, QuietOK DEF Message, Alert, list, Inv, Shape, Clean
<1>. QED
  BY <1>1, <1>2 DEF SetPasscode

\* Whatever is stored vouches: a passcode, or the empty one that slipped in.
LEMMA StorePasscodeOK ==
    ASSUME Inv, StorePasscode
    PROVE  Inv'
<1>1. PICK k \in {"store", "late"} :
         /\ calls[k] > 0 /\ calls' = Answered(k)
         /\ ed' = IF CodedSeen \/ k = "late" THEN ed ELSE AddLockIcon(ed)
  BY DEF StorePasscode
<1>2. calls' \in [Kinds -> Nat]
  BY <1>1, CallsOK, k \in Kinds, {} \in SUBSET Kinds DEF Inv, Kinds
<1>3. GoodEd(ed)' /\ ed'.kind = ed.kind
  BY <1>1, LocksGood DEF Inv
<1>4. [kind |-> "code", to |-> form # "empty"] \in Write
  BY DEF Write
<1>5. queue' \in Seq(Write)
  BY <1>4, SendOK DEF StorePasscode, Inv
<1>6. alert' \in Alert
  BY DEF StorePasscode, Present, Stored, Alert, Inv, Shape
<1>7. wasCoded' \in BOOLEAN /\ slipped' \in BOOLEAN /\ Vouched'
  BY DEF StorePasscode, Inv, Shape, Vouched
<1>8. Shape'
  BY <1>2, <1>3, <1>5, <1>6, <1>7 DEF StorePasscode, Inv, Shape, server, list
<1>. QED
  BY <1>3, <1>7, <1>8, Step

LEMMA PeopleAnswerOK ==
    ASSUME Inv, PeopleAnswer
    PROVE  Inv'
<1>1. CASE ~HereSeen
  BY <1>1, RestartOK DEF PeopleAnswer
<1>2. CASE HereSeen
  <2>1. calls' \in [Kinds -> Nat] /\ (Clean => calls'["unlock"] = 0)
    BY <1>2, CallsOK, "people" \in Kinds, {} \in SUBSET Kinds
    DEF Kinds, PeopleAnswer, Inv, Clean
  <2>2. SharedSeen \in BOOLEAN
    BY SeenTyped DEF Inv
  <2>3. Shape' /\ GoodEd(ed)'
    BY <1>2, <2>1, <2>2 DEF PeopleAnswer, Inv, Shape, server, list, history
  <2>4. Clean => Clean'
    BY <1>2, <2>1 DEF PeopleAnswer, Clean, server, list, NoneIn
  <2>. QED
    BY <2>3, <2>4, Step DEF PeopleAnswer, history, Vouched
<1>. QED
  BY <1>1, <1>2

LEMMA ChangePeopleOK ==
    ASSUME Inv, ChangePeople
    PROVE  Inv'
<1>1. /\ [kind |-> "share", to |-> ~people] \in Write
      /\ ~Proves([kind |-> "share", to |-> ~people])
  BY DEF Write, Proves, Saves
<1>2. queue' \in Seq(Write) /\ (Clean => NoneIn(queue'))
  BY <1>1, SendOK DEF ChangePeople, Inv, Clean
<1>3. Shape' /\ GoodEd(ed)'
  BY <1>2 DEF ChangePeople, Inv, Shape, server, list, history
<1>4. Clean => Clean'
  BY <1>2 DEF ChangePeople, Clean, server, list
<1>. QED
  BY <1>3, <1>4, Step DEF ChangePeople, history, Vouched

LEMMA CommitOK ==
    ASSUME Inv, Commit
    PROVE  Inv'
<1>1. Head(queue) \in Write /\ queue' \in Seq(Write)
  BY CommitQueue DEF Commit, Inv
<1>2. NoneIn(queue) => ~Proves(Head(queue)) /\ NoneIn(queue')
  BY CommitQueue DEF Commit, Inv
<1>. DEFINE w == Head(queue)
<1>3. coded' = IF w.kind = "code" THEN w.to ELSE coded
  BY DEF Commit
<1>4. note' = CASE w.kind = "set" \/ (w.kind = "save" /\ note.here) ->
                     [here |-> TRUE, locked |-> w.locked, shared |-> w.shared, mine |-> TRUE]
                 [] w.kind = "share" /\ note.here -> [note EXCEPT !.shared = w.to]
                 [] w.kind = "delete" -> [note EXCEPT !.here = FALSE]
                 [] OTHER -> note
  BY DEF Commit
<1>. HIDE DEF w
<1>5. w \in Write /\ (NoneIn(queue) => ~Proves(w))
  BY <1>1, <1>2 DEF w
<1>6. note' \in Note /\ (Clean => ~note'.locked)
  <2>1. CASE w.kind \in {"set", "save"}
    BY <1>4, <1>5, <2>1 DEF Write, Note, Inv, Shape, Clean, Proves, Saves
  <2>2. CASE w.kind \in {"share", "delete", "code"}
    BY <1>4, <1>5, <2>2 DEF Write, Note, Inv, Shape, Clean
  <2>. QED
    BY <1>5, <2>1, <2>2 DEF Write
<1>7. coded' \in BOOLEAN /\ (Clean => ~coded')
  BY <1>3, <1>5 DEF Write, Inv, Shape, Clean, Proves
<1>8. Shape' /\ GoodEd(ed)'
  BY <1>1, <1>6, <1>7 DEF Commit, Inv, Shape, list, history
<1>9. Clean => Clean'
  BY <1>2, <1>6, <1>7 DEF Commit, Clean, list
<1>. QED
  BY <1>8, <1>9, Step DEF Commit, history, Vouched

LEMMA ElsewhereOK ==
    ASSUME Inv, Elsewhere
    PROVE  Inv'
<1>1. UNCHANGED <<list, queue, screen, ed, alert, calls, people, form>>
  BY DEF Elsewhere
<1>2. CASE SavedElsewhere
  <2>1. PICK locked \in BOOLEAN, shared \in BOOLEAN :
           /\ note' = [here |-> TRUE, locked |-> locked, shared |-> shared, mine |-> FALSE]
           /\ slipped' = (slipped \/ (locked /\ ~wasCoded))
           /\ UNCHANGED <<coded, wasCoded>>
    BY <1>2 DEF SavedElsewhere
  <2>2. Shape' /\ GoodEd(ed)' /\ (Vouched => Vouched')
    BY <1>1, <2>1 DEF Inv, Shape, Note, list, Vouched
  <2>3. Clean => Clean' \/ Vouched'
    BY <1>1, <2>1 DEF Clean, Vouched, list, NoneIn, Inv, Shape
  <2>. QED
    BY <2>2, <2>3, Step
<1>3. CASE DeletedElsewhere
  <2>1. Shape' /\ GoodEd(ed)' /\ (Vouched => Vouched')
    BY <1>1, <1>3 DEF DeletedElsewhere, Inv, Shape, Note, list, history, Vouched
  <2>2. Clean => Clean'
    BY <1>1, <1>3 DEF DeletedElsewhere, Inv, Shape, Note, Clean, list, NoneIn
  <2>. QED
    BY <2>1, <2>2, Step
<1>4. CASE StoredElsewhere
  <2>1. Shape' /\ GoodEd(ed)' /\ Vouched'
    BY <1>1, <1>4 DEF StoredElsewhere, Inv, Shape, list, Vouched
  <2>. QED
    BY <2>1, Step
<1>. QED
  BY <1>2, <1>3, <1>4 DEF Elsewhere

-----------------------------------------------------------------------------
(* The invariant *)

LEMMA InitOK == Init => LockInv
<1>. SUFFICES ASSUME Init
              PROVE  LockInv
  OBVIOUS
<1>1. GoodEd(ed) /\ ~Sure(ed) /\ ed.kind = "detail"
  BY NewEditorGood DEF Init
<1>2. queue \in Seq(Write) /\ NoneIn(queue)
  BY EmptySeq DEF Init, NoneIn
<1>3. note \in Note /\ coded \in BOOLEAN
  BY DEF Init, Note
<1>4. Shape
  BY <1>1, <1>2, <1>3 DEF Init, Shape, Screens, Rows, Forms, Kinds, Loading, Alert, Note
<1>5. Vouched \/ Clean
  BY <1>1, <1>2, <1>3 DEF Init, Vouched, Clean, Loading, Kinds, Note
<1>6. CountersOK
  BY BoundAssumption DEF Init, CountersOK
<1>. QED
  BY <1>1, <1>4, <1>5, <1>6 DEF LockInv, Inv

LEMMA TapsOK ==
    ASSUME Inv, Lists \/ Bar \/ Sheet \/ Alerts \/ Covers
    PROVE  Inv'
<1>1. CASE Lists
  BY <1>1, TapRowOK, SwipeDeleteOK, AddNoteOK DEF Lists
<1>2. CASE Bar
  BY <1>2, FocusFieldOK, TypeKeeps, VoiceOK, LockNoteOK, AskToUnlockOK, ShareNoteOK, LeaveOK
  DEF Bar
<1>3. CASE Sheet
  BY <1>3, ShowSheetOK, ChooseRemoveOK, ChooseAddOK, ChooseEditOK DEF Sheet
<1>4. CASE Alerts
  BY <1>4, EnterPasscodeOK, DismissOK, OkStoredOK, RestartOK DEF Alerts, DeleteTwice
<1>5. CASE Covers
  BY <1>5, BackOK, TypePasscodeOK, SetPasscodeOK, ChangePeopleOK DEF Covers
<1>. QED
  BY <1>1, <1>2, <1>3, <1>4, <1>5

LEMMA AnswersOK ==
    ASSUME Inv, Answers
    PROVE  Inv'
BY LoadRowsOK, OpenRowOK, AddLockOK, CheckAnswerOK, LoadAnswerOK, FillFormOK,
   StorePasscodeOK, PeopleAnswerOK, AskPasscodeOK DEF Answers

LEMMA NextOK == LockInv /\ [Next]_vars => LockInv'
<1>. SUFFICES ASSUME LockInv, [Next]_vars
              PROVE  LockInv'
  OBVIOUS
<1>1. CASE UNCHANGED vars
  <2>1. Inv'
    BY <1>1 DEF vars, server, list, counters, history, LockInv, Inv, Shape, Vouched, Clean, NoneIn
  <2>. QED
    BY <1>1, <2>1 DEF vars, counters, LockInv, CountersOK
<1>2. CASE /\ Count(taps, MaxTaps)
           /\ Lists \/ Bar \/ Sheet \/ Alerts \/ Covers
           /\ UNCHANGED <<others, crashes>>
  BY <1>2, TapsOK, BoundAssumption DEF LockInv, CountersOK, Count
<1>3. CASE (Answers \/ Reload \/ Dictate \/ Commit) /\ UNCHANGED counters
  BY <1>3, AnswersOK, ReloadOK, DictateOK, CommitOK DEF LockInv, CountersOK, counters
<1>4. CASE Count(others, MaxOthers) /\ Elsewhere /\ UNCHANGED <<taps, crashes>>
  BY <1>4, ElsewhereOK, BoundAssumption DEF LockInv, CountersOK, Count
<1>5. CASE Count(crashes, MaxCrashes) /\ Crash /\ UNCHANGED <<taps, others>>
  BY <1>5, RestartOK, BoundAssumption DEF LockInv, CountersOK, Count, Crash
<1>. QED
  BY <1>1, <1>2, <1>3, <1>4, <1>5 DEF Next

\* The strengthening is an invariant of the specification.
THEOREM Inductive == Spec => []LockInv
BY InitOK, NextOK, PTL DEF Spec

\* Every reachable state has its types.
THEOREM TypeCorrect == Spec => []TypeOK
<1>1. LockInv => TypeOK
  BY DEF LockInv, Inv, Shape, GoodEd, CountersOK, TypeOK
<1>. QED
  BY <1>1, Inductive, PTL

\* In every order of taps, answers and writes from elsewhere, a note with a lock is
\* offered for sharing only if it is known to be shared or something was recorded.
THEOREM LocksExcludeShares == Spec => []LockOrShare
<1>1. LockInv => LockOrShare
  BY DEF LockInv, Inv, GoodEd, LockOrShare
<1>. QED
  BY <1>1, Inductive, PTL

-----------------------------------------------------------------------------
(* Locking in NoteDetail *)

\* Only three steps write history.
LEMMA HistoryKept ==
    ASSUME Next
    PROVE  UNCHANGED history \/ LockNote \/ StorePasscode \/ Elsewhere
<1>1. Lists \/ Sheet \/ Covers => UNCHANGED history
  <2>1. Lists => UNCHANGED history
    BY DEF Lists, TapRow, SwipeDelete, AddNote
  <2>2. Sheet => UNCHANGED history
    BY DEF Sheet, ShowSheet, ChooseRemove, ChooseAdd, ChooseEdit, Ask
  <2>3. Covers => UNCHANGED history
    BY DEF Covers, Back, TypePasscode, SetPasscode, ChangePeople, Ask
  <2>. QED
    BY <2>1, <2>2, <2>3
<1>2. Bar => UNCHANGED history \/ LockNote
  BY DEF Bar, FocusField, Type, Edits, Voice, AskToUnlock, Ask, ShareNote, GoTo, Leave
<1>3. Alerts => UNCHANGED history
  BY DEF Alerts, EnterPasscode, GoTo, DeleteTwice, Dismiss, OkStored
<1>4. Answers => UNCHANGED history \/ StorePasscode
  BY DEF Answers, LoadRows, OpenRow, AddLock, GoTo, CheckAnswer, LoadAnswer, FillForm,
         PeopleAnswer, AskPasscode
<1>5. Reload \/ Dictate \/ Commit \/ Crash => UNCHANGED history
  BY DEF Reload, Dictate, Edits, Commit, Crash
<1>. QED
  BY <1>1, <1>2, <1>3, <1>4, <1>5 DEF Next

\* In every order of alerts, answers and screens, NoteDetail locks a note only in an
\* account that has had a passcode, or in which an empty one slipped in.
THEOREM PasscodeComesFirst == Spec => PasscodeBeforeLock
<1>1. LockInv /\ [Next]_vars
      => (screen = "detail" /\ screen' = "detail" /\ ~ed.lockStatus /\ ed'.lockStatus
          => wasCoded \/ slipped)
  <2>. SUFFICES ASSUME LockInv, [Next]_vars, screen = "detail", screen' = "detail",
                       ~ed.lockStatus, ed'.lockStatus, ~Vouched
                PROVE  FALSE
    BY DEF Vouched
  <2>1. ed' # ed
    OBVIOUS
  <2>2. Next
    BY <2>1 DEF vars
  <2>3. Inv' /\ Clean /\ ~Clean'
    BY NextOK DEF LockInv, Inv, Clean, Sure
  <2>4. Vouched'
    BY <2>3 DEF Inv
  <2>5. CASE UNCHANGED history
    BY <2>4, <2>5 DEF history, Vouched
  <2>6. CASE LockNote
    BY <2>3, <2>6 DEF LockNote, LockInv, Inv, Shape, Clean, Sure, InEditor
  <2>7. CASE StorePasscode
    BY <2>7 DEF StorePasscode, AddLockIcon, LockInv, Inv, GoodEd, Editor
  <2>8. CASE Elsewhere
    BY <2>1, <2>8 DEF Elsewhere
  <2>. QED
    BY <2>2, <2>5, <2>6, <2>7, <2>8, HistoryKept
<1>. QED
  BY <1>1, Inductive, PTL DEF Spec, PasscodeBeforeLock

-----------------------------------------------------------------------------
(* What covers a locked note *)

\* The last unsent save of the note.
LastSave(i) == /\ i \in DOMAIN queue /\ Saves(queue[i])
               /\ \A j \in DOMAIN queue : j > i => ~Saves(queue[j])

NoSaves == \A i \in DOMAIN queue : ~Saves(queue[i])

\* The device has locked the note, as it sees it, and the note can be seen or will
\* be: the last unsent save locks it, or the document does that it saved last.
OwnLock ==
    \/ \E i \in DOMAIN queue : LastSave(i) /\ queue[i].locked
    \/ /\ NoSaves /\ note.locked /\ note.mine /\ note.here
       /\ \A i \in DOMAIN queue : queue[i].kind # "delete"

\* Rows that are older than the lock cannot be touched: a row is asked about in the
\* list only, a row that is gone is not selected, and an open row of a note the
\* device has locked lies below "Loading.." or emptyNoteView, and nobody asks.
Covered ==
    /\ calls["ask"] = 0 \/ (calls["ask"] = 1 /\ screen = "list")
    /\ row = "none" => ~selected
    /\ screen = "list" /\ row = "open" /\ (calls["ask"] > 0 \/ (alert # Loading /\ ~hidden))
       => ~OwnLock
    /\ alert.kind = "stored" => screen = "passcode"

\* What PasscodeFirst says of one step.
FirstStep ==
    /\ HereSeen /\ LockSeen /\ MineSeen
    /\ \/ ~Uncovered /\ Uncovered'
       \/ screen = "list" /\ queue' = Append(queue, Delete)
    => alert.kind \in {"unlock", "delete"}

\* A set of positions that is not empty has a last one.
LEMMA LastOf ==
    ASSUME NEW n \in Nat, NEW S \in SUBSET (1 .. n), S # {}
    PROVE  \E i \in S : \A j \in S : ~(j > i)
<1>. DEFINE T == {n - i : i \in S}
<1>1. T \subseteq Nat /\ T # {}
  <2>1. \A i \in S : n - i \in Nat
    OBVIOUS
  <2>2. PICK i \in S : TRUE
    OBVIOUS
  <2>3. n - i \in T
    OBVIOUS
  <2>. QED
    BY <2>1, <2>3
<1>2. PICK x \in T : \A y \in T : ~(<<y, x>> \in OpToRel(<, Nat))
  <2>. HIDE DEF T
  <2>. QED
    BY <1>1, NatLessThanWellFounded, WFMin, Zenon
<1>3. PICK i \in S : x = n - i
  OBVIOUS
<1>4. ASSUME NEW j \in S, j > i
      PROVE  FALSE
  <2>1. n - j \in T /\ n - j \in Nat /\ n - i \in Nat /\ n - j < n - i
    BY <1>4
  <2>2. <<n - j, x>> \in OpToRel(<, Nat)
    BY <1>3, <2>1 DEF OpToRel
  <2>. QED
    BY <1>2, <2>1, <2>2
<1>. QED
  BY <1>4

LEMMA QueueTyped ==
    ASSUME Shape
    PROVE  /\ queue \in Seq(Write) /\ Len(queue) \in Nat /\ DOMAIN queue = 1 .. Len(queue)
           /\ \A i \in DOMAIN queue : queue[i] \in Write
BY LenProperties DEF Shape

\* Among the unsent saves is a last one.
LEMMA SavesHaveLast ==
    ASSUME Shape, ~NoSaves
    PROVE  \E i \in DOMAIN queue : LastSave(i)
<1>. DEFINE S == {i \in DOMAIN queue : Saves(queue[i])}
<1>1. S \in SUBSET (1 .. Len(queue)) /\ S # {} /\ Len(queue) \in Nat
  BY QueueTyped DEF NoSaves
<1>2. PICK i \in S : \A j \in S : ~(j > i)
  <2>. HIDE DEF S
  <2>. QED
    BY <1>1, LastOf
<1>. QED
  BY <1>2 DEF LastSave

\* What the last unsent save says is what is read.
LEMMA LastSaveRead ==
    ASSUME NEW i \in DOMAIN queue, LastSave(i), Shape
    PROVE  LockSeen = queue[i].locked
<1>1. Newest(Saves) = {queue[i]}
  <2>1. \A j \in DOMAIN queue : LastSave(j) => j = i
    BY QueueTyped DEF LastSave
  <2>2. \A j \in DOMAIN queue :
           Saves(queue[j]) /\ (\A k \in DOMAIN queue : k > j => ~Saves(queue[k])) => j = i
    BY <2>1 DEF LastSave
  <2>. QED
    BY <2>2 DEF Newest, LastSave
<1>2. queue[i].locked \in BOOLEAN
  BY QueueTyped DEF LastSave, Saves, Write
<1>. QED
  BY <1>1, <1>2 DEF LockSeen

LEMMA NoSavesRead ==
    ASSUME Shape, NoSaves
    PROVE  LockSeen = note.locked /\ (MineSeen => note.mine)
<1>1. Newest(Saves) = {}
  BY DEF Newest, NoSaves
<1>2. LockSeen = note.locked
  BY <1>1 DEF LockSeen
<1>. QED
  BY <1>1, <1>2 DEF MineSeen

\* Without a save that is unsent, a note under a deletion is not seen.
LEMMA DeletionRead ==
    ASSUME Shape, NoSaves, HereSeen
    PROVE  note.here /\ \A i \in DOMAIN queue : queue[i].kind # "delete"
<1>. DEFINE S == {i \in DOMAIN queue : queue[i].kind = "delete"}
<1>1. \A i \in DOMAIN queue : queue[i].kind # "set"
  BY DEF NoSaves, Saves
<1>2. S = {}
  <2>. SUFFICES ASSUME S # {}
                PROVE  FALSE
    OBVIOUS
  <2>1. S \in SUBSET (1 .. Len(queue)) /\ Len(queue) \in Nat
    BY QueueTyped
  <2>2. PICK i \in S : \A j \in S : ~(j > i)
    <3>. HIDE DEF S
    <3>. QED
      BY <2>1, LastOf
  <2>3. \A j \in DOMAIN queue : j > i => ~(queue[j].kind \in {"set", "delete"})
    BY <1>1, <2>2
  <2>4. queue[i] \in Newest(LAMBDA w : w.kind \in {"set", "delete"})
    BY <2>2, <2>3 DEF Newest
  <2>5. \A w \in Newest(LAMBDA w : w.kind \in {"set", "delete"}) : w.kind # "set"
    BY <1>1 DEF Newest
  <2>. QED
    BY <2>4, <2>5 DEF HereSeen
<1>3. Newest(LAMBDA w : w.kind \in {"set", "delete"}) = {}
  BY <1>1, <1>2 DEF Newest
<1>. QED
  BY <1>2, <1>3 DEF HereSeen

\* A note that is seen, and seen to be locked by this device, is so by OwnLock.
LEMMA SeenIsOwn ==
    ASSUME Shape, HereSeen, LockSeen, MineSeen
    PROVE  OwnLock
<1>1. CASE NoSaves
  BY <1>1, NoSavesRead, DeletionRead DEF OwnLock
<1>2. CASE ~NoSaves
  BY <1>2, SavesHaveLast, LastSaveRead DEF OwnLock
<1>. QED
  BY <1>1, <1>2

LEMMA OwnIsSeen ==
    ASSUME Shape, OwnLock
    PROVE  LockSeen
<1>1. CASE NoSaves
  BY <1>1, NoSavesRead DEF OwnLock, LastSave, NoSaves
<1>2. CASE ~NoSaves
  BY <1>2, LastSaveRead DEF OwnLock
<1>. QED
  BY <1>1, <1>2

-----------------------------------------------------------------------------
(* Which steps lock the note *)

\* What is no save does not lock it.
LEMMA AppendOwn ==
    ASSUME Shape, NEW w \in Write, w.kind \in {"delete", "share", "code"},
           queue' = Append(queue, w), note' = note
    PROVE  OwnLock' => OwnLock
<1>1. /\ Len(queue) \in Nat /\ Len(queue') = Len(queue) + 1 /\ queue' \in Seq(Write)
      /\ queue'[Len(queue) + 1] = w
      /\ \A i \in 1 .. Len(queue) : queue'[i] = queue[i]
  BY QueueTyped, AppendProperties
<1>2. DOMAIN queue = 1 .. Len(queue) /\ DOMAIN queue' = 1 .. Len(queue) + 1
  BY <1>1, QueueTyped, LenProperties
<1>3. ~Saves(queue'[Len(queue) + 1])
  BY <1>1 DEF Saves
<1>4. ASSUME NEW i \in DOMAIN queue', LastSave(i)', queue'[i].locked
      PROVE  OwnLock
  <2>1. i \in DOMAIN queue /\ queue'[i] = queue[i]
    BY <1>1, <1>2, <1>3, <1>4 DEF LastSave
  <2>2. LastSave(i)
    BY <1>1, <1>2, <1>4, <2>1 DEF LastSave, Saves
  <2>. QED
    BY <1>4, <2>1, <2>2 DEF OwnLock
<1>5. ASSUME NoSaves', note'.locked, note'.mine, note'.here,
             \A i \in DOMAIN queue' : queue'[i].kind # "delete"
      PROVE  OwnLock
  <2>1. NoSaves
    BY <1>1, <1>2, <1>5 DEF NoSaves, Saves
  <2>2. \A i \in DOMAIN queue : queue[i].kind # "delete"
    BY <1>1, <1>2, <1>5
  <2>. QED
    BY <1>5, <2>1, <2>2 DEF OwnLock
<1>. QED
  BY <1>4, <1>5 DEF OwnLock

LEMMA SameOwn ==
    ASSUME UNCHANGED <<note, queue>>
    PROVE  OwnLock' = OwnLock
BY DEF OwnLock, LastSave, NoSaves

\* The server writes what the device has seen all along.
LEMMA CommitOwn ==
    ASSUME Shape, Commit
    PROVE  OwnLock' => OwnLock
<1>1. queue # <<>> /\ queue' = Tail(queue)
  BY DEF Commit
<1>2. /\ Len(queue) \in Nat \ {0} /\ Head(queue) = queue[1] /\ queue' \in Seq(Write)
      /\ Len(queue') = Len(queue) - 1
      /\ \A i \in 1 .. Len(queue) - 1 : queue'[i] = queue[i + 1]
  BY <1>1, QueueTyped, HeadTailProperties, EmptySeq
<1>3. DOMAIN queue = 1 .. Len(queue) /\ DOMAIN queue' = 1 .. Len(queue) - 1
  BY <1>2, QueueTyped, LenProperties
<1>4. ASSUME NEW i \in DOMAIN queue', LastSave(i)', queue'[i].locked
      PROVE  OwnLock
  <2>1. i + 1 \in DOMAIN queue /\ queue[i + 1] = queue'[i]
    BY <1>2, <1>3
  <2>2. ASSUME NEW j \in DOMAIN queue, j > i + 1
        PROVE  ~Saves(queue[j])
    <3>1. j - 1 \in DOMAIN queue' /\ j - 1 > i /\ queue'[j - 1] = queue[j]
      BY <1>2, <1>3, <2>2
    <3>. QED
      BY <1>4, <3>1 DEF LastSave, Saves
  <2>3. Saves(queue[i + 1])
    BY <1>4, <2>1 DEF LastSave, Saves
  <2>4. LastSave(i + 1)
    BY <2>1, <2>2, <2>3 DEF LastSave
  <2>. QED
    BY <1>4, <2>1, <2>4 DEF OwnLock
<1>5. ASSUME NoSaves', note'.locked, note'.mine, note'.here,
             \A i \in DOMAIN queue' : queue'[i].kind # "delete"
      PROVE  OwnLock
  <2>1. ASSUME NEW j \in DOMAIN queue, j # 1
        PROVE  ~Saves(queue[j]) /\ queue[j].kind # "delete"
    <3>1. j - 1 \in DOMAIN queue' /\ queue'[j - 1] = queue[j]
      BY <1>2, <1>3, <2>1
    <3>. QED
      BY <1>5, <3>1 DEF NoSaves, Saves
  <2>. DEFINE w == queue[1]
  <2>2. w \in Write /\ 1 \in DOMAIN queue
    BY <1>2, <1>3, QueueTyped
  <2>3. note' = CASE w.kind = "set" \/ (w.kind = "save" /\ note.here) ->
                       [here |-> TRUE, locked |-> w.locked, shared |-> w.shared,
                        mine |-> TRUE]
                  [] w.kind = "share" /\ note.here -> [note EXCEPT !.shared = w.to]
                  [] w.kind = "delete" -> [note EXCEPT !.here = FALSE]
                  [] OTHER -> note
    BY <1>2 DEF Commit
  <2>4. note \in Note
    BY DEF Shape
  <2>. HIDE DEF w
  <2>5. CASE w.kind = "set" \/ (w.kind = "save" /\ note.here)
    <3>1. w.locked
      BY <1>5, <2>3, <2>5
    <3>2. LastSave(1)
      BY <2>1, <2>2, <2>5 DEF LastSave, Saves, w
    <3>. QED
      BY <2>2, <3>1, <3>2 DEF OwnLock, w
  <2>6. CASE w.kind = "save" /\ ~note.here
    BY <1>5, <2>3, <2>6
  <2>7. CASE w.kind = "delete"
    BY <1>5, <2>3, <2>4, <2>7 DEF Note
  <2>8. CASE w.kind \in {"share", "code"}
    <3>1. note'.locked = note.locked /\ note'.mine = note.mine /\ note'.here = note.here
      BY <2>3, <2>4, <2>8 DEF Note
    <3>2. NoSaves /\ \A i \in DOMAIN queue : queue[i].kind # "delete"
      BY <2>1, <2>8 DEF NoSaves, Saves, w
    <3>. QED
      BY <1>5, <3>1, <3>2 DEF OwnLock
  <2>. QED
    BY <2>2, <2>5, <2>6, <2>7, <2>8 DEF Write
<1>. QED
  BY <1>4, <1>5 DEF OwnLock

\* A note saved elsewhere is locked by others.
LEMMA ElsewhereOwn ==
    ASSUME Shape, Elsewhere
    PROVE  OwnLock' => OwnLock
<1>1. queue' = queue /\ note \in Note
  BY DEF Elsewhere, Shape
<1>2. (NoSaves' => NoSaves) /\ \A i \in DOMAIN queue : LastSave(i)' => LastSave(i)
  BY <1>1 DEF NoSaves, LastSave
<1>3. note'.mine /\ note'.here => note' = note
  BY <1>1 DEF Elsewhere, SavedElsewhere, DeletedElsewhere, StoredElsewhere, Note
<1>. QED
  BY <1>1, <1>2, <1>3 DEF OwnLock

-----------------------------------------------------------------------------
(* Kinds of steps *)

LEMMA NeverAppended ==
    ASSUME Shape
    PROVE  /\ queue # Append(queue, Delete)
           /\ queue # <<>> => Tail(queue) # Append(queue, Delete)
<1>1. Delete \in Write
  BY DEF Delete, Write
<1>2. Len(Append(queue, Delete)) = Len(queue) + 1 /\ Len(queue) \in Nat
  BY <1>1, QueueTyped, AppendProperties
<1>3. queue # <<>> => Len(Tail(queue)) = Len(queue) - 1
  BY QueueTyped, HeadTailProperties
<1>. QED
  BY <1>2, <1>3

\* A step off the list: only an answered alert takes the lock off the editor.
OffList ==
    /\ screen # "list" /\ screen' # "list"
    /\ calls'["ask"] = calls["ask"]
    /\ UNCHANGED <<row, selected>>
    /\ ed'.kind = ed.kind
    /\ ed'.lockStatus \/ ~ed.lockStatus \/ alert.kind = "unlock"
    /\ alert'.kind = "stored" => screen' = "passcode"

LEMMA OffListFirst ==
    ASSUME Covered, OffList
    PROVE  Covered' /\ FirstStep
<1>1. Covered'
  BY DEF Covered, OffList
<1>2. FirstStep
  BY DEF FirstStep, OffList, Uncovered
<1>. QED
  BY <1>1, <1>2

\* A step that stays where it is and neither opens, deletes nor locks.
Stays ==
    /\ UNCHANGED <<screen, list>>
    /\ calls'["ask"] = calls["ask"]
    /\ OwnLock' => OwnLock
    /\ queue' # Append(queue, Delete)
    /\ ed'.kind = ed.kind
    /\ ed'.lockStatus \/ ~ed.lockStatus
    /\ alert' # Loading => alert # Loading
    /\ alert'.kind = "stored" => screen = "passcode"

LEMMA StaysFirst ==
    ASSUME Covered, Stays
    PROVE  Covered' /\ FirstStep
<1>1. Covered'
  BY DEF Covered, Stays, list
<1>2. FirstStep
  BY DEF FirstStep, Stays, Uncovered
<1>. QED
  BY <1>1, <1>2

\* The app starts again with an empty list.
LEMMA RestartFirst ==
    ASSUME Shape, Covered, Restart
    PROVE  Covered' /\ FirstStep
<1>1. /\ screen' = "list" /\ row' = "none" /\ selected' = FALSE /\ calls'["ask"] = 0
      /\ alert'.kind # "stored"
  BY DEF Restart, Kinds, Loading
<1>2. Covered'
  BY <1>1 DEF Covered
<1>3. FirstStep
  BY <1>1, NeverAppended DEF FirstStep, Uncovered, Restart
<1>. QED
  BY <1>2, <1>3

\* Handlers of an editor but LockOff keep its lock.
LEMMA HandlersKeep ==
    ASSUME NEW e \in Editor, NEW b \in BOOLEAN
    PROVE  /\ SetupNavBarUI(e).kind = e.kind /\ SetupNavBarUI(e).lockStatus = e.lockStatus
           /\ SetupNavBarUI(e) \in Editor
           /\ CheckShared(e, b).kind = e.kind /\ CheckShared(e, b).lockStatus = e.lockStatus
           /\ CheckCached(e, b).kind = e.kind /\ CheckCached(e, b).lockStatus = e.lockStatus
           /\ ChangeContent(e, b).kind = e.kind
           /\ ChangeContent(e, b).lockStatus = e.lockStatus
           /\ ToggleVoice(e).kind = e.kind /\ ToggleVoice(e).lockStatus = e.lockStatus
           /\ AddLockIcon(e).kind = e.kind /\ AddLockIcon(e).lockStatus = e.lockStatus
           /\ RemoveLock(e).kind = e.kind /\ RemoveLock(e).lockStatus = e.lockStatus
<1>1. /\ SetupNavBarUI(e).kind = e.kind /\ SetupNavBarUI(e).lockStatus = e.lockStatus
      /\ SetupNavBarUI(e) \in Editor
  BY DEF SetupNavBarUI, Editor, Bars
<1>2. /\ CheckShared(e, b).kind = e.kind /\ CheckShared(e, b).lockStatus = e.lockStatus
      /\ CheckCached(e, b).kind = e.kind /\ CheckCached(e, b).lockStatus = e.lockStatus
  BY DEF CheckShared, CheckCached, Editor
<1>3. /\ ChangeContent(e, b).kind = e.kind
      /\ ChangeContent(e, b).lockStatus = e.lockStatus
      /\ ToggleVoice(e).kind = e.kind /\ ToggleVoice(e).lockStatus = e.lockStatus
  BY DEF ChangeContent, ToggleVoice, Editor
<1>4. /\ AddLockIcon(e).kind = e.kind /\ AddLockIcon(e).lockStatus = e.lockStatus
      /\ RemoveLock(e).kind = e.kind /\ RemoveLock(e).lockStatus = e.lockStatus
  BY DEF AddLockIcon, RemoveLock, Editor
<1>. QED
  BY <1>1, <1>2, <1>3, <1>4

LEMMA SwitchFieldKeeps ==
    ASSUME NEW e \in Editor, NEW b \in BOOLEAN
    PROVE  /\ SwitchField(e, b).kind = e.kind /\ SwitchField(e, b).lockStatus = e.lockStatus
           /\ SwitchField(e, b) \in Editor
<1>. DEFINE f == [e EXCEPT !.isRecord = FALSE, !.hasLock = FALSE, !.focused = TRUE]
<1>1. f \in Editor /\ f.kind = e.kind /\ f.lockStatus = e.lockStatus
  BY DEF Editor
<1>2. SwitchField(e, b) = IF e.kind = "detail" THEN [f EXCEPT !.bar = "none"]
                          ELSE [CheckCached(f, b) EXCEPT !.bar = "none"]
  BY DEF SwitchField
<1>. HIDE DEF f
<1>3. CASE e.kind = "detail"
  BY <1>1, <1>2, <1>3 DEF Editor, Bars
<1>4. CASE e.kind # "detail"
  <2>. DEFINE g == CheckCached(f, b)
  <2>1. g.kind = f.kind /\ g.lockStatus = f.lockStatus
    BY <1>1, HandlersKeep
  <2>2. g \in Editor
    <3>. DEFINE x == [f EXCEPT !.isShared = b, !.lockBtn = ~b /\ f.filled]
    <3>1. x \in Editor
      BY <1>1 DEF Editor
    <3>2. g = [x EXCEPT !.shareBtn = b \/ (f.filled /\ ~f.hasLock), !.bar = "unlock"]
      BY <1>1 DEF CheckCached, Editor
    <3>. HIDE DEF x, g
    <3>. QED
      BY <3>1, <3>2 DEF Editor, Bars
  <2>. HIDE DEF g
  <2>3. SwitchField(e, b) = [g EXCEPT !.bar = "none"]
    BY <1>2, <1>4 DEF g
  <2>. QED
    BY <1>1, <2>1, <2>2, <2>3 DEF Editor, Bars
<1>. QED
  BY <1>3, <1>4

LEMMA AppearKeeps ==
    ASSUME NEW e \in Editor, people \in BOOLEAN, AppearDetail(e)
    PROVE  ed'.kind = e.kind /\ ed'.lockStatus = e.lockStatus
<1>1. PICK focus \in BOOLEAN :
         ed' = IF focus /\ ~e.lockStatus THEN SwitchField(SetupNavBarUI(e), people)
               ELSE SetupNavBarUI(e)
  BY DEF AppearDetail
<1>2. /\ SetupNavBarUI(e) \in Editor /\ SetupNavBarUI(e).kind = e.kind
      /\ SetupNavBarUI(e).lockStatus = e.lockStatus
  BY HandlersKeep
<1>. QED
  BY <1>1, <1>2, SwitchFieldKeeps

LEMMA AppearCreateKeeps ==
    ASSUME NEW e \in Editor, people \in BOOLEAN, NEW focus \in BOOLEAN,
           ed' = CheckCached(IF focus THEN SwitchField(e, people) ELSE e, people)
    PROVE  ed'.kind = e.kind /\ ed'.lockStatus = e.lockStatus
<1>. DEFINE f == IF focus THEN SwitchField(e, people) ELSE e
<1>1. f \in Editor /\ f.kind = e.kind /\ f.lockStatus = e.lockStatus
  BY SwitchFieldKeeps
<1>2. ed' = CheckCached(f, people)
  OBVIOUS
<1>. HIDE DEF f
<1>. QED
  BY <1>1, <1>2, HandlersKeep

\* The counts of the requests for a row.
LEMMA AsksKept ==
    ASSUME Shape, NEW ks \in SUBSET Kinds, NEW k \in Kinds
    PROVE  /\ "ask" \notin ks => Pend(ks)["ask"] = calls["ask"]
           /\ k # "ask" => Answered(k)["ask"] = calls["ask"]
           /\ Abandoned["ask"] = 0
           /\ [calls EXCEPT !["fill"] = 0]["ask"] = calls["ask"]
BY DEF Shape, Pend, Answered, Abandoned, Kinds

\* What is presented is not "Loading..".
LEMMA PresentKeeps ==
    ASSUME NEW a, a # Loading, a.kind # "stored" \/ screen = "passcode", Present(a), Covered
    PROVE  /\ alert' # Loading => alert # Loading
           /\ alert'.kind = "stored" => screen = "passcode"
BY DEF Present, NoAlert, Loading, Covered

\* Nothing is appended where the queue is kept.
LEMMA QueueKept ==
    ASSUME Shape, UNCHANGED <<note, queue>>
    PROVE  queue' # Append(queue, Delete) /\ (OwnLock' => OwnLock)
BY NeverAppended, SameOwn

\* On to the passcode screen or the share settings.
LEMMA GoToFirst ==
    ASSUME Inv, Covered, NEW s \in {"passcode", "share"}, NEW cs \in [Kinds -> Nat],
           cs["ask"] = calls["ask"], GoTo(s, cs), alert' = NoAlert \/ alert' = alert
    PROVE  Covered' /\ FirstStep
<1>1. screen # "list" /\ screen' = s /\ alert.kind # "stored"
  BY DEF GoTo, Inv, GoodEd, Editor, Covered
<1>2. calls'["ask"] = calls["ask"]
  BY DEF GoTo, Kinds
<1>3. ed'.kind = ed.kind /\ ed'.lockStatus = ed.lockStatus
  BY DEF GoTo, Inv, GoodEd, Editor
<1>4. OffList
  BY <1>1, <1>2, <1>3 DEF OffList, GoTo, list, NoAlert
<1>. QED
  BY <1>4, OffListFirst

\* Back to the editor.
LEMMA ReturnFirst ==
    ASSUME Inv, Covered, NEW cs \in [Kinds -> Nat], cs["ask"] = calls["ask"], Return(cs),
           screen # "list", alert' = NoAlert, UNCHANGED <<row, selected>>
    PROVE  Covered' /\ FirstStep
<1>1. ed \in Editor /\ people \in BOOLEAN
  BY DEF Inv, Shape, GoodEd
<1>2. screen' # "list"
  BY <1>1 DEF Return, Editor
<1>3. ed'.kind = ed.kind /\ ed'.lockStatus = ed.lockStatus
  <2>1. CASE ed.kind = "detail"
    BY <1>1, <2>1, AppearKeeps DEF Return
  <2>2. CASE ed.kind # "detail"
    <3>1. PICK focus \in BOOLEAN :
             ed' = CheckCached(IF focus THEN SwitchField(ed, people) ELSE ed, people)
      BY <2>2 DEF Return
    <3>. QED
      BY <1>1, <3>1, AppearCreateKeeps
  <2>. QED
    BY <2>1, <2>2
<1>4. calls'["ask"] = calls["ask"]
  BY DEF Return, Kinds
<1>5. OffList
  BY <1>2, <1>3, <1>4 DEF OffList, NoAlert
<1>. QED
  BY <1>5, OffListFirst

-----------------------------------------------------------------------------
(* Each action, in the list *)

LEMMA ReloadFirst ==
    ASSUME Inv, Covered, Reload
    PROVE  Covered' /\ FirstStep
<1>1. calls'["ask"] = calls["ask"]
  BY AsksKept, {"rows"} \in SUBSET Kinds, "rows" \in Kinds DEF Reload, Inv, Kinds
<1>2. UNCHANGED <<screen, list, note, queue, ed>>
  BY DEF Reload, server
<1>3. /\ alert' # Loading => alert # Loading
      /\ alert'.kind = "stored" => screen = "passcode"
  BY DEF Reload, Present, Loading, NoAlert, Covered
<1>4. Stays
  BY <1>1, <1>2, <1>3, QueueKept DEF Stays, Inv
<1>. QED
  BY <1>4, StaysFirst

\* A row that is loaded knows the lock.
LEMMA LoadRowsFirst ==
    ASSUME Inv, Covered, LoadRows
    PROVE  Covered' /\ FirstStep
<1>1. calls'["ask"] = calls["ask"]
  BY AsksKept, {} \in SUBSET Kinds, "rows" \in Kinds DEF LoadRows, Inv, Kinds
<1>2. UNCHANGED <<screen, note, queue, ed>> /\ alert' = NoAlert
  BY DEF LoadRows, server
<1>3. OwnLock' => OwnLock /\ LockSeen
  BY <1>2, QueueKept, OwnIsSeen DEF Inv
<1>4. HereSeen => Covered'
  BY <1>1, <1>2, <1>3 DEF LoadRows, Covered, NoAlert
<1>5. ~HereSeen => Covered'
  BY <1>1, <1>2, <1>3 DEF LoadRows, Covered, NoAlert
<1>6. FirstStep
  BY <1>2, QueueKept DEF FirstStep, Uncovered, Inv
<1>. QED
  BY <1>4, <1>5, <1>6

LEMMA TapRowFirst ==
    ASSUME Inv, Covered, TapRow
    PROVE  Covered' /\ FirstStep
<1>1. UNCHANGED <<screen, row, hidden, note, queue, ed, alert>> /\ selected' = TRUE
  BY DEF TapRow, server
<1>2. screen = "list" /\ alert # Loading /\ ~hidden /\ row # "none"
  BY DEF TapRow, MayTouch, NoAlert, Loading
<1>5. calls'["ask"] = 1
  BY DEF TapRow, Pend, Kinds
<1>3. Covered'
  BY <1>1, <1>2, <1>5, QueueKept DEF Covered, Inv
<1>4. FirstStep
  BY <1>1, QueueKept DEF FirstStep, Uncovered, Inv
<1>. QED
  BY <1>3, <1>4

\* An open row that is opened belongs to a note this device has not locked.
LEMMA OpenRowFirst ==
    ASSUME Inv, Covered, OpenRow
    PROVE  Covered' /\ FirstStep
<1>1. calls["ask"] = 1 /\ screen = "list"
  BY DEF OpenRow, Covered
<1>2. CASE Restart
  BY <1>2, RestartFirst DEF Inv
<1>3. CASE /\ Present(Message) /\ calls' = Answered("ask")
           /\ UNCHANGED <<server, list, queue, screen, ed, people, form>>
  <2>1. calls'["ask"] = 0
    BY <1>1, <1>3 DEF Answered, Inv, Shape, Kinds
  <2>2. UNCHANGED <<screen, row, selected, hidden, note, queue, ed>>
    BY <1>3 DEF server, list
  <2>3. /\ alert' # Loading => alert # Loading
        /\ alert'.kind = "stored" => screen = "passcode"
    BY <1>3, PresentKeeps DEF Message, Loading
  <2>4. Covered'
    BY <1>1, <2>1, <2>2, <2>3, QueueKept DEF Covered, Inv
  <2>5. FirstStep
    BY <2>2, QueueKept DEF FirstStep, Uncovered, Inv
  <2>. QED
    BY <2>4, <2>5
<1>4. CASE /\ HereSeen /\ selected
           /\ screen' = "detail"
           /\ AppearDetail(NewEditor("detail", row = "locked"))
           /\ calls' = [Pend({"check", "load"}) EXCEPT !["ask"] = @ - 1]
           /\ UNCHANGED <<server, list, queue, alert, people, form>>
  <2>1. ed'.kind = "detail" /\ (row = "locked" => ed'.lockStatus)
    <3>. DEFINE e == NewEditor("detail", row = "locked")
    <3>1. e \in Editor /\ e.kind = "detail" /\ e.lockStatus = (row = "locked")
      BY DEF NewEditor, Editor, Bars
    <3>2. AppearDetail(e) /\ people \in BOOLEAN
      BY <1>4 DEF Inv, Shape
    <3>. HIDE DEF e
    <3>. QED
      BY <3>1, <3>2, AppearKeeps
  <2>2. calls'["ask"] = 0
    <3>1. Pend({"check", "load"})["ask"] = calls["ask"]
      BY AsksKept, {"check", "load"} \in SUBSET Kinds, "ask" \in Kinds DEF Kinds, Inv
    <3>2. calls'["ask"] = calls["ask"] - 1
      BY <1>4, <3>1 DEF Pend, Kinds
    <3>. QED
      BY <1>1, <3>1, <3>2
  <2>3. /\ row \in Rows /\ row # "none" /\ row' = row /\ selected' = selected
        /\ alert' = alert /\ alert.kind # "stored" /\ queue' = queue
    BY <1>1, <1>4 DEF Covered, Inv, Shape, list
  <2>4. Covered'
    BY <1>4, <2>2, <2>3 DEF Covered
  <2>5. row = "open" => ~OwnLock
    BY <1>1, <2>3 DEF Covered
  <2>6. FirstStep
    BY <2>1, <2>3, <2>5, SeenIsOwn, QueueKept, NeverAppended DEF FirstStep, Uncovered, Rows, Inv
  <2>. QED
    BY <2>4, <2>6
<1>. QED
  BY <1>2, <1>3, <1>4 DEF OpenRow

\* A row is deleted when it is open, or when the alert has been answered.
LEMMA RemoveFirst ==
    ASSUME Inv, Covered, Remove, calls'["ask"] = calls["ask"], alert'.kind # "stored",
           \/ alert.kind = "delete"
           \/ screen = "list" /\ row = "open" /\ alert # Loading /\ ~hidden
    PROVE  Covered' /\ FirstStep
<1>1. UNCHANGED <<screen, ed>> /\ row' = "none" /\ selected' = FALSE
  BY DEF Remove
<1>2. Covered'
  BY <1>1 DEF Covered
<1>3. FirstStep
  BY <1>1, SeenIsOwn DEF FirstStep, Uncovered, Inv, Covered
<1>. QED
  BY <1>2, <1>3

LEMMA SwipeDeleteFirst ==
    ASSUME Inv, Covered, SwipeDelete
    PROVE  Covered' /\ FirstStep
<1>1. /\ screen = "list" /\ alert # Loading /\ ~hidden /\ row # "none"
      /\ alert' = alert /\ alert.kind # "stored"
  BY DEF SwipeDelete, MayTouch, NoAlert, Loading
<1>2. CASE row = "open"
  <2>1. Remove /\ calls' = calls
    BY <1>2 DEF SwipeDelete
  <2>. QED
    BY <1>1, <1>2, <2>1, RemoveFirst
<1>3. CASE row # "open"
  <2>1. UNCHANGED <<screen, row, hidden, note, queue, ed>> /\ selected' = FALSE
    BY <1>3 DEF SwipeDelete, server
  <2>2. calls'["ask"] = calls["ask"]
    BY <1>3, AsksKept, {"delete"} \in SUBSET Kinds, "delete" \in Kinds
    DEF SwipeDelete, Inv, Kinds
  <2>3. Covered'
    BY <1>1, <1>3, <2>1, <2>2 DEF Covered
  <2>4. FirstStep
    BY <2>1, QueueKept DEF FirstStep, Uncovered, Inv
  <2>. QED
    BY <2>3, <2>4
<1>. QED
  BY <1>2, <1>3

LEMMA AddNoteFirst ==
    ASSUME Inv, Covered, AddNote
    PROVE  Covered' /\ FirstStep
<1>1. /\ screen' = "create" /\ calls["ask"] = 0 /\ calls' = calls
      /\ UNCHANGED <<row, selected, note, queue, alert>> /\ alert.kind # "stored"
  BY DEF AddNote, server, list, MayTouch, NoAlert
<1>2. ed'.kind = "create"
  <2>. DEFINE e == NewEditor("create", FALSE)
  <2>1. PICK focus \in BOOLEAN :
           ed' = CheckCached(IF focus THEN SwitchField(e, people) ELSE e, people)
    BY DEF AddNote
  <2>2. e \in Editor /\ e.kind = "create" /\ people \in BOOLEAN
    BY DEF NewEditor, Editor, Bars, Inv, Shape
  <2>. HIDE DEF e
  <2>. QED
    BY <2>1, <2>2, AppearCreateKeeps
<1>3. Covered'
  BY <1>1 DEF Covered
<1>4. FirstStep
  BY <1>1, <1>2, QueueKept DEF FirstStep, Uncovered, Inv
<1>. QED
  BY <1>3, <1>4

-----------------------------------------------------------------------------
(* Each action, in the editors *)

LEMMA InEditorOff ==
    ASSUME Inv, InEditor
    PROVE  /\ ed \in Editor /\ people \in BOOLEAN
           /\ screen # "list" /\ screen # "passcode" /\ alert = NoAlert
BY DEF InEditor, Inv, Shape, GoodEd, Editor

\* A handler of the editor on the screen that keeps its lock.
LEMMA HandlerFirst ==
    ASSUME Inv, Covered, InEditor, UNCHANGED <<list, screen>>, calls'["ask"] = calls["ask"],
           ed'.kind = ed.kind, ed'.lockStatus \/ ~ed.lockStatus, alert'.kind # "stored"
    PROVE  Covered' /\ FirstStep
<1>1. OffList
  BY InEditorOff DEF OffList, list
<1>. QED
  BY <1>1, OffListFirst

LEMMA FocusFieldFirst ==
    ASSUME Inv, Covered, FocusField
    PROVE  Covered' /\ FirstStep
<1>1. InEditor /\ ed' = SwitchField(ed, people) /\ UNCHANGED <<list, screen, alert>>
  BY DEF FocusField
<1>2. calls'["ask"] = calls["ask"]
  BY AsksKept, {"check"} \in SUBSET Kinds, "check" \in Kinds DEF FocusField, Inv, Kinds
<1>3. ed'.kind = ed.kind /\ ed'.lockStatus = ed.lockStatus
  BY <1>1, InEditorOff, SwitchFieldKeeps
<1>. QED
  BY <1>1, <1>2, <1>3, HandlerFirst, InEditorOff DEF NoAlert

LEMMA TypeFirst ==
    ASSUME Inv, Covered, Type
    PROVE  Covered' /\ FirstStep
<1>1. PICK filled \in BOOLEAN : Edits(ChangeContent(ed, filled))
  BY DEF Type
<1>2. InEditor /\ UNCHANGED <<list, screen, alert, calls>>
  BY <1>1 DEF Type, Edits
<1>3. ed'.kind = ed.kind /\ ed'.lockStatus = ed.lockStatus
  BY <1>1, <1>2, InEditorOff, HandlersKeep DEF Edits
<1>. QED
  BY <1>2, <1>3, HandlerFirst, InEditorOff DEF NoAlert

LEMMA VoiceFirst ==
    ASSUME Inv, Covered, Voice
    PROVE  Covered' /\ FirstStep
<1>1. InEditor /\ ed' = ToggleVoice(ed) /\ UNCHANGED <<list, screen, alert, calls>>
  BY DEF Voice, Edits
<1>2. ed'.kind = ed.kind /\ ed'.lockStatus = ed.lockStatus
  BY <1>1, InEditorOff, HandlersKeep, TRUE \in BOOLEAN
<1>. QED
  BY <1>1, <1>2, HandlerFirst, InEditorOff DEF NoAlert

LEMMA DictateFirst ==
    ASSUME Inv, Covered, Dictate
    PROVE  Covered' /\ FirstStep
<1>1. InEditor /\ ed' = [ed EXCEPT !.filled = TRUE] /\ UNCHANGED <<list, screen, alert, calls>>
  BY DEF Dictate, Edits
<1>2. ed'.kind = ed.kind /\ ed'.lockStatus = ed.lockStatus
  BY <1>1, InEditorOff DEF Editor
<1>. QED
  BY <1>1, <1>2, HandlerFirst, InEditorOff DEF NoAlert

LEMMA LockNoteFirst ==
    ASSUME Inv, Covered, LockNote
    PROVE  Covered' /\ FirstStep
<1>1. InEditor /\ UNCHANGED <<list, screen, calls>> /\ alert'.kind # "stored"
  BY DEF LockNote, Present, InEditor, NoAlert, Message
<1>2. ed'.kind = ed.kind /\ (ed'.lockStatus \/ ~ed.lockStatus)
  <2>1. ed' = LockOn(ed) \/ ed' = ed
    BY DEF LockNote
  <2>2. LockOn(ed).kind = ed.kind /\ LockOn(ed).lockStatus
    BY <1>1, InEditorOff DEF LockOn, Editor
  <2>3. ed.lockStatus \in BOOLEAN
    BY <1>1, InEditorOff DEF Editor
  <2>. QED
    BY <2>1, <2>2, <2>3
<1>. QED
  BY <1>1, <1>2, HandlerFirst

LEMMA AskToUnlockFirst ==
    ASSUME Inv, Covered, AskToUnlock
    PROVE  Covered' /\ FirstStep
<1>1. InEditor /\ UNCHANGED <<list, screen, ed>> /\ alert'.kind # "stored"
  BY DEF AskToUnlock, Ask, NoAlert
<1>2. calls'["ask"] = calls["ask"]
  BY AsksKept, {"unlock"} \in SUBSET Kinds, "unlock" \in Kinds DEF AskToUnlock, Ask, Inv, Kinds
<1>3. ed.lockStatus \in BOOLEAN
  BY <1>1, InEditorOff DEF Editor
<1>. QED
  BY <1>1, <1>2, <1>3, HandlerFirst

LEMMA ShareNoteFirst ==
    ASSUME Inv, Covered, ShareNote
    PROVE  Covered' /\ FirstStep
BY GoToFirst DEF ShareNote, Inv, Shape

\* The list comes back behind "Loading..".
LEMMA LeaveFirst ==
    ASSUME Inv, Covered, Leave
    PROVE  Covered' /\ FirstStep
<1>1. /\ screen' = "list" /\ alert' = Loading /\ UNCHANGED <<row, selected>>
      /\ screen # "list"
  BY InEditorOff DEF Leave, ShowList
<1>2. calls'["ask"] = 0
  BY AsksKept, {} \in SUBSET Kinds, "rows" \in Kinds DEF Leave, ShowList, Inv, Abandoned, Kinds
<1>3. Covered'
  BY <1>1, <1>2 DEF Covered, Loading
<1>4. FirstStep
  BY <1>1 DEF FirstStep, Uncovered
<1>. QED
  BY <1>3, <1>4

LEMMA ShowSheetFirst ==
    ASSUME Inv, Covered, ShowSheet
    PROVE  Covered' /\ FirstStep
<1>1. InEditor /\ UNCHANGED <<list, screen, ed, calls>> /\ alert'.kind # "stored"
  BY DEF ShowSheet, Present, InEditor
<1>2. ed.lockStatus \in BOOLEAN
  BY <1>1, InEditorOff DEF Editor
<1>. QED
  BY <1>1, <1>2, HandlerFirst

-----------------------------------------------------------------------------
(* Each action, in alerts and callbacks *)

\* A step that keeps the note and the queue, wherever it happens.
LEMMA KeepsFirst ==
    ASSUME Inv, Covered, UNCHANGED <<screen, list, note, queue>>,
           calls'["ask"] = calls["ask"],
           ed'.kind = ed.kind, ed'.lockStatus = ed.lockStatus,
           alert' # Loading => alert # Loading,
           alert'.kind = "stored" => screen = "passcode"
    PROVE  Covered' /\ FirstStep
<1>1. ed.lockStatus \in BOOLEAN
  BY DEF Inv, GoodEd, Editor
<1>2. Stays
  BY <1>1, QueueKept DEF Stays, Inv
<1>. QED
  BY <1>2, StaysFirst

\* One that also keeps the editor and the counts but for one.
LEMMA AskFirst ==
    ASSUME Inv, Covered, NEW k \in Kinds, k # "ask", Ask(k), alert # Loading
    PROVE  Covered' /\ FirstStep
<1>1. UNCHANGED <<screen, list, note, queue, ed>> /\ alert' = NoAlert
  BY DEF Ask, server
<1>2. calls'["ask"] = calls["ask"]
  BY AsksKept, {k} \in SUBSET Kinds DEF Ask, Inv
<1>. QED
  BY <1>1, <1>2, KeepsFirst DEF NoAlert

LEMMA ChooseRemoveFirst ==
    ASSUME Inv, Covered, ChooseRemove
    PROVE  Covered' /\ FirstStep
<1>1. /\ UNCHANGED <<screen, list, note, queue, calls>> /\ alert' = NoAlert
      /\ ed' = RemoveLock(ed) /\ alert # Loading
  BY DEF ChooseRemove, server, Loading
<1>2. ed'.kind = ed.kind /\ ed'.lockStatus = ed.lockStatus
  BY <1>1, HandlersKeep, TRUE \in BOOLEAN DEF Inv, GoodEd
<1>. QED
  BY <1>1, <1>2, KeepsFirst DEF NoAlert

LEMMA ChooseAddFirst ==
    ASSUME Inv, Covered, ChooseAdd
    PROVE  Covered' /\ FirstStep
<1>1. alert # Loading
  BY DEF ChooseAdd, Loading
<1>2. CASE Ask("add")
  BY <1>1, <1>2, AskFirst, "add" \in Kinds DEF Kinds
<1>3. CASE /\ alert' = Message
           /\ UNCHANGED <<server, list, queue, screen, ed, calls, people, form, history>>
  BY <1>1, <1>3, KeepsFirst DEF server, Message
<1>. QED
  BY <1>2, <1>3 DEF ChooseAdd

LEMMA ChooseEditFirst ==
    ASSUME Inv, Covered, ChooseEdit
    PROVE  Covered' /\ FirstStep
BY AskFirst, "edit" \in Kinds DEF ChooseEdit, Loading, Kinds

LEMMA AddLockFirst ==
    ASSUME Inv, Covered, AddLock
    PROVE  Covered' /\ FirstStep
<1>1. alert' = alert /\ Answered("add") \in [Kinds -> Nat] /\ Answered("add")["ask"] = calls["ask"]
  BY AsksKept, CallsOK, {} \in SUBSET Kinds, "add" \in Kinds DEF AddLock, Inv, Kinds
<1>2. CASE GoTo("passcode", Answered("add"))
  BY <1>1, <1>2, GoToFirst
<1>3. CASE /\ ed' = AddLockIcon(ed) /\ calls' = Answered("add")
           /\ UNCHANGED <<server, list, queue, screen, people, form, history>>
  <2>1. ed'.kind = ed.kind /\ ed'.lockStatus = ed.lockStatus
    BY <1>3, HandlersKeep, TRUE \in BOOLEAN DEF Inv, GoodEd
  <2>. QED
    BY <1>1, <1>3, <2>1, KeepsFirst DEF server, Covered
<1>. QED
  BY <1>2, <1>3 DEF AddLock

LEMMA AskPasscodeFirst ==
    ASSUME Inv, Covered, NEW k \in {"unlock", "edit", "delete"}, AskPasscode(k)
    PROVE  Covered' /\ FirstStep
<1>1. UNCHANGED <<screen, list, note, queue, ed>>
  BY DEF AskPasscode, server
<1>2. calls'["ask"] = calls["ask"]
  BY AsksKept, {} \in SUBSET Kinds, k \in Kinds DEF AskPasscode, Inv, Kinds
<1>3. [kind |-> k, with |-> CodedSeen].kind # "stored" /\ [kind |-> k, with |-> CodedSeen] # Loading
  BY DEF Loading
<1>4. /\ alert' # Loading => alert # Loading
      /\ alert'.kind = "stored" => screen = "passcode"
  BY <1>3, PresentKeeps DEF AskPasscode, Covered
<1>. QED
  BY <1>1, <1>2, <1>4, KeepsFirst

\* The right passcode is the one way round.
LEMMA EnterPasscodeFirst ==
    ASSUME Inv, Covered, EnterPasscode
    PROVE  Covered' /\ FirstStep
<1>1. alert' = NoAlert
  BY DEF EnterPasscode
<1>2. CASE /\ alert.kind = "unlock"
           /\ ed' = LockOff(ed)
           /\ UNCHANGED <<server, list, queue, screen, calls, people, form, history>>
  <2>1. FirstStep
    BY <1>2 DEF FirstStep
  <2>2. OwnLock' => OwnLock
    BY <1>2, SameOwn DEF server
  <2>3. UNCHANGED <<screen, row, selected, hidden, calls>> /\ alert # Loading
        /\ alert'.kind # "stored"
    BY <1>1, <1>2 DEF list, Loading, NoAlert
  <2>4. Covered'
    BY <2>2, <2>3 DEF Covered
  <2>. QED
    BY <2>1, <2>4
<1>3. CASE GoTo("passcode", calls)
  BY <1>1, <1>3, GoToFirst DEF Inv, Shape
<1>4. CASE alert.kind = "delete" /\ Remove /\ UNCHANGED <<calls, history>>
  BY <1>1, <1>4, RemoveFirst DEF NoAlert
<1>. QED
  BY <1>2, <1>3, <1>4 DEF EnterPasscode

LEMMA DismissFirst ==
    ASSUME Inv, Covered, Dismiss
    PROVE  Covered' /\ FirstStep
BY KeepsFirst DEF Dismiss, server, NoAlert, Loading

LEMMA CheckAnswerFirst ==
    ASSUME Inv, Covered, CheckAnswer
    PROVE  Covered' /\ FirstStep
<1>1. CASE Restart
  BY <1>1, RestartFirst DEF Inv
<1>2. CASE /\ ed' = CheckShared(ed, SharedSeen)
           /\ calls' = Answered("check")
           /\ UNCHANGED <<server, list, queue, screen, alert, form>>
  <2>1. ed'.kind = ed.kind /\ ed'.lockStatus = ed.lockStatus
    BY <1>2, SeenTyped, HandlersKeep DEF Inv, GoodEd
  <2>2. calls'["ask"] = calls["ask"]
    BY <1>2, AsksKept, {} \in SUBSET Kinds, "check" \in Kinds DEF Inv, Kinds
  <2>. QED
    BY <1>2, <2>1, <2>2, KeepsFirst DEF server, Covered
<1>. QED
  BY <1>1, <1>2 DEF CheckAnswer

LEMMA LoadAnswerFirst ==
    ASSUME Inv, Covered, LoadAnswer
    PROVE  Covered' /\ FirstStep
<1>1. ed'.kind = ed.kind /\ ed'.lockStatus = ed.lockStatus
  BY DEF LoadAnswer, Inv, GoodEd, Editor
<1>2. calls'["ask"] = calls["ask"]
  BY AsksKept, {} \in SUBSET Kinds, "load" \in Kinds DEF LoadAnswer, Inv, Kinds
<1>. QED
  BY <1>1, <1>2, KeepsFirst DEF LoadAnswer, server, Covered

LEMMA PeopleAnswerFirst ==
    ASSUME Inv, Covered, PeopleAnswer
    PROVE  Covered' /\ FirstStep
<1>1. CASE Restart
  BY <1>1, RestartFirst DEF Inv
<1>2. CASE /\ calls' = Answered("people")
           /\ UNCHANGED <<server, list, queue, screen, ed, alert, form>>
  <2>1. calls'["ask"] = calls["ask"]
    BY <1>2, AsksKept, {} \in SUBSET Kinds, "people" \in Kinds DEF Inv, Kinds
  <2>. QED
    BY <1>2, <2>1, KeepsFirst DEF server, Covered
<1>. QED
  BY <1>1, <1>2 DEF PeopleAnswer

-----------------------------------------------------------------------------
(* Each action, on the passcode screen and in the share settings *)

LEMMA BackFirst ==
    ASSUME Inv, Covered, Back
    PROVE  Covered' /\ FirstStep
<1>1. [calls EXCEPT !["fill"] = 0] \in [Kinds -> Nat]
  BY DEF Inv, Shape, Kinds
<1>2. [calls EXCEPT !["fill"] = 0]["ask"] = calls["ask"]
  BY AsksKept, {} \in SUBSET Kinds, "fill" \in Kinds DEF Inv, Kinds
<1>. QED
  BY <1>1, <1>2, ReturnFirst DEF Back, list

LEMMA OkStoredFirst ==
    ASSUME Inv, Covered, OkStored
    PROVE  Covered' /\ FirstStep
<1>1. [calls EXCEPT !["fill"] = 0] \in [Kinds -> Nat]
  BY DEF Inv, Shape, Kinds
<1>2. [calls EXCEPT !["fill"] = 0]["ask"] = calls["ask"]
  BY AsksKept, {} \in SUBSET Kinds, "fill" \in Kinds DEF Inv, Kinds
<1>3. screen = "passcode"
  BY DEF OkStored, Stored, Covered
<1>. QED
  BY <1>1, <1>2, <1>3, ReturnFirst DEF OkStored, list

LEMMA FillFormFirst ==
    ASSUME Inv, Covered, FillForm
    PROVE  Covered' /\ FirstStep
<1>1. calls'["ask"] = calls["ask"]
  BY AsksKept, {} \in SUBSET Kinds, "fill" \in Kinds DEF FillForm, Inv, Kinds
<1>. QED
  BY <1>1, KeepsFirst DEF FillForm, server, Covered

LEMMA TypePasscodeFirst ==
    ASSUME Inv, Covered, TypePasscode
    PROVE  Covered' /\ FirstStep
BY KeepsFirst DEF TypePasscode, server, Covered

LEMMA SetPasscodeFirst ==
    ASSUME Inv, Covered, SetPasscode
    PROVE  Covered' /\ FirstStep
<1>1. alert # Loading
  BY DEF SetPasscode, NoAlert, Loading
<1>2. CASE Ask("store")
  BY <1>1, <1>2, AskFirst, "store" \in Kinds DEF Kinds
<1>3. CASE /\ alert' = Message
           /\ UNCHANGED <<server, list, queue, screen, ed, calls, people, form, history>>
  BY <1>1, <1>3, KeepsFirst DEF server, Message
<1>. QED
  BY <1>2, <1>3 DEF SetPasscode

\* A passcode is stored wherever the screen is now; it deletes no row.
LEMMA StorePasscodeFirst ==
    ASSUME Inv, Covered, StorePasscode
    PROVE  Covered' /\ FirstStep
<1>. DEFINE w == [kind |-> "code", to |-> form # "empty"]
<1>1. w \in Write /\ w.kind = "code" /\ w # Delete
  BY DEF Write, Delete
<1>2. queue' = Append(queue, w) /\ UNCHANGED <<screen, list, note>>
  BY DEF StorePasscode, Send, server
<1>. HIDE DEF w
<1>3. OwnLock' => OwnLock
  BY <1>1, <1>2, AppendOwn DEF Inv
<1>4. queue' # Append(queue, Delete)
  BY <1>1, <1>2, QueueTyped, AppendProperties, Delete \in Write DEF Inv, Write, Delete
<1>5. PICK k \in {"store", "late"} :
         /\ calls' = Answered(k)
         /\ ed' = IF CodedSeen \/ k = "late" THEN ed ELSE AddLockIcon(ed)
  BY DEF StorePasscode
<1>6. calls'["ask"] = calls["ask"]
  BY <1>5, AsksKept, {} \in SUBSET Kinds, k \in Kinds DEF Inv, Kinds
<1>7. ed \in Editor /\ ed.lockStatus \in BOOLEAN
  BY DEF Inv, GoodEd, Editor
<1>8. ed'.kind = ed.kind /\ ed'.lockStatus = ed.lockStatus
  BY <1>5, <1>7, HandlersKeep, TRUE \in BOOLEAN
<1>9. /\ alert' # Loading => alert # Loading
      /\ alert'.kind = "stored" => screen = "passcode"
  BY PresentKeeps DEF StorePasscode, Stored, Loading, Covered
<1>10. Stays
  BY <1>2, <1>3, <1>4, <1>6, <1>7, <1>8, <1>9 DEF Stays
<1>. QED
  BY <1>10, StaysFirst

LEMMA ChangePeopleFirst ==
    ASSUME Inv, Covered, ChangePeople
    PROVE  Covered' /\ FirstStep
<1>1. OffList
  BY DEF ChangePeople, OffList, list, Covered, Inv, GoodEd, Editor
<1>. QED
  BY <1>1, OffListFirst

-----------------------------------------------------------------------------
(* Each action of the server and of everybody else *)

LEMMA CommitFirst ==
    ASSUME Inv, Covered, Commit
    PROVE  Covered' /\ FirstStep
<1>1. ed.lockStatus \in BOOLEAN
  BY DEF Inv, GoodEd, Editor
<1>2. queue' # Append(queue, Delete) /\ (OwnLock' => OwnLock)
  BY NeverAppended, CommitOwn DEF Commit, Inv
<1>3. Stays
  BY <1>1, <1>2 DEF Stays, Commit, Covered
<1>. QED
  BY <1>3, StaysFirst

LEMMA ElsewhereFirst ==
    ASSUME Inv, Covered, Elsewhere
    PROVE  Covered' /\ FirstStep
<1>1. ed.lockStatus \in BOOLEAN
  BY DEF Inv, GoodEd, Editor
<1>2. queue' # Append(queue, Delete) /\ (OwnLock' => OwnLock)
  BY NeverAppended, ElsewhereOwn DEF Elsewhere, Inv
<1>3. Stays
  BY <1>1, <1>2 DEF Stays, Elsewhere, Covered
<1>. QED
  BY <1>3, StaysFirst

-----------------------------------------------------------------------------
(* The passcode comes first *)

LEMMA CoveredAtFirst == Init => Covered
BY DEF Init, Covered, Kinds, Loading

LEMMA NextFirst ==
    ASSUME Inv, Covered, Next
    PROVE  Covered' /\ FirstStep
<1>1. CASE Lists
  BY <1>1, TapRowFirst, SwipeDeleteFirst, AddNoteFirst DEF Lists
<1>2. CASE Bar
  BY <1>2, FocusFieldFirst, TypeFirst, VoiceFirst, LockNoteFirst, AskToUnlockFirst,
     ShareNoteFirst, LeaveFirst DEF Bar
<1>3. CASE Sheet
  BY <1>3, ShowSheetFirst, ChooseRemoveFirst, ChooseAddFirst, ChooseEditFirst DEF Sheet
<1>4. CASE Alerts
  BY <1>4, EnterPasscodeFirst, DismissFirst, OkStoredFirst, RestartFirst
  DEF Alerts, DeleteTwice, Inv
<1>5. CASE Covers
  BY <1>5, BackFirst, TypePasscodeFirst, SetPasscodeFirst, ChangePeopleFirst DEF Covers
<1>6. CASE Answers
  BY <1>6, LoadRowsFirst, OpenRowFirst, AddLockFirst, CheckAnswerFirst, LoadAnswerFirst,
     FillFormFirst, StorePasscodeFirst, PeopleAnswerFirst, AskPasscodeFirst DEF Answers
<1>7. CASE Reload \/ Dictate \/ Commit
  BY <1>7, ReloadFirst, DictateFirst, CommitFirst
<1>8. CASE Elsewhere
  BY <1>8, ElsewhereFirst
<1>9. CASE Crash
  BY <1>9, RestartFirst DEF Crash, Inv
<1>. QED
  BY <1>1, <1>2, <1>3, <1>4, <1>5, <1>6, <1>7, <1>8, <1>9 DEF Next

\* A row that is older than a lock of this device cannot be touched.
THEOREM RowsCovered == Spec => []Covered
<1>1. LockInv /\ Covered /\ [Next]_vars => Covered'
  <2>1. LockInv /\ Covered /\ Next => Covered'
    BY NextFirst DEF LockInv
  <2>2. Covered /\ UNCHANGED vars => Covered'
    BY SameOwn DEF Covered, vars, server, list
  <2>. QED
    BY <2>1, <2>2
<1>. QED
  BY <1>1, CoveredAtFirst, Inductive, PTL DEF Spec

\* A note this device locked, as it sees it, is neither shown nor deleted from its
\* list before a passcode alert is answered, in every order of taps, answers,
\* alerts, kills, commits and writes from elsewhere.
THEOREM PasscodeAsked == Spec => PasscodeFirst
<1>1. LockInv /\ Covered /\ [Next]_vars
      => (/\ HereSeen /\ LockSeen /\ MineSeen
          /\ \/ ~Uncovered /\ Uncovered'
             \/ screen = "list" /\ queue' = Append(queue, Delete)
          => alert.kind \in {"unlock", "delete"})
  <2>1. LockInv /\ Covered /\ Next => FirstStep
    BY NextFirst DEF LockInv
  <2>2. LockInv /\ UNCHANGED vars => FirstStep
    BY QueueKept DEF FirstStep, Uncovered, vars, server, LockInv, Inv
  <2>. QED
    BY <2>1, <2>2 DEF FirstStep
<1>. QED
  BY <1>1, RowsCovered, Inductive, PTL DEF Spec, PasscodeFirst
=============================================================================
